------------------------ MODULE SpecAccepted_proofs ------------------------
(***************************************************************************)
(* Theorems of SpecRequest, for any set of calls of any declarations: what *)
(* a mount accepts, its calls can compile, bind and answer, and the state  *)
(* of a call has its type, which rests on what the mount checked.          *)
(***************************************************************************)
EXTENDS SpecRequest_proofs

-----------------------------------------------------------------------------
(* What a mount checked of the spec it dispatches.                         *)

(* The stages that check a service, and what they grant it. *)
Checks(declared, has, permissive) ==
    /\ validate_service_spec(declared, has, permissive)
    /\ has => HasRow
    /\ permissive => View.feeds # None \/ call.action = "custom"

CheckedService(declared) ==
    /\ \E has, permissive : Checks(declared, has, permissive)
    /\ ServiceSpecBuilt(declared) /\ SignedService(declared)

CheckedRead(declared) ==
    /\ \E kind : validate_selector_spec(declared, kind)
    /\ SignedRead(declared)

LEMMA MadeIsSigned ==
  ASSUME Made
  PROVE  RaisedByAuthors(call) /\ \A declared \in Declared(View) : Signed(declared)
  BY CallsAssumption DEF Made, View

LEMMA ServiceIsSigned ==
  ASSUME Made, Mountable(View), NEW declared \in Declared(View)
  PROVE  /\ declared.is = "service" => ServiceSpecBuilt(declared) /\ SignedService(declared)
         /\ declared.is = "selector" => SignedRead(declared)
         /\ declared.is = "polymorphic" =>
               \A variant \in Elements(declared.specs) : variant.is = "service" =>
                   ServiceSpecBuilt(variant) /\ SignedService(variant)
<1>1. Built(declared) /\ Signed(declared)
  BY MadeIsSigned DEF Mountable
<1>2. ASSUME declared.is = "service"
      PROVE  ServiceSpecBuilt(declared) /\ SignedService(declared)
  BY <1>1, <1>2 DEF Built, Signed
<1>3. ASSUME declared.is = "selector" PROVE SignedRead(declared)
  BY <1>1, <1>3 DEF Signed
<1>4. ASSUME declared.is = "polymorphic", NEW variant \in Elements(declared.specs),
             variant.is = "service"
      PROVE  ServiceSpecBuilt(variant) /\ SignedService(variant)
  <2>1. PICK i \in DOMAIN declared.specs : variant = declared.specs[i]
    BY <1>4 DEF Elements
  <2> QED BY <1>1, <1>4, <2>1 DEF Built, Signed
<1> QED BY <1>2, <1>3, <1>4

(* The entry is declared, and its mount checked it. *)
LEMMA EntryIsDeclared ==
  ASSUME WellRouted(call), Over("http"), Entry # None
  PROVE  Entry \in Declared(View)
<1>1. CASE View.base = "standalone"
  BY <1>1 DEF Entry, Declared
<1>2. CASE View.base = "viewset" /\ call.action # "custom"
  <2>1. PICK key : Entry = Get(View.action_specs, key)
    BY <1>2 DEF Entry, resolve_action_spec_entry
  <2> QED BY <2>1 DEF Get, Declared
<1>3. CASE ~(View.base = "standalone") /\ ~(View.base = "viewset" /\ call.action # "custom")
  BY <1>3 DEF Entry, Declared
<1> QED BY <1>1, <1>2, <1>3

LEMMA EntryIsChecked ==
  ASSUME WellRouted(call), Over("http"), Mountable(View), Entry # None
  PROVE  /\ Entry.is = "service" => \E has, permissive : Checks(Entry, has, permissive)
         /\ Entry.is = "polymorphic" => \A variant \in Elements(Entry.specs) :
               variant.is = "service" /\ \E has, permissive : Checks(variant, has, permissive)
         /\ Entry.is = "selector" => \E kind : validate_selector_spec(Entry, kind)
<1>1. CASE View.base = "standalone"
  <2>1. /\ Entry = View.spec /\ View.serves = call.action
        /\ Entry.is = IF View.serves \in Mutations THEN "service" ELSE "selector"
    BY <1>1 DEF Entry, WellRouted, View, Over
  <2>2. CASE call.action \in Mutations
    <3>1. validate_service_spec(Entry, has_instance(call.action), View.feeds # None)
      BY <1>1, <2>1, <2>2 DEF Mountable, as_view, validate_mutation_view_spec
    <3>2. Checks(Entry, has_instance(call.action), View.feeds # None)
      BY <3>1 DEF Checks, HasRow
    <3> QED BY <2>1, <2>2, <3>2
  <2>3. CASE call.action \notin Mutations
    BY <1>1, <2>1, <2>3
    DEF Mountable, as_view, validate_selector_view_spec, _validate_selector_action_spec
  <2> QED BY <2>2, <2>3
<1>2. CASE View.base = "viewset" /\ call.action # "custom"
  <2>1. PICK key \in DOMAIN View.action_specs :
            /\ Entry = View.action_specs[key]
            /\ key = call.action \/ (key = "update" /\ call.action = "partial_update")
    <3>1. Entry = resolve_action_spec_entry(View, call.action)
      BY <1>2 DEF Entry
    <3>2. PICK key :
              /\ Entry = Get(View.action_specs, key)
              /\ key = call.action \/ (key = "update" /\ call.action = "partial_update")
      BY <3>1 DEF resolve_action_spec_entry, _ACTION_SPEC_FALLBACKS
    <3> QED BY <3>2 DEF Get
  <2>2. key \in Mutations \/ key \in {"list", "retrieve"}
    BY <1>2, <2>1 DEF WellRouted, Actions, Mutations
  <2>3. _validate_action_spec(View, key, Entry)
    BY <1>2, <2>1 DEF Mountable, as_view
  <2>4. CASE key \in Mutations
    <3>1. _validate_mutation_action_spec(View, key, Entry)
      BY <2>3, <2>4 DEF _validate_action_spec, Mutations, _SELECTOR_ACTION_KIND
    <3>2. has_instance(key) => HasRow
      BY <2>1 DEF has_instance, HasRow
    <3>3. ASSUME NEW declared,
                 validate_service_spec(declared, has_instance(key), View.feeds # None)
          PROVE  \E has, permissive : Checks(declared, has, permissive)
      BY <3>2, <3>3 DEF Checks
    <3>4. CASE Entry.is = "service"
      BY <3>1, <3>3, <3>4
      DEF _validate_mutation_action_spec, _mutation_extras_are_permissive
    <3>5. CASE Entry.is = "polymorphic"
      BY <3>1, <3>3, <3>5
      DEF _validate_mutation_action_spec, _mutation_extras_are_permissive,
          validate_polymorphic_service_spec
    <3>6. Entry.is \in {"service", "polymorphic"}
      BY <3>1 DEF _validate_mutation_action_spec
    <3> QED BY <3>4, <3>5, <3>6
  <2>5. CASE key \in {"list", "retrieve"}
    <3>1. _validate_selector_action_spec(View, key, Entry)
      BY <2>3, <2>5 DEF _validate_action_spec, Mutations, _SELECTOR_ACTION_KIND
    <3> QED BY <3>1 DEF _validate_selector_action_spec
  <2> QED BY <2>2, <2>4, <2>5
<1>3. CASE View.base = "plain" \/ (View.base = "viewset" /\ call.action = "custom")
  <2>1. Entry = View.stamped /\ call.action = "custom"
    BY <1>3 DEF Entry, WellRouted, View
  <2>2. IF Entry.is = "selector" THEN selector_action(View) ELSE service_action(View)
    BY <2>1 DEF Mountable, as_view, Decorated
  <2>3. ASSUME NEW declared, validate_service_spec(declared, View.detail, TRUE)
        PROVE  \E has, permissive : Checks(declared, has, permissive)
    BY <2>1, <2>3 DEF Checks, HasRow
  <2>4. CASE Entry.is = "service"
    BY <2>1, <2>2, <2>3, <2>4 DEF service_action
  <2>5. CASE Entry.is = "polymorphic"
    BY <2>1, <2>2, <2>3, <2>5 DEF service_action, validate_polymorphic_service_spec
  <2>6. CASE Entry.is = "selector"
    BY <2>1, <2>2, <2>6 DEF selector_action
  <2> QED BY <2>4, <2>5, <2>6
<1> QED BY <1>1, <1>2, <1>3 DEF WellRouted, View

(* So is the spec that is dispatched. *)
LEMMA SpecIsChecked ==
  ASSUME IInv, Over("http"), stage \notin {"declared", "refused"}, spec # None
  PROVE  /\ IsService => CheckedService(spec)
         /\ spec.is = "selector" => CheckedRead(spec)
         /\ spec.is \in {"service", "selector"} \/ spec = Entry
<1>1. Made /\ WellRouted(call) /\ Mountable(View) /\ FromEntry
  BY MadeIsRouted DEF IInv, Accepted, Served
<1>2. Entry # None /\ Entry \in Declared(View)
  BY <1>1, EntryIsDeclared DEF FromEntry
<1>3. CASE spec = Entry
  BY <1>1, <1>2, <1>3, EntryIsChecked, ServiceIsSigned DEF CheckedService, CheckedRead, IsService
<1>4. CASE spec # Entry
  <2>1. /\ Entry.is = "polymorphic"
        /\ chosen \in DOMAIN Polymorphic.specs /\ spec = Polymorphic.specs[chosen]
    BY <1>1, <1>4 DEF FromEntry
  <2>2. Polymorphic = Entry
    BY <1>1, <1>2, <2>1, VariantsAreTheEntrys
  <2>3. spec \in Elements(Entry.specs)
    BY <2>1, <2>2 DEF Elements
  <2>4. spec.is = "service" /\ \E has, permissive : Checks(spec, has, permissive)
    BY <1>1, <1>2, <2>1, <2>3, EntryIsChecked
  <2>5. ServiceSpecBuilt(spec) /\ SignedService(spec)
    BY <1>1, <1>2, <2>1, <2>3, <2>4, ServiceIsSigned
  <2> QED BY <2>4, <2>5 DEF CheckedService
<1> QED BY <1>3, <1>4

-----------------------------------------------------------------------------
(* What binds.                                                             *)

(* A checked callable binds to any pool that gives what its site promised, *)
(* the instance aside.                                                     *)
LEMMA SiteBinds ==
  ASSUME NEW fn, NEW keys, NEW fed, NEW seeds, NEW pool,
         validate_callable_signature(fn, Site(keys, fed, seeds)), fn.requires \subseteq Parameters,
         {"request", "user"} \cup seeds \subseteq pool, keys \ {"instance"} \subseteq pool,
         fed => Feedable \subseteq pool
  PROVE  Binds(fn, pool) \/ ("instance" \in keys /\ "instance" \notin pool)
<1> SUFFICES ASSUME ~fn.spreads, NEW x \in fn.requires, x \notin pool
             PROVE  x = "instance" /\ "instance" \in keys
  BY DEF Binds
<1>1. /\ fn.requires \cap FrameworkKeys \subseteq keys
      /\ fed \/ fn.requires \subseteq {"request", "user"} \cup keys \cup seeds
  BY DEF validate_callable_signature, Site
<1>2. CASE x \in FrameworkKeys
  BY <1>1, <1>2
<1>3. CASE x \notin FrameworkKeys
  <2>1. x \in Feedable
    BY <1>3 DEF Feedable
  <2> QED BY <1>1, <2>1
<1> QED BY <1>2, <1>3

(* What a lookup's selector or a read's binds to: no framework key, and    *)
(* the reads that nothing hides.                                           *)
LEMMA LookupSiteBinds ==
  ASSUME NEW fn, NEW hiding, NEW pool,
         validate_callable_signature(fn, Site({}, TRUE, {})), Reads(fn, hiding),
         Feedable \subseteq pool, (Takes(fn) \cap Fields) \ _owned_keys(hiding \cup {fn}) \subseteq pool
  PROVE  Binds(fn, pool)
<1> SUFFICES ASSUME ~fn.spreads, NEW x \in fn.requires PROVE x \in pool
  BY DEF Binds
<1>1. fn.requires \cap FrameworkKeys = {}
  BY DEF validate_callable_signature, Site
<1>2. x \in Parameters \/ x \in Fields \ _owned_keys(hiding \cup {fn})
  BY DEF Reads
<1>3. CASE x \in Parameters
  BY <1>1, <1>3 DEF Feedable
<1>4. CASE x \in Fields \ _owned_keys(hiding \cup {fn})
  BY <1>4 DEF Takes
<1> QED BY <1>2, <1>3, <1>4

(* What a service's callables bind to once its target is known. *)
Ready ==
    IF IsService
    THEN target # "unset" /\ (spec.collection_selector_spec # None => target = "set")
    ELSE target \in IF spec.kind = "list" THEN {"set"} ELSE {"row", "record"}

Targets == {"none", "unset", "row", "record", "set"}
Rowless == HasRow /\ target \in {"none", "set"}

LEMMA ServicePool ==
  ASSUME IsService, Ready, Over("http")
  PROVE  /\ {"request", "user", "view"} \cup Body(spec) \subseteq CallPool
         /\ spec.collection_selector_spec # None => "collection" \in CallPool
         /\ spec.kwargs # None \/ View.feeds # None \/ call.action = "custom" =>
               Feedable \subseteq CallPool
         /\ target \in {"row", "record"} => "instance" \in CallPool
  BY DEF Ready, CallPool, Ambient, SetKey, RowKey, resolve_extra_kwargs, resolve_view_hooks, IsService

LEMMA ServiceBinds ==
  ASSUME IsService, Ready, Over("http"), CheckedService(spec), target \in Targets
  PROVE  /\ \A fn \in {spec.service} \cup Preconditions(spec) : Binds(fn, CallPool) \/ Rowless
         /\ Rereads(spec) => Binds(spec.output_selector_spec.selector, OutputPool) \/ Rowless
<1>1. PICK has, permissive : Checks(spec, has, permissive)
  BY DEF CheckedService
<1> DEFINE keys == Body(spec) \cup Row(has)
           fed == permissive \/ spec.kwargs # None
           seeds == IF spec.collection_selector_spec # None THEN {"collection"} ELSE {}
<1>2. validate_service_spec(spec, has, permissive)
  BY <1>1 DEF Checks
<1>3. /\ {"request", "user"} \cup seeds \subseteq CallPool /\ keys \ {"instance"} \subseteq CallPool
      /\ fed => Feedable \subseteq CallPool
  BY <1>1, ServicePool DEF Checks, Row
<1>4. "instance" \in keys /\ "instance" \notin CallPool => Rowless
  <2>1. "instance" \in keys => has
    BY DEF Body, Row
  <2>2. ASSUME "instance" \notin CallPool PROVE target \in {"none", "set"}
    BY <2>2, ServicePool DEF Ready, Targets
  <2> QED BY <1>1, <2>1, <2>2 DEF Checks, Rowless
<1>5. ASSUME NEW fn \in {spec.service} \cup Preconditions(spec)
      PROVE  Binds(fn, CallPool) \/ Rowless
  <2>1. validate_callable_signature(fn, Site(keys, fed, seeds))
    <3>1. CASE fn = spec.service
      BY <1>2, <3>1 DEF validate_service_spec
    <3>2. CASE fn \in Preconditions(spec)
      BY <1>2, <3>2 DEF validate_service_spec, _validate_preconditions, Preconditions
    <3> QED BY <1>5, <3>1, <3>2
  <2>2. fn.requires \subseteq Parameters
    BY <1>5 DEF CheckedService, SignedService, Given, Receivers
  <2> QED BY <1>3, <1>4, <2>1, <2>2, SiteBinds
<1>6. ASSUME Rereads(spec)
      PROVE  Binds(spec.output_selector_spec.selector, OutputPool) \/ Rowless
  <2> DEFINE fn == spec.output_selector_spec.selector
             out == Body(spec) \cup Row(has) \cup {"result"}
  <2>1. spec.output_selector_spec # None /\ fn # None
    BY <1>6 DEF Rereads
  <2>2. validate_callable_signature(fn, Site(out, fed, {}))
    BY <1>2, <2>1 DEF validate_service_spec, _validate_output_selector_spec, SelectorTakes
  <2>3. fn.requires \subseteq Parameters
    BY <2>1 DEF CheckedService, SignedService, Given
  <2>4. /\ {"request", "user"} \cup {} \subseteq OutputPool /\ out \ {"instance"} \subseteq OutputPool
        /\ fed => Feedable \subseteq OutputPool
    BY <1>3 DEF OutputPool
  <2>5. "instance" \in out /\ "instance" \notin OutputPool => Rowless
    BY <1>4 DEF OutputPool
  <2> HIDE DEF fn, out, fed
  <2>6. Binds(fn, OutputPool) \/ ("instance" \in out /\ "instance" \notin OutputPool)
    BY <2>2, <2>3, <2>4, SiteBinds
  <2> QED BY <2>5, <2>6 DEF fn
<1> QED BY <1>5, <1>6

LEMMA ReadBinds ==
  ASSUME spec.is = "selector", Ready, Over("http"), CheckedRead(spec), NEW fn \in Preconditions(spec)
  PROVE  Binds(fn, CallPool)
<1> DEFINE keys == Row(spec.kind = "retrieve")
           seeds == IF spec.kind = "list" THEN {"collection"} ELSE {}
<1>1. ~IsService /\ (spec.kind = "retrieve" => "instance" \in CallPool)
  BY DEF IsService, Ready, CallPool, RowKey
<1>2. {"request", "user"} \cup Feedable \subseteq CallPool
  BY <1>1 DEF CallPool, resolve_extra_kwargs, Ambient
<1>3. /\ {"request", "user"} \cup seeds \subseteq CallPool /\ keys \ {"instance"} \subseteq CallPool
      /\ "instance" \in keys => "instance" \in CallPool
  BY <1>1, <1>2 DEF Row, Feedable, Parameters, FrameworkKeys
<1>4. validate_callable_signature(fn, Site(keys, TRUE, seeds))
  BY DEF CheckedRead, validate_selector_spec, _validate_preconditions, Preconditions
<1>5. fn.requires \subseteq Parameters
  BY DEF CheckedRead, SignedRead, Given
<1> HIDE DEF keys, seeds
<1> QED BY <1>2, <1>3, <1>4, <1>5, SiteBinds

(* A lookup is one of the two the service declares. *)
LEMMA TargetIsDeclared ==
  ASSUME Target(spec) # None
  PROVE  /\ Target(spec) \in {spec.instance_selector_spec, spec.collection_selector_spec}
         /\ Target(spec).selector # None
<1>1. Target(spec) \in _lookup_selectors(spec)
  BY DEF Target
<1> QED BY <1>1 DEF _lookup_selectors, Lookups

LEMMA LookupOfServiceBinds ==
  ASSUME IsService, CheckedService(spec), Target(spec) # None
  PROVE  LookupBinds
<1> DEFINE fn == Target(spec).selector
<1>1. PICK has, permissive : validate_service_spec(spec, has, permissive)
  BY DEF CheckedService, Checks
<1>2. validate_callable_signature(fn, Site({}, TRUE, {}))
  BY <1>1, TargetIsDeclared
  DEF validate_service_spec, _validate_instance_selector_spec, _validate_collection_selector_spec,
      SelectorTakes
<1>3. Reads(fn, Receivers(spec))
  BY DEF CheckedService, SignedService
<1>4. LookupPool = Feedable \cup ((Takes(fn) \cap Fields) \ _owned_keys(Receivers(spec) \cup {fn}))
  BY DEF LookupPool, Taken
<1>5. Binds(fn, LookupPool)
  BY <1>2, <1>3, <1>4, LookupSiteBinds
<1> QED BY <1>5 DEF LookupBinds, Lookup

LEMMA ReadSelects ==
  ASSUME NEW declared, NEW pool, CheckedRead(declared), declared.selector # None,
         Feedable \cup SelectorReads(declared) \subseteq pool
  PROVE  Binds(declared.selector, pool)
<1> DEFINE fn == declared.selector
<1>1. validate_callable_signature(fn, Site({}, TRUE, {}))
  BY DEF CheckedRead, validate_selector_spec
<1>2. Reads(fn, Preconditions(declared))
  BY DEF CheckedRead, SignedRead
<1>3. {fn} \cup Preconditions(declared) = Preconditions(declared) \cup {fn}
  OBVIOUS
<1>4. (Takes(fn) \cap Fields) \ _owned_keys(Preconditions(declared) \cup {fn}) \subseteq pool
  BY <1>3 DEF SelectorReads
<1> QED BY <1>1, <1>2, <1>4, LookupSiteBinds

LEMMA LookupOfReadBinds ==
  ASSUME spec.is = "selector", CheckedRead(spec), spec.selector # None
  PROVE  LookupBinds
<1>1. LookupPool = Feedable \cup SelectorReads(spec)
  BY DEF LookupPool, IsService
<1> QED BY <1>1, ReadSelects DEF LookupBinds, Lookup, IsService

(* The view's own lookup binds too. *)
LEMMA RowIsChecked ==
  ASSUME Made, Mountable(View), RowSpec # None
  PROVE  /\ CheckedRead(RowSpec) /\ RowSpec.selector # None /\ RowSpec.is = "selector"
         /\ validate_selector_spec(RowSpec, RowSpec.kind)
<1>1. PICK key \in {"retrieve", "list"} :
          /\ View.base = "viewset" /\ resolve_action_selector_spec(View, key) # None
          /\ RowSpec = View.action_specs[key]
  BY DEF RowSpec, RowSource
<1>2. key \in DOMAIN View.action_specs /\ RowSpec.selector # None
  BY <1>1 DEF resolve_action_selector_spec, Get
<1>3. _validate_action_spec(View, key, RowSpec)
  BY <1>1, <1>2 DEF Mountable, as_view
<1>4. _validate_selector_action_spec(View, key, RowSpec)
  BY <1>3 DEF _validate_action_spec, Mutations, _SELECTOR_ACTION_KIND
<1>5. RowSpec.is = "selector" /\ validate_selector_spec(RowSpec, key)
  BY <1>4 DEF _validate_selector_action_spec, _SELECTOR_ACTION_KIND
<1>6. RowSpec \in Declared(View)
  BY <1>1, <1>2 DEF Declared
<1>7. SignedRead(RowSpec)
  BY <1>5, <1>6, ServiceIsSigned
<1>8. validate_selector_spec(RowSpec, RowSpec.kind)
  BY <1>5 DEF validate_selector_spec
<1> QED BY <1>2, <1>5, <1>7, <1>8 DEF CheckedRead

LEMMA RowBound == ASSUME Made, Mountable(View), RowSpec # None PROVE RowBinds
<1>1. CheckedRead(RowSpec) /\ RowSpec.selector # None /\ validate_selector_spec(RowSpec, RowSpec.kind)
  BY RowIsChecked
<1>2. Binds(RowSpec.selector, Feedable \cup SelectorReads(RowSpec))
  BY <1>1, ReadSelects
<1>3. ASSUME NEW fn \in Preconditions(RowSpec)
      PROVE  Binds(fn, Feedable \cup (IF RowSpec.kind = "list" THEN {"collection"} ELSE {"instance"}))
  <2> DEFINE keys == Row(RowSpec.kind = "retrieve")
             seeds == IF RowSpec.kind = "list" THEN {"collection"} ELSE {}
             pool == Feedable \cup (IF RowSpec.kind = "list" THEN {"collection"} ELSE {"instance"})
  <2>1. /\ {"request", "user"} \cup seeds \subseteq pool /\ keys \ {"instance"} \subseteq pool
        /\ "instance" \in keys => "instance" \in pool
    BY DEF Row, Feedable, Parameters, FrameworkKeys
  <2>2. validate_callable_signature(fn, Site(keys, TRUE, seeds))
    BY <1>1, <1>3 DEF validate_selector_spec, _validate_preconditions, Preconditions
  <2>3. fn.requires \subseteq Parameters
    BY <1>1, <1>3 DEF CheckedRead, SignedRead, Given
  <2>4. Feedable \subseteq pool
    OBVIOUS
  <2> HIDE DEF keys, seeds, pool
  <2>5. Binds(fn, pool)
    BY <2>1, <2>2, <2>3, <2>4, SiteBinds
  <2> QED BY <2>5 DEF pool
<1> QED BY <1>2, <1>3 DEF RowBinds

-----------------------------------------------------------------------------
(* What compiles.                                                          *)

LEMMA ReadCompiles ==
  ASSUME NEW declared, declared.is = "selector", declared.selector # None,
         ~CompiledInVain(declared)
  PROVE  as_kernel_spec(declared)
<1>1. Names(declared.reads) \cap (_NOT_ARGUMENTS \cup _owned_keys({declared.selector}
                                      \cup Preconditions(declared))) = {}
  BY DEF CompiledInVain
<1>2. declared.output_serializer = None => ~declared.field_audiences
  BY DEF CompiledInVain
<1> QED BY <1>1, <1>2 DEF as_kernel_spec, _selector, _declared, _refuse_hidden_reads, _presenter

(* The names a service's target filters by, as the call reads them. *)
LEMMA FiltersAreNoFields ==
  ASSUME NEW declared, declared.is = "service", ServiceSpecBuilt(declared),
         _refuse_filters_named_like_fields(declared), ~CompiledInVain(declared)
  PROVE  parameters(declared)
<1> DEFINE named == UNION {Names(spoken.reads) : spoken \in {declared} \cup Lookups(declared)}
           filters == UNION {lookup.filter_set : lookup \in
                                {x \in Lookups(declared) : x.filter_set # None}}
           lookedUp == Target(declared)
<1>1. /\ writable_input_names(declared) \cap named = {}
      /\ declared.readable \/ writable_input_names(declared) \cap filters = {}
  BY DEF CompiledInVain
<1>2. Names(declared.reads) \subseteq named
  OBVIOUS
<1>3. ASSUME lookedUp # None, lookedUp.filter_set # None
      PROVE  writable_input_names(declared) \cap lookedUp.filter_set = {}
  <2>1. lookedUp \in Lookups(declared)
    BY <1>3 DEF Target, _lookup_selectors
  <2>2. CASE declared.readable
    <3>1. declared.collection_selector_spec # None => declared.instance_selector_spec = None
      BY DEF ServiceSpecBuilt, validate_target_lookups
    <3> QED BY <1>3, <2>1, <2>2, <3>1
            DEF _refuse_filters_named_like_fields, _compiled_input_names, Lookups
  <2>3. CASE ~declared.readable
    <3>1. lookedUp.filter_set \subseteq filters
      BY <1>3, <2>1
    <3> QED BY <1>1, <2>3, <3>1
  <2> QED BY <2>2, <2>3
<1> QED BY <1>1, <1>2, <1>3 DEF parameters

LEMMA ServiceCompiles ==
  ASSUME IsService, CheckedService(spec), ~CompiledInVain(spec)
  PROVE  as_kernel_spec(spec) /\ parameters(spec)
<1> DEFINE output == spec.output_selector_spec
<1>1. PICK has, permissive : validate_service_spec(spec, has, permissive)
  BY DEF CheckedService, Checks
<1>2. \A nested \in _lookup_selectors(spec) : _refuse_nested_runs(nested) /\ nested.selector # None
  BY <1>1 DEF _lookup_selectors, Lookups, validate_service_spec, _validate_instance_selector_spec,
              _validate_collection_selector_spec, _reject_ignored_nested_fields,
              _refuse_nested_runs
<1>3. spec.collection_selector_spec # None => spec.collection_selector_spec.selector # None
  BY <1>1 DEF validate_service_spec, _validate_collection_selector_spec
<1>4. _nested(spec)
  BY <1>2, <1>3, NoneAssumption DEF _nested, _selector
<1>5. /\ Names(spec.reads) \cap (_NOT_ARGUMENTS \cup _owned_keys(Receivers(spec))) = {}
      /\ output = None => ~spec.field_audiences
      /\ output # None /\ output.output_serializer = None =>
            ~spec.field_audiences /\ ~output.field_audiences
      /\ writable_input_names(spec) \cap
            UNION {Names(spoken.reads) : spoken \in {spec} \cup Lookups(spec)} = {}
      /\ KernelServiceSpec(spec)
  BY DEF CompiledInVain, IsService, KernelServiceSpec
<1>6. _refuse_reads_named_like_fields(spec)
  BY <1>5 DEF _refuse_reads_named_like_fields, _compiled_input_names, Names
<1>7. _declared(spec.reads) /\ _refuse_hidden_reads(spec.reads, Receivers(spec))
  BY <1>5 DEF _declared, _refuse_hidden_reads
<1>8. ASSUME output # None
      PROVE  /\ _refuse_nested_runs(output)
             /\ _presenter(output.output_serializer, _audiences(output, spec.field_audiences))
  BY <1>1, <1>5, <1>8 DEF validate_service_spec, _validate_output_selector_spec,
                    _reject_ignored_nested_fields, _refuse_nested_runs, _audiences, _presenter
<1>9. _output(spec)
  <2>1. CASE output = None
    BY <1>5, <2>1 DEF _output, _presenter
  <2>2. CASE output # None
    <3> DEFINE audiences == _audiences(output, spec.field_audiences)
    <3>1. _presenter(output.output_serializer, audiences)
      BY <1>8, <2>2
    <3>2. Rereads(spec) => _selector(output, "output", audiences)
      BY <1>8, <2>2, <3>1, NoneAssumption DEF Rereads, _selector
    <3> QED BY <1>8, <2>2, <3>1, <3>2 DEF _output
  <2> QED BY <2>1, <2>2
<1>10. parameters(spec)
  BY <1>1, FiltersAreNoFields DEF CheckedService, validate_service_spec, IsService
<1> QED BY <1>4, <1>5, <1>6, <1>7, <1>9, <1>10 DEF as_kernel_spec, _service, IsService

-----------------------------------------------------------------------------
(* What a call has by the time a callable is bound.                        *)

Selected == stage \in {"guard", "input", "preconditions", "service", "output", "status"}

ReadyInv ==
    Over("http") =>
        /\ target \in Targets
        /\ spec # None => IsService \/ (spec.is = "selector" /\ spec.selector # None)
        /\ stage = "lookup" /\ IsService => Target(spec) # None
        /\ Selected => Ready
        /\ stage = "get_object" /\ spec # None => IsService /\ HasRow /\ target = "unset"
        /\ stage = "output" => value \in {None, "returned"}
        /\ stage \in {"status", "render"} /\ spec # None /\ IsService =>
              value \in {None, IF Rereads(spec) THEN "selected" ELSE "returned"}

LEMMA ServiceTargets ==
  ASSUME CheckedService(spec), spec.collection_selector_spec # None
  PROVE  Target(spec) = spec.collection_selector_spec /\ Target(spec).kind = "list"
<1>1. PICK has, permissive : validate_service_spec(spec, has, permissive)
  BY DEF CheckedService, Checks
<1>2. spec.instance_selector_spec = None
  BY DEF CheckedService, ServiceSpecBuilt, validate_target_lookups
<1>3. /\ spec.collection_selector_spec.selector # None
      /\ spec.collection_selector_spec.kind = "list"
  BY <1>1 DEF validate_service_spec, _validate_collection_selector_spec
<1>4. _lookup_selectors(spec) = {spec.collection_selector_spec}
  BY <1>2, <1>3 DEF _lookup_selectors, Lookups
<1> QED BY <1>3, <1>4 DEF Target

(* What is kept is still ready. *)
LEMMA SameReady ==
  ASSUME UNCHANGED <<call, spec>>
  PROVE  /\ Over("http")' = Over("http") /\ IsService' = IsService
         /\ target' = target => Ready' = Ready
  BY DEF Over, IsService, Ready

LEMMA SameView == ASSUME UNCHANGED call PROVE HasRow' = HasRow /\ View' = View
  BY DEF HasRow, View

(* Until the spec is compiled nothing is bound. *)
LEMMA EarlyReady ==
  ASSUME ReadyInv, UNCHANGED <<call, spec>>, target' \in Targets,
         stage' \notin {"get_object", "lookup", "output", "status", "render"}, ~Selected'
  PROVE  ReadyInv'
  BY SameReady DEF ReadyInv

LEMMA KeepsReady ==
  ASSUME ReadyInv, UNCHANGED <<call, spec, target>>, Selected, stage' # "lookup",
         stage' \notin {"get_object", "output", "status", "render"}
  PROVE  ReadyInv'
  BY SameReady DEF ReadyInv

LEMMA BeforeReady ==
  ASSUME IInv, ReadyInv, Mount \/ Options \/ Discriminate \/ CheckPermissions \/ Unserved, Over("http")
  PROVE  ReadyInv'
<1> USE DEF Selected
<1>1. CASE Mount
  BY <1>1, EarlyReady DEF Mount, Goto, ReadyInv
<1>2. CASE Options
  BY <1>2, EarlyReady DEF Options, Goto, Crash, Fail, found, ReadyInv
<1>3. CASE Discriminate
  BY <1>3, EarlyReady, Discriminating DEF Discriminate, found, ReadyInv
<1>4. CASE CheckPermissions
  BY <1>4, EarlyReady DEF CheckPermissions, Ask, Goto, Fail, ReadyInv
<1>5. CASE Unserved
  BY <1>5, EarlyReady DEF Unserved, Crash, Fail, found, ReadyInv
<1> QED BY <1>1, <1>2, <1>3, <1>4, <1>5

LEMMA VariantReady == ASSUME IInv, ReadyInv, ResolveVariant, Over("http") PROVE ReadyInv'
<1>1. /\ UNCHANGED <<call, target>> /\ stage = "handler"
      /\ Entry # None /\ Entry.is = "polymorphic"
      /\ spec' = IF chosen' = 0 THEN None ELSE Polymorphic.specs[chosen']
      /\ chosen' = chosen \/ chosen' \in DOMAIN Polymorphic.specs
  BY Discriminating DEF ResolveVariant, Cached
<1>2. stage' \in {"handler", "failed"}
  BY <1>1, Discriminating DEF ResolveVariant, Cached
<1>3. Made /\ WellRouted(call) /\ Mountable(View) /\ Chosen
  BY <1>1, MadeIsRouted DEF IInv, Accepted
<1>4. Polymorphic = Entry
  BY <1>1, <1>3, VariantsAreTheEntrys
<1>5. ASSUME spec' # None PROVE spec'.is = "service"
  <2>1. spec' \in Elements(Entry.specs)
    BY <1>1, <1>3, <1>4, <1>5 DEF Chosen, Elements
  <2> QED BY <1>1, <1>3, <2>1, EntryIsChecked
<1> QED BY <1>1, <1>2, <1>5 DEF ReadyInv, Selected, IsService, Over

LEMMA ServeReady == ASSUME IInv, ReadyInv, ServeSpec, Over("http") PROVE ReadyInv'
<1>1. /\ UNCHANGED call /\ stage' \in {"get_object", "compile"} /\ target' \in Targets
      /\ \/ spec # None /\ spec' = spec
         \/ spec'.is = "service"
         \/ spec'.is = "selector" /\ spec'.selector # None
  BY DEF ServeSpec, Goto, Selects, Targets
<1>2. ASSUME stage' = "get_object" PROVE spec'.is = "service" /\ HasRow /\ target' = "unset"
  <2>1. spec'.is = "service" /\ HasRow /\ mutation_target_source(spec') = "get_object"
    BY <1>2 DEF ServeSpec, Goto
  <2> QED BY <2>1 DEF ServeSpec, mutation_target_source
<1> QED BY <1>1, <1>2, SameView DEF ReadyInv, Selected, IsService, Over

LEMMA RowReady == ASSUME IInv, ReadyInv, DRFRead \/ get_object \/ CheckRow, Over("http") PROVE ReadyInv'
<1>1. UNCHANGED <<call, spec>> /\ target' \in Targets
  <2>1. CASE DRFRead \/ CheckRow
    BY <2>1 DEF DRFRead, CheckRow, found, ReadyInv
  <2>2. CASE get_object
    BY <2>2 DEF get_object, MissingRow, ReadyInv, Targets
  <2> QED BY <2>1, <2>2
<1>2. stage' \in {"object", "compile", "failed"} \/ (spec = None /\ stage' \in {"get_object", "render"})
  <2>1. CASE DRFRead
    <3>1. stage = "handler" /\ stage' \in {"get_object", "render", "failed"}
      BY <2>1 DEF DRFRead, Goto, Crash, Fail
    <3>2. spec = None
      <4>1. call.action \in {"list", "retrieve"} /\ ~Selects(Entry)
        BY <2>1 DEF DRFRead
      <4>2. ASSUME spec # None PROVE FALSE
        <5>1. FromEntry /\ Made /\ Mountable(View)
          BY <3>1, <4>2 DEF IInv, Served, Accepted
        <5>2. Entry # None /\ Entry.is \in {"service", "selector", "polymorphic"}
          BY <4>2, <5>1 DEF FromEntry, ReadyInv, IsService
        <5>3. Entry.is = "selector"
          <6>1. CASE View.base = "standalone"
            BY <4>1, <5>1, <5>2, <6>1, MadeIsRouted DEF WellRouted, View, Entry, Over, Mutations
          <6>2. CASE View.base = "viewset"
            <7>1. Entry = Get(View.action_specs, call.action)
              BY <4>1, <6>2 DEF Entry, resolve_action_spec_entry, _ACTION_SPEC_FALLBACKS, Get
            <7>2. call.action \in DOMAIN View.action_specs /\ Entry = View.action_specs[call.action]
              BY <5>2, <7>1 DEF Get
            <7>3. _validate_action_spec(View, call.action, Entry)
              BY <5>1, <6>2, <7>2 DEF Mountable, as_view
            <7> QED BY <4>1, <7>3 DEF _validate_action_spec, _validate_selector_action_spec,
                                     Mutations, _SELECTOR_ACTION_KIND
          <6>3. CASE View.base = "plain"
            BY <4>1, <5>1, <6>3, MadeIsRouted DEF WellRouted, View
          <6> QED BY <5>1, <6>1, <6>2, <6>3, MadeIsRouted DEF WellRouted, View
        <5> QED BY <4>1, <4>2, <5>1, <5>2, <5>3 DEF FromEntry, Selects, ReadyInv, IsService
      <4> QED BY <4>2
    <3> QED BY <3>1, <3>2
  <2>2. CASE get_object
    BY <2>2 DEF get_object, MissingRow, RowRaises, Goto, Crash, Fail
  <2>3. CASE CheckRow
    BY <2>3 DEF CheckRow, Ask, Goto, Fail
  <2> QED BY <2>1, <2>2, <2>3
<1> QED BY <1>1, <1>2, SameReady DEF ReadyInv, Selected

LEMMA CompileReady == ASSUME IInv, ReadyInv, Compile, Over("http") PROVE ReadyInv'
<1>1. /\ UNCHANGED <<call, spec>> /\ stage = "compile" /\ stage' \in {"lookup", "guard", "failed"}
      /\ target' = IF IsService /\ target = "unset" /\ Target(spec) = None THEN "none" ELSE target
  BY DEF Compile, Goto, Crash, Fail
<1>2. spec # None
  BY <1>1 DEF IInv, LeftToDRF, Checked
<1>3. target' \in Targets /\ Over("http")' /\ IsService' = IsService
  BY <1>1, SameReady DEF ReadyInv, Targets
<1>4. IsService => CheckedService(spec)
  BY <1>1, <1>2, SpecIsChecked
<1>5. ASSUME stage' = "lookup", IsService PROVE Target(spec) # None
  <2>1. (target = "unset" /\ Target(spec) # None) \/ spec.collection_selector_spec # None
    BY <1>5 DEF Compile, Goto, Crash, Fail
  <2> QED BY <1>4, <1>5, <2>1, ServiceTargets
<1>6. ASSUME stage' = "guard" PROVE Ready'
  <2>1. /\ IsService /\ ~(target = "unset" /\ Target(spec) # None)
        /\ spec.collection_selector_spec = None
    BY <1>6 DEF Compile, Goto, Crash, Fail
  <2>2. target' # "unset"
    BY <1>1, <2>1
  <2> QED BY <1>1, <1>3, <2>1, <2>2 DEF Ready
<1> QED BY <1>1, <1>2, <1>3, <1>5, <1>6 DEF ReadyInv, Selected

LEMMA FoundReady == ASSUME IInv, ReadyInv, resolve_target, Over("http") PROVE ReadyInv'
<1>1. UNCHANGED <<call, spec>> /\ stage = "lookup" /\ stage' \in {"guard", "failed"}
  BY DEF resolve_target, Goto, Crash, Raises, Fail
<1>2. /\ target' = target \/ target' \in (IF Sets THEN {"set"} ELSE {"row", "record"})
      /\ stage' = "guard" => target' \in (IF Sets THEN {"set"} ELSE {"row", "record"})
  BY DEF resolve_target, Goto, Crash, Raises, Fail
<1>3. target' \in Targets /\ Over("http")' /\ IsService' = IsService
  BY <1>1, <1>2, SameReady DEF ReadyInv, Targets
<1>4. ASSUME stage' = "guard" PROVE Ready'
  <2>1. spec # None
    BY <1>1 DEF IInv, LeftToDRF, Checked
  <2>2. CASE IsService
    <3>1. CheckedService(spec)
      BY <1>1, <2>1, <2>2, SpecIsChecked
    <3>2. spec.collection_selector_spec # None => Sets
      BY <2>2, <3>1, ServiceTargets DEF Sets, Lookup
    <3> QED BY <1>1, <1>2, <1>3, <1>4, <2>2, <3>2 DEF Ready
  <2>3. CASE ~IsService
    BY <1>1, <1>2, <1>3, <1>4, <2>3 DEF Ready, Sets, Lookup
  <2> QED BY <2>2, <2>3
<1> QED BY <1>1, <1>3, <1>4 DEF ReadyInv, Selected

LEMMA MissReady == ASSUME IInv, ReadyInv, Miss, Over("http") PROVE ReadyInv'
<1>1. UNCHANGED <<call, spec>> /\ target' = "none" /\ stage = "lookup"
  BY DEF Miss
<1>2. stage' \in {"render", "failed", "answered"} /\ (stage' = "render" => ~IsService)
  <2>1. CASE ~IsService /\ spec.allow_none
    BY <2>1 DEF Miss, Goto
  <2>2. CASE Over("http") /\ (IsService \/ ~spec.allow_none)
    BY <2>2 DEF Miss, Fail
  <2>3. CASE ~(~IsService /\ spec.allow_none) /\ ~(Over("http") /\ (IsService \/ ~spec.allow_none))
    BY <2>3 DEF Miss, Goto
  <2> QED BY <2>1, <2>2, <2>3
<1> QED BY <1>1, <1>2, SameReady DEF ReadyInv, Selected, Targets

LEMMA LateReady ==
  ASSUME IInv, ReadyInv, Guard \/ Admit \/ RunPreconditions \/ Run \/ Output \/ ResolveStatus,
         Over("http")
  PROVE  ReadyInv'
<1>0. UNCHANGED <<call, spec, target>> /\ Selected
  BY DEF Guard, Admit, RunPreconditions, Run, Output, ResolveStatus, found, Selected
<1>1. CASE Guard
  <2>1. stage' \in {"input", "preconditions", "failed"}
    BY <1>1 DEF Guard, Ask, Goto, Fail
  <2> QED BY <1>0, <2>1, KeepsReady
<1>2. CASE Admit
  <2>1. stage' \in {"preconditions", "failed"}
    BY <1>2 DEF Admit, Goto, Refuses, Fail
  <2> QED BY <1>0, <2>1, KeepsReady
<1>3. CASE RunPreconditions
  <2>1. stage' \in {"service", "failed"} \/ (stage' = "render" /\ ~IsService)
    BY <1>3 DEF RunPreconditions, Goto, Crash, Raises, Fail
  <2> QED BY <1>0, <2>1, SameReady DEF ReadyInv, Selected
<1>4. CASE Run
  <2>1. stage' = "failed" \/ (stage' = "output" /\ value' \in {None, "returned"})
    BY <1>4 DEF Run, Goto, Crash, Raises, Fail
  <2> QED BY <1>0, <2>1, SameReady DEF ReadyInv, Selected
<1>5. CASE Output
  <2>1. stage = "output"
    BY <1>5 DEF Output
  <2>2. \/ stage' = "failed"
        \/ stage' = "status" /\ ~Rereads(spec) /\ value' = value
        \/ stage' = "status" /\ Rereads(spec) /\ value' \in {None, "selected"}
    BY <1>5 DEF Output, Goto, Crash, Raises, Fail
  <2> QED BY <1>0, <2>1, <2>2, SameReady DEF ReadyInv, Selected
<1>6. CASE ResolveStatus
  <2>1. stage = "status" /\ stage' \in {"render", "failed"} /\ value' = value
    BY <1>6 DEF ResolveStatus, Goto, Crash, Fail, served
  <2> QED BY <1>0, <2>1, SameReady DEF ReadyInv, Selected
<1> QED BY <1>1, <1>2, <1>3, <1>4, <1>5, <1>6

(* A call is what it is throughout. *)
LEMMA KeepsCall == ASSUME [Next]_vars PROVE UNCHANGED call
<1>1. CASE Mount \/ Options \/ Discriminate \/ CheckPermissions \/ Unserved \/ ResolveVariant
  BY <1>1 DEF Mount, Options, Discriminate, CheckPermissions, Unserved, ResolveVariant
<1>2. CASE ServeSpec \/ DRFRead \/ get_object \/ CheckRow \/ Compile \/ resolve_target
  BY <1>2 DEF ServeSpec, DRFRead, get_object, CheckRow, Compile, resolve_target
<1>3. CASE Miss \/ Guard \/ Admit \/ RunPreconditions \/ Run \/ Output \/ ResolveStatus
  BY <1>3 DEF Miss, Guard, Admit, RunPreconditions, Run, Output, ResolveStatus
<1>4. CASE RenderMutation \/ RenderRead \/ DRFRender \/ Finalize \/ AnswerFailure
  BY <1>4 DEF RenderMutation, RenderRead, DRFRender, Finalize, AnswerFailure
<1>5. CASE Done \/ UNCHANGED vars
  BY <1>5 DEF Done, vars
<1> QED BY <1>1, <1>2, <1>3, <1>4, <1>5 DEF Next

LEMMA EndReady ==
  ASSUME ReadyInv, Presents \/ AnswerFailure PROVE ReadyInv'
<1>1. CASE Presents
  BY <1>1, EarlyReady DEF Presents, found, ReadyInv, Selected, Over
<1>2. CASE AnswerFailure
  BY <1>2, EarlyReady DEF AnswerFailure, found, ReadyInv, Selected, Over
<1> QED BY <1>1, <1>2

LEMMA InitReady == Init => ReadyInv
  BY DEF Init, ReadyInv, Selected, Targets

LEMMA NextReady == IInv /\ ReadyInv /\ [Next]_vars => ReadyInv'
<1> SUFFICES ASSUME IInv, ReadyInv, [Next]_vars, Over("http") PROVE ReadyInv'
  BY KeepsCall DEF ReadyInv, Over
<1>1. CASE Mount \/ Options \/ Discriminate \/ CheckPermissions \/ Unserved
  BY <1>1, BeforeReady
<1>2. CASE ResolveVariant \/ ServeSpec \/ DRFRead \/ get_object \/ CheckRow
  BY <1>2, VariantReady, ServeReady, RowReady
<1>3. CASE Compile \/ resolve_target \/ Miss
  BY <1>3, CompileReady, FoundReady, MissReady
<1>4. CASE Guard \/ Admit \/ RunPreconditions \/ Run \/ Output \/ ResolveStatus
  BY <1>4, LateReady
<1>5. CASE RenderMutation \/ RenderRead \/ DRFRender \/ Finalize \/ AnswerFailure
  BY <1>5, Presenting, EndReady
<1>6. CASE Done \/ UNCHANGED vars
  <2>1. UNCHANGED <<call, spec, target, stage, value>>
    BY <1>6 DEF Done, vars
  <2> QED BY <2>1, SameReady, SameView DEF ReadyInv, Selected
<1> QED BY <1>1, <1>2, <1>3, <1>4, <1>5, <1>6 DEF Next

-----------------------------------------------------------------------------
(* What a failure says of the declaration.                                 *)

Explains == AcceptedBinds /\ AcceptedCompiles /\ AcceptedAnswers

(* What a declaration the mount accepts may be refused for when called. *)
Unbound(at) ==
    CASE at \in {"service", "precondition", "output"} -> Rowless
      [] at = "status" -> "instance" \in spec.success_status.requires
      [] at = "finalizer" -> spec.response_finalizer.requires \cap {"instance", "data"} # {}
      [] OTHER -> FALSE

Compiled ==
    IF spec = None THEN {RowSpec}
    ELSE IF target = "unset" /\ HasRow /\ IsService /\ RowSpec # None THEN {spec, RowSpec}
    ELSE {spec}

Uncompiled == \E declared \in Compiled : CompiledInVain(declared)

Unanswered(at) ==
    CASE at = "output" -> value = None
      [] at = "render" ->
            IF spec # None /\ IsService THEN spec.many \/ ~Serializer ELSE ~View.serializer_class
      [] at = "get_object" -> ~View.queryset
      [] at = "handler" -> call.action = "custom"
      [] OTHER -> at \in {"compile", "discriminator"}

Faults == {"TypeError", "ImproperlyConfigured", "AssertionError"}

Explained(at, class) ==
    /\ class = "TypeError" => Unbound(at)
    /\ at = "compile" => Uncompiled
    /\ class \in {"ImproperlyConfigured", "AssertionError"} => Unanswered(at)

LEMMA NoneExplains ==
  ASSUME ~Over("http") \/ failure = None PROVE Explains
  BY DEF Explains, AcceptedBinds, AcceptedCompiles, AcceptedAnswers, CrashedWith

LEMMA SameExplained ==
  ASSUME UNCHANGED <<call, spec, target, value>>, NEW at
  PROVE  Unbound(at)' = Unbound(at) /\ Uncompiled' = Uncompiled /\ Unanswered(at)' = Unanswered(at)
<1>1. HasRow' = HasRow /\ View' = View /\ IsService' = IsService /\ RowSpec' = RowSpec
  BY DEF HasRow, View, IsService, RowSpec
<1>2. Serializer' = Serializer /\ Compiled' = Compiled
  BY <1>1 DEF Serializer, Presented, Compiled
<1>3. Unbound(at)' = Unbound(at)
  BY <1>1 DEF Unbound, Rowless
<1>4. Uncompiled' = Uncompiled
  BY <1>2 DEF Uncompiled
<1>5. Unanswered(at)' = Unanswered(at)
  BY <1>1, <1>2 DEF Unanswered
<1> QED BY <1>3, <1>4, <1>5

(* A failure that what is declared explains. *)
LEMMA FailExplains ==
  ASSUME NEW at, NEW raised, NEW as, Fail(at, raised, as), Explained(at, raised.class),
         UNCHANGED <<call, spec, target, value>>
  PROVE  Explains'
<1>1. failure'.at = at /\ failure'.raised = raised
  BY DEF Fail
<1>2. /\ raised.class = "TypeError" => Unbound(at)'
      /\ at = "compile" => Uncompiled'
      /\ raised.class \in {"ImproperlyConfigured", "AssertionError"} => Unanswered(at)'
  BY SameExplained DEF Explained
<1>3. AcceptedBinds'
  BY <1>1, <1>2 DEF AcceptedBinds, CrashedWith, Unbound, Rowless
<1>4. AcceptedCompiles'
  BY <1>1, <1>2 DEF AcceptedCompiles, Uncompiled, Compiled
<1>5. AcceptedAnswers'
  BY <1>1, <1>2 DEF AcceptedAnswers, CrashedWith, Unanswered
<1> QED BY <1>3, <1>4, <1>5 DEF Explains

(* One that says nothing of it. *)
LEMMA OtherExplains ==
  ASSUME NEW at, NEW raised, NEW as, Fail(at, raised, as), raised.class \notin Faults, at # "compile"
  PROVE  Explains'
<1>1. failure'.at = at /\ failure'.raised = raised
  BY DEF Fail
<1> QED BY <1>1 DEF Explains, AcceptedBinds, AcceptedCompiles, AcceptedAnswers, CrashedWith, Faults

LEMMA RaisesExplain ==
  ASSUME Made, NEW at, Raises(at), at # "compile" PROVE Explains'
<1>1. PICK refusal \in call.raises :
          Fail(at, refusal, Leaves(translate_drf_refusals(refusal)))
  BY DEF Raises
<1>2. refusal.class \notin Faults
  BY MadeIsSigned DEF RaisedByAuthors, Misuse, Faults
<1> QED BY <1>1, <1>2, OtherExplains

LEMMA AskExplains ==
  ASSUME Made, Explains, failure = None, NEW level, NEW next, Ask(level, next) PROVE Explains'
<1>1. CASE Goto(next)
  BY <1>1 DEF Goto, Explains, AcceptedBinds, AcceptedCompiles, AcceptedAnswers, CrashedWith
<1>2. CASE ~Goto(next)
  <2>1. PICK refusal \in {Raised("NotAuthenticated"), Raised("PermissionDenied")}
                             \cup {r \in call.raises : APIException(r)} :
            \E as : Fail("permission", refusal, as)
    BY <1>2 DEF Ask
  <2>2. refusal.class \notin Faults
    BY MadeIsSigned DEF RaisedByAuthors, Misuse, Faults, Raised
  <2> QED BY <2>1, <2>2, OtherExplains
<1> QED BY <1>1, <1>2

LEMMA DiscriminatorExplains ==
  ASSUME Made, failure = None, resolve_polymorphic_service_spec,
         UNCHANGED <<call, target, value>>, stage' = "failed" => UNCHANGED spec
  PROVE  Explains'
<1>1. CASE UNCHANGED failure
  BY <1>1 DEF Explains, AcceptedBinds, AcceptedCompiles, AcceptedAnswers, CrashedWith
<1>2. CASE \E refusal \in call.raises : Fail("discriminator", refusal, Mapped(refusal))
  BY <1>2, MadeIsSigned, OtherExplains DEF RaisedByAuthors, Misuse, Faults
<1>3. CASE Crash("discriminator", "ImproperlyConfigured")
  <2>1. Raised("ImproperlyConfigured").class = "ImproperlyConfigured"
    BY DEF Raised
  <2>2. Explained("discriminator", Raised("ImproperlyConfigured").class)
    BY <2>1 DEF Explained, Unanswered
  <2> QED BY <1>3, <2>2, FailExplains DEF Crash, Fail
<1> QED BY <1>1, <1>2, <1>3 DEF resolve_polymorphic_service_spec

LEMMA CrashExplains ==
  ASSUME NEW at, NEW class, Crash(at, class), Explained(at, class),
         UNCHANGED <<call, spec, target, value>>
  PROVE  Explains'
<1>1. Raised(class).class = class
  BY DEF Raised
<1> QED BY <1>1, FailExplains DEF Crash

(* A step that fails nothing. *)
LEMMA StepExplains == ASSUME failure = None, UNCHANGED failure PROVE Explains'
  BY DEF Explains, AcceptedBinds, AcceptedCompiles, AcceptedAnswers, CrashedWith

LEMMA BeforeExplains ==
  ASSUME IInv, Explains, failure = None, Over("http"),
         Mount \/ Options \/ Discriminate \/ CheckPermissions \/ Unserved \/ ResolveVariant
             \/ ServeSpec \/ DRFRead
  PROVE  Explains'
<1>0. Made
  BY DEF IInv
<1>1. CASE Mount \/ ServeSpec
  BY <1>1, StepExplains DEF Mount, ServeSpec, Goto
<1>2. CASE Options
  <2>1. CASE UNCHANGED failure
    BY <2>1, StepExplains
  <2>2. CASE Crash("options", "crash")
    <3>1. Raised("crash").class \notin Faults
      BY DEF Raised, Faults
    <3> QED BY <2>2, <3>1, OtherExplains DEF Crash
  <2> QED BY <1>2, <2>1, <2>2 DEF Options, Goto
<1>3. CASE Discriminate
  BY <1>0, <1>3, DiscriminatorExplains DEF Discriminate, found, served
<1>4. CASE CheckPermissions
  BY <1>0, <1>4, AskExplains DEF CheckPermissions
<1>5. CASE Unserved
  <2>0. UNCHANGED <<call, spec, target, value>>
    BY <1>5 DEF Unserved, found, served
  <2>1. CASE \E as : Fail("handler", Raised("MethodNotAllowed"), as)
    <3>1. Raised("MethodNotAllowed").class \notin Faults
      BY DEF Raised, Faults
    <3> QED BY <2>1, <3>1, OtherExplains
  <2>2. CASE Crash("handler", "NotImplementedError")
    <3>1. Raised("NotImplementedError").class \notin Faults
      BY DEF Raised, Faults
    <3> QED BY <2>2, <3>1, OtherExplains DEF Crash
  <2>3. ASSUME call.action = "custom", NEW class \in {"ImproperlyConfigured", "AssertionError"},
               Crash("handler", class)
        PROVE  Explains'
    <3>1. Explained("handler", class)
      BY <2>3 DEF Explained, Unanswered
    <3> QED BY <2>0, <2>3, <3>1, CrashExplains
  <2> QED BY <1>5, <2>1, <2>2, <2>3 DEF Unserved
<1>6. CASE ResolveVariant
  <2>1. UNCHANGED <<call, target, value>> /\ spec = None
        /\ spec' = IF chosen' = 0 THEN None ELSE Polymorphic.specs[chosen']
    BY <1>6 DEF ResolveVariant, served
  <2>2. CASE Cached = 0
    <3>1. resolve_polymorphic_service_spec /\ chosen = 0 /\ stage = "handler"
      BY <1>6, <2>2 DEF ResolveVariant, Cached
    <3>2. stage' = "failed" => UNCHANGED chosen
      BY <3>1 DEF resolve_polymorphic_service_spec
    <3> QED BY <1>0, <2>1, <3>1, <3>2, DiscriminatorExplains
  <2>3. CASE Cached # 0
    BY <1>6, <2>3, StepExplains DEF ResolveVariant
  <2> QED BY <2>2, <2>3
<1>7. CASE DRFRead
  <2>0. UNCHANGED <<call, spec, target, value>> /\ call.action \in {"list", "retrieve"}
    BY <1>7 DEF DRFRead, found, served
  <2>1. CASE call.action = "retrieve"
    BY <1>7, <2>1, StepExplains DEF DRFRead, Goto
  <2>2. CASE call.action = "list" /\ View.queryset
    BY <1>7, <2>2, StepExplains DEF DRFRead, Goto
  <2>3. CASE call.action # "retrieve" /\ ~(call.action = "list" /\ View.queryset)
    <3>1. Crash("get_object", "AssertionError")
      BY <1>7, <2>3 DEF DRFRead
    <3>2. Explained("get_object", "AssertionError")
      BY <2>0, <2>3 DEF Explained, Unanswered
    <3> QED BY <2>0, <3>1, <3>2, CrashExplains
  <2> QED BY <2>1, <2>2, <2>3
<1> QED BY <1>1, <1>2, <1>3, <1>4, <1>5, <1>6, <1>7

LEMMA RowExplains ==
  ASSUME IInv, ReadyInv, Explains, failure = None, Over("http"), get_object \/ CheckRow
  PROVE  Explains'
<1>0. Made
  BY DEF IInv
<1>1. CASE CheckRow
  BY <1>0, <1>1, AskExplains, StepExplains DEF CheckRow, Goto
<1>2. CASE get_object
  <2>0. UNCHANGED <<call, spec, value>> /\ stage = "get_object" /\ Mountable(View)
    BY <1>2 DEF get_object, served, IInv, Accepted
  <2>1. ASSUME UNCHANGED target, RowSource(View) = "none", Crash("get_object", "AssertionError")
        PROVE  Explains'
    <3>1. ~View.queryset
      BY <2>1 DEF RowSource
    <3>2. Explained("get_object", "AssertionError")
      BY <3>1 DEF Explained, Unanswered
    <3> QED BY <2>0, <2>1, <3>2, CrashExplains
  <2>2. ASSUME UNCHANGED target, RowSpec # None, ~as_kernel_spec(RowSpec),
               Crash("compile", "ImproperlyConfigured")
        PROVE  Explains'
    <3>1. RowSpec.is = "selector" /\ RowSpec.selector # None
      BY <1>0, <2>0, <2>2, RowIsChecked
    <3>2. CompiledInVain(RowSpec)
      BY <2>2, <3>1, ReadCompiles
    <3>3. RowSpec \in Compiled
      BY <2>0, <2>2 DEF ReadyInv, Compiled
    <3>4. Explained("compile", "ImproperlyConfigured")
      BY <3>2, <3>3 DEF Explained, Uncompiled, Unanswered
    <3> QED BY <2>0, <2>2, <3>4, CrashExplains
  <2>3. ASSUME RowRaises PROVE Explains'
    <3>1. PICK refusal \in call.raises : \E as : Fail("get_object", refusal, as)
      BY <2>3 DEF RowRaises
    <3>2. refusal.class \notin Faults
      BY <1>0, MadeIsSigned DEF RaisedByAuthors, Misuse, Faults
    <3> QED BY <3>1, <3>2, OtherExplains
  <2>4. ASSUME MissingRow PROVE Explains'
    <3>1. Raised("NotFound").class \notin Faults
      BY DEF Raised, Faults
    <3> QED BY <2>4, <3>1, OtherExplains, StepExplains DEF MissingRow, Goto
  <2>5. RowSpec # None => RowBinds
    BY <1>0, <2>0, RowBound
  <2> QED BY <1>2, <2>1, <2>2, <2>3, <2>4, <2>5, StepExplains DEF get_object, Goto
<1> QED BY <1>1, <1>2

LEMMA LookupExplains ==
  ASSUME IInv, ReadyInv, Explains, failure = None, Over("http"), Compile \/ resolve_target \/ Miss
  PROVE  Explains'
<1>0. Made /\ spec # None /\ stage \in {"compile", "lookup"}
  BY DEF IInv, LeftToDRF, Checked, Compile, resolve_target, Miss
<1>1. /\ IsService => CheckedService(spec)
      /\ ~IsService => spec.is = "selector" /\ spec.selector # None /\ CheckedRead(spec)
  BY <1>0, SpecIsChecked DEF ReadyInv
<1>2. CASE Compile
  <2>1. CASE as_kernel_spec(spec) /\ (IsService => parameters(spec))
    BY <1>2, <2>1, StepExplains DEF Compile, Goto
  <2>2. CASE ~as_kernel_spec(spec) \/ (IsService /\ ~parameters(spec))
    <3>1. UNCHANGED <<call, spec>> /\ Crash("compile", "ImproperlyConfigured")
      BY <1>2, <2>2 DEF Compile
    <3>2. failure'.at = "compile" /\ failure'.raised.class = "ImproperlyConfigured"
      BY <3>1 DEF Crash, Fail, Raised
    <3>3. CompiledInVain(spec)
      BY <1>1, <2>2, ReadCompiles, ServiceCompiles
    <3>4. AcceptedCompiles'
      BY <1>0, <3>1, <3>3 DEF AcceptedCompiles
    <3>5. AcceptedBinds' /\ AcceptedAnswers'
      BY <3>2 DEF AcceptedBinds, AcceptedAnswers, CrashedWith
    <3> QED BY <3>4, <3>5 DEF Explains
  <2> QED BY <2>1, <2>2
<1>3. CASE resolve_target
  <2>1. LookupBinds
    <3>1. CASE IsService
      <4>1. Target(spec) # None
        BY <1>3, <3>1 DEF ReadyInv, resolve_target
      <4> QED BY <1>1, <3>1, <4>1, LookupOfServiceBinds
    <3>2. CASE ~IsService
      BY <1>1, <3>2, LookupOfReadBinds
    <3> QED BY <3>1, <3>2
  <2>2. CASE Raises("lookup")
    BY <1>0, <2>2, RaisesExplain
  <2>3. CASE Goto("guard")
    BY <2>3, StepExplains DEF Goto
  <2> QED BY <1>3, <2>1, <2>2, <2>3 DEF resolve_target
<1>4. CASE Miss
  <2>1. CASE Over("http") /\ (IsService \/ ~spec.allow_none)
    <3>1. Fail("lookup", Raised("NotFound"), Raised("NotFound"))
      BY <1>4, <2>1 DEF Miss
    <3>2. Raised("NotFound").class \notin Faults
      BY DEF Raised, Faults
    <3> QED BY <3>1, <3>2, OtherExplains
  <2>2. CASE ~IsService /\ spec.allow_none
    BY <1>4, <2>2, StepExplains DEF Miss, Goto
  <2> QED BY <2>1, <2>2
<1> QED BY <1>2, <1>3, <1>4

LEMMA ServiceExplains ==
  ASSUME IInv, ReadyInv, RowInv, Explains, failure = None, Over("http"),
         Guard \/ Admit \/ RunPreconditions \/ Run \/ Output \/ ResolveStatus
  PROVE  Explains'
<1>0. Made /\ spec # None /\ Selected /\ Ready /\ target \in Targets
      /\ UNCHANGED <<call, spec, target>>
  BY DEF IInv, LeftToDRF, Checked, Admitted, Selected, ReadyInv, found,
         Guard, Admit, RunPreconditions, Run, Output, ResolveStatus
<1>1. /\ IsService => CheckedService(spec)
      /\ ~IsService => spec.is = "selector" /\ CheckedRead(spec)
  BY <1>0, SpecIsChecked DEF ReadyInv, Selected
<1>2. CASE Guard
  BY <1>0, <1>2, AskExplains, StepExplains DEF Guard, Goto
<1>3. CASE Admit
  <2>1. CASE UNCHANGED failure
    BY <2>1, StepExplains
  <2>2. ASSUME NEW at \in {"input", "affordance"},
               NEW class \in {"KernelInvalidArguments", "ActionUnavailable"}, Refuses(at, class)
        PROVE  Explains'
    <3>1. Raised(class).class \notin Faults
      BY DEF Raised, Faults
    <3> QED BY <2>2, <3>1, OtherExplains DEF Refuses
  <2> QED BY <1>3, <2>1, <2>2 DEF Admit, Goto
<1>4. CASE RunPreconditions
  <2>1. CASE \E fn \in Preconditions(spec) : ~Binds(fn, CallPool)
    <3>1. IsService /\ Rowless
      BY <1>0, <1>1, <2>1, ServiceBinds, ReadBinds
    <3>2. Explained("precondition", "TypeError")
      BY <3>1 DEF Explained, Unbound
    <3>3. Crash("precondition", "TypeError") /\ UNCHANGED <<call, spec, target, value>>
      BY <1>0, <1>4, <2>1 DEF RunPreconditions, served
    <3> QED BY <3>2, <3>3, CrashExplains
  <2>2. CASE ~(\E fn \in Preconditions(spec) : ~Binds(fn, CallPool))
    BY <1>0, <1>4, <2>2, RaisesExplain, StepExplains DEF RunPreconditions, Goto
  <2> QED BY <2>1, <2>2
<1>5. CASE Run
  <2>1. CASE ~Binds(spec.service, CallPool)
    <3>1. IsService
      BY <1>5 DEF RowInv, Run
    <3>2. Rowless
      BY <1>0, <1>1, <2>1, <3>1, ServiceBinds
    <3>3. Explained("service", "TypeError")
      BY <3>2 DEF Explained, Unbound
    <3>4. Crash("service", "TypeError") /\ UNCHANGED <<call, spec, target, value>>
      BY <1>0, <1>5, <2>1 DEF Run
    <3> QED BY <3>3, <3>4, CrashExplains
  <2>2. CASE Binds(spec.service, CallPool)
    BY <1>0, <1>5, <2>2, RaisesExplain, StepExplains DEF Run, Goto
  <2> QED BY <2>1, <2>2
<1>6. CASE Output
  <2>0. IsService
    BY <1>6 DEF RowInv, Output
  <2>1. CASE ~Rereads(spec) /\ _returns_many(spec) /\ value = None
    <3>1. Explained("output", "ImproperlyConfigured")
      BY <2>1 DEF Explained, Unanswered
    <3>2. Crash("output", "ImproperlyConfigured") /\ UNCHANGED <<call, spec, target, value>>
      BY <1>0, <1>6, <2>1 DEF Output
    <3> QED BY <3>1, <3>2, CrashExplains
  <2>2. CASE ~Rereads(spec) /\ ~(_returns_many(spec) /\ value = None)
    BY <1>6, <2>2, StepExplains DEF Output, Goto
  <2>3. CASE Rereads(spec) /\ ~Binds(spec.output_selector_spec.selector, OutputPool)
    <3>1. Rowless
      BY <1>0, <1>1, <2>0, <2>3, ServiceBinds
    <3>2. Explained("output", "TypeError")
      BY <3>1 DEF Explained, Unbound
    <3>3. Crash("output", "TypeError") /\ UNCHANGED <<call, spec, target, value>>
      BY <1>0, <1>6, <2>3 DEF Output
    <3> QED BY <3>2, <3>3, CrashExplains
  <2>4. CASE Rereads(spec) /\ Binds(spec.output_selector_spec.selector, OutputPool)
    BY <1>0, <1>6, <2>4, RaisesExplain, StepExplains DEF Output, Goto
  <2> QED BY <2>1, <2>2, <2>3, <2>4
<1>7. CASE ResolveStatus
  <2>1. CASE spec.success_status # None /\ ~Binds(spec.success_status, StatusPool)
    <3>1. PICK has, permissive : validate_service_spec(spec, has, permissive)
      BY <1>1, <1>7 DEF RowInv, ResolveStatus, CheckedService, Checks
    <3>2. "instance" \in spec.success_status.requires
      <4>1. ~(spec.success_status.requires \subseteq StatusPool) /\ ~spec.success_status.spreads
        BY <2>1 DEF Binds
      <4>2. spec.success_status.requires \subseteq {"result", "instance", "request", "view"}
        BY <2>1, <3>1, <4>1 DEF validate_service_spec, _validate_success_status
      <4> QED BY <4>1, <4>2 DEF StatusPool
    <3>3. Explained("status", "TypeError")
      BY <3>2 DEF Explained, Unbound
    <3>4. Crash("status", "TypeError") /\ UNCHANGED <<call, spec, target, value>>
      BY <1>0, <1>7, <2>1 DEF ResolveStatus, served
    <3> QED BY <3>3, <3>4, CrashExplains
  <2>2. CASE ~(spec.success_status # None /\ ~Binds(spec.success_status, StatusPool))
    BY <1>7, <2>2, StepExplains DEF ResolveStatus, Goto
  <2> QED BY <2>1, <2>2
<1> QED BY <1>2, <1>3, <1>4, <1>5, <1>6, <1>7

LEMMA AddsExplain ==
  ASSUME failure = None, UNCHANGED <<call, spec, target, value>>, NEW status, NEW serialized,
         add_affordances(status, serialized),
         rendered_affordances # None /\ ~_with_answers(serialized) => Unanswered("render")
  PROVE  Explains'
<1>1. CASE rendered_affordances = None
  BY <1>1, StepExplains DEF add_affordances, Answered, Goto
<1>2. CASE rendered_affordances # None /\ _with_answers(serialized)
  BY <1>2, StepExplains DEF add_affordances, Answered, Goto
<1>3. CASE rendered_affordances # None /\ ~_with_answers(serialized)
  <2>1. Explained("render", "ImproperlyConfigured")
    BY <1>3 DEF Explained
  <2> QED BY <1>3, <2>1, CrashExplains DEF add_affordances
<1> QED BY <1>1, <1>2, <1>3

LEMMA AnsweredExplains ==
  ASSUME failure = None, NEW status, NEW body, Answered(status, body) PROVE Explains'
  BY StepExplains DEF Answered, Goto

LEMMA RenderMutationExplains ==
  ASSUME IInv, ReadyInv, failure = None, Over("http"), RenderMutation PROVE Explains'
<1>0. UNCHANGED <<call, spec, target, value>> /\ stage = "render" /\ spec # None /\ IsService
  BY DEF RenderMutation, found
<1>1. PICK has, permissive : validate_service_spec(spec, has, permissive)
  BY <1>0, SpecIsChecked DEF CheckedService, Checks
<1>2. ASSUME rendered_affordances # None, Serializer, ~spec.many PROVE Rereads(spec)
  <2>1. spec.output_selector_spec # None /\ spec.output_selector_spec.affordances # None
    BY <1>0, <1>2 DEF rendered_affordances, Presented, Serializer
  <2>2. spec.output_selector_spec.selector # None
    BY <1>1, <2>1 DEF validate_service_spec, _validate_output_selector_spec, SelectorTakes,
                      _validate_selector_shaping, _has_any_shaping
  <2> QED BY <1>2, <2>1, <2>2 DEF Rereads
<1>3. ASSUME rendered_affordances # None, ~_with_answers(Serializer), value # None
      PROVE  Unanswered("render")
  <2>1. ASSUME Serializer, ~spec.many PROVE FALSE
    <3>1. value = "selected"
      BY <1>0, <1>2, <1>3, <2>1 DEF ReadyInv
    <3> QED BY <1>3, <2>1, <3>1 DEF _with_answers, _flag
  <2> QED BY <1>0, <2>1 DEF Unanswered
<1>4. CASE Bulk
  <2>1. _dispatch_bulk_via_spec
    BY <1>4 DEF RenderMutation
  <2> QED BY <1>0, <1>3, <2>1, AnsweredExplains, AddsExplain
          DEF _dispatch_bulk_via_spec, render_spec_output
<1>5. CASE ~Bulk
  <2>1. render_mutation_response
    BY <1>5 DEF RenderMutation
  <2>2. CASE value = None /\ ~RendersRow
    BY <2>1, <2>2, AnsweredExplains DEF render_mutation_response
  <2>3. CASE value # None /\ ~Serializer
    BY <2>1, <2>3, AnsweredExplains DEF render_mutation_response
  <2>4. CASE ~(value = None /\ ~RendersRow) /\ ~(value # None /\ ~Serializer)
    <3>1. add_affordances(status_for_a_body(resolve_success_status), Serializer)
      BY <2>1, <2>4 DEF render_mutation_response, render_spec_output
    <3>2. ASSUME rendered_affordances # None, ~_with_answers(Serializer) PROVE Unanswered("render")
      <4>1. CASE value # None
        BY <1>3, <3>2, <4>1
      <4>2. CASE value = None
        <5>1. Serializer /\ ~Rereads(spec)
          BY <2>4, <4>2 DEF RendersRow
        <5> QED BY <1>0, <1>2, <3>2, <5>1 DEF Unanswered
      <4> QED BY <4>1, <4>2
    <3> QED BY <1>0, <3>1, <3>2, AddsExplain
  <2> QED BY <2>2, <2>3, <2>4
<1> QED BY <1>4, <1>5

LEMMA RenderReadExplains ==
  ASSUME failure = None, Over("http"), RenderRead \/ DRFRender PROVE Explains'
<1>0. UNCHANGED <<call, spec, target, value>>
  BY DEF RenderRead, DRFRender, found
<1>1. ASSUME Crash("render", "AssertionError"), ~View.serializer_class, ~(spec # None /\ IsService)
      PROVE  Explains'
  <2>1. Explained("render", "AssertionError")
    BY <1>1 DEF Explained, Unanswered
  <2> QED BY <1>0, <1>1, <2>1, CrashExplains
<1>2. CASE RenderRead
  <2>0. spec # None /\ ~IsService
    BY <1>2 DEF RenderRead
  <2>1. CASE target = "none"
    BY <1>2, <2>1, AnsweredExplains DEF RenderRead, _JsonNullResponse
  <2>2. CASE target # "none"
    <3>1. list_with_affordances
      BY <1>2, <2>2 DEF RenderRead
    <3>2. CASE Serializer \/ View.serializer_class
      <4>1. _with_answers(TRUE)
        BY <2>0 DEF _with_answers, _flag
      <4>2. add_affordances(200, TRUE)
        BY <3>1, <3>2 DEF list_with_affordances
      <4> QED BY <1>0, <4>1, <4>2, AddsExplain
    <3>3. CASE ~(Serializer \/ View.serializer_class)
      BY <1>1, <2>0, <3>1, <3>3 DEF list_with_affordances
    <3> QED BY <3>2, <3>3
  <2> QED BY <2>1, <2>2
<1>3. CASE DRFRender
  BY <1>1, <1>3, AnsweredExplains DEF DRFRender
<1> QED BY <1>2, <1>3

LEMMA FinalizeExplains ==
  ASSUME IInv, ReadyInv, failure = None, Over("http"), Finalize PROVE Explains'
<1>0. UNCHANGED <<call, spec, target, value>> /\ stage = "finalize"
  BY DEF Finalize, found, served
<1>1. CASE spec # None /\ IsService /\ spec.response_finalizer # None
               /\ ~Binds(spec.response_finalizer, FinalizerPool)
  <2>1. PICK has, permissive : validate_service_spec(spec, has, permissive)
    BY <1>0, <1>1, SpecIsChecked DEF CheckedService, Checks
  <2>2. spec.response_finalizer.requires \cap {"instance", "data"} # {}
    <3>1. ~spec.response_finalizer.spreads
          /\ ~(spec.response_finalizer.requires \subseteq FinalizerPool)
      BY <1>1 DEF Binds
    <3>2. spec.response_finalizer.requires
              \subseteq {"response", "result", "request", "view", "instance", "data"}
      BY <1>1, <2>1, <3>1 DEF validate_service_spec, _validate_response_finalizer
    <3> QED BY <3>1, <3>2 DEF FinalizerPool, StatusPool
  <2>3. Explained("finalizer", "TypeError")
    BY <2>2 DEF Explained, Unbound
  <2>4. Crash("finalizer", "TypeError")
    BY <1>1 DEF Finalize
  <2> QED BY <1>0, <2>3, <2>4, CrashExplains
<1>2. CASE ~(spec # None /\ IsService /\ spec.response_finalizer # None
                 /\ ~Binds(spec.response_finalizer, FinalizerPool))
  BY <1>2, StepExplains DEF Finalize, Goto
<1> QED BY <1>1, <1>2

LEMMA KeepsExplained ==
  ASSUME Explains, UNCHANGED <<call, spec, target, value, failure>> PROVE Explains'
<1>1. HasRow' = HasRow /\ View' = View /\ IsService' = IsService /\ RowSpec' = RowSpec
  BY DEF HasRow, View, IsService, RowSpec
<1>2. Serializer' = Serializer /\ Over("http")' = Over("http")
  BY <1>1 DEF Serializer, Presented, Over
<1>3. AcceptedBinds'
  BY <1>1, <1>2 DEF Explains, AcceptedBinds, CrashedWith
<1>4. AcceptedCompiles'
  BY <1>1, <1>2 DEF Explains, AcceptedCompiles
<1>5. AcceptedAnswers'
  BY <1>1, <1>2 DEF Explains, AcceptedAnswers, CrashedWith
<1> QED BY <1>3, <1>4, <1>5 DEF Explains

LEMMA NextExplains == IInv /\ RowInv /\ ReadyInv /\ HandledInv /\ Explains /\ [Next]_vars => Explains'
<1> SUFFICES ASSUME IInv, RowInv, ReadyInv, HandledInv, Explains, [Next]_vars PROVE Explains'
  OBVIOUS
<1>1. CASE ~Over("http")
  BY <1>1, KeepsCall DEF Over, Explains, AcceptedBinds, AcceptedCompiles, AcceptedAnswers
<1>2. CASE AnswerFailure \/ Done \/ UNCHANGED vars
  <2>1. UNCHANGED <<call, spec, target, value, failure>>
    BY <1>2 DEF AnswerFailure, Done, vars, found
  <2> QED BY <2>1, KeepsExplained
<1>3. CASE stage \in {"failed", "answered"} /\ ~(AnswerFailure \/ Done \/ UNCHANGED vars)
  <2>1. ~(Mount \/ Options \/ Discriminate \/ CheckPermissions \/ Unserved \/ ResolveVariant
              \/ ServeSpec \/ DRFRead)
    BY <1>3 DEF Mount, Options, Discriminate, CheckPermissions, Unserved, ResolveVariant,
                ServeSpec, DRFRead
  <2>2. ~(get_object \/ CheckRow \/ Compile \/ resolve_target \/ Miss \/ Guard \/ Admit
              \/ RunPreconditions \/ Run \/ Output \/ ResolveStatus)
    BY <1>3 DEF get_object, CheckRow, Compile, resolve_target, Miss, Guard, Admit,
                RunPreconditions, Run, Output, ResolveStatus
  <2>3. ~(RenderMutation \/ RenderRead \/ DRFRender \/ Finalize)
    BY <1>3 DEF RenderMutation, RenderRead, DRFRender, Finalize
  <2> QED BY <1>3, <2>1, <2>2, <2>3 DEF Next
<1>4. CASE Over("http") /\ stage \notin {"failed", "answered"}
               /\ ~(AnswerFailure \/ Done \/ UNCHANGED vars)
  <2>1. failure = None
    BY <1>4 DEF HandledInv
  <2>2. CASE Mount \/ Options \/ Discriminate \/ CheckPermissions \/ Unserved \/ ResolveVariant
                 \/ ServeSpec \/ DRFRead
    BY <1>4, <2>1, <2>2, BeforeExplains
  <2>3. CASE get_object \/ CheckRow \/ Compile \/ resolve_target \/ Miss
    BY <1>4, <2>1, <2>3, RowExplains, LookupExplains
  <2>4. CASE Guard \/ Admit \/ RunPreconditions \/ Run \/ Output \/ ResolveStatus
    BY <1>4, <2>1, <2>4, ServiceExplains
  <2>5. CASE RenderMutation \/ RenderRead \/ DRFRender \/ Finalize
    BY <1>4, <2>1, <2>5, RenderMutationExplains, RenderReadExplains, FinalizeExplains
  <2> QED BY <1>4, <2>2, <2>3, <2>4, <2>5 DEF Next
<1> QED BY <1>1, <1>2, <1>3, <1>4

LEMMA AlwaysExplains == Spec => []Explains
<1>1. Init => RowInv /\ ReadyInv /\ HandledInv /\ Explains
  <2>1. Init => Explains
    BY DEF Init, Explains, AcceptedBinds, AcceptedCompiles, AcceptedAnswers, CrashedWith
  <2>2. Init => HandledInv
    BY DEF Init, HandledInv
  <2> QED BY <2>1, <2>2, InitRow, InitReady
<1>2. IInv /\ RowInv /\ ReadyInv /\ HandledInv /\ Explains /\ [Next]_vars
          => (RowInv /\ ReadyInv /\ HandledInv /\ Explains)'
  BY NextRow, NextReady, NextHandled, NextExplains
<1> QED BY <1>1, <1>2, Always, PTL DEF Spec

(* What as_view accepted binds, but for the three declarations             *)
(* AcceptedBinds excepts, whatever the callables, the hooks and the mount. *)
THEOREM BindingHolds == Spec => []AcceptedBinds
<1>1. Explains => AcceptedBinds
  BY DEF Explains
<1> QED BY <1>1, AlwaysExplains, PTL

(* Whatever is declared, what as_view accepted compiles, unless only the   *)
(* compile, or the request it is compiled for, could tell it would not, as *)
(* CompiledInVain lists.                                                   *)
THEOREM CompilingHolds == Spec => []AcceptedCompiles
<1>1. Explains => AcceptedCompiles
  BY DEF Explains
<1> QED BY <1>1, AlwaysExplains, PTL

(* What as_view accepted answers, but for what AcceptedAnswers leaves to a *)
(* call.                                                                   *)
THEOREM AnsweringHolds == Spec => []AcceptedAnswers
<1>1. Explains => AcceptedAnswers
  BY DEF Explains
<1> QED BY <1>1, AlwaysExplains, PTL

-----------------------------------------------------------------------------
(* The state of a call has its type.                                       *)

(* Whatever the entry, its mount validated the classes it declares.        *)
LEMMA EntryClasses ==
  ASSUME WellRouted(call), Over("http"), Mountable(View), Entry # None
  PROVE  /\ Entry.is # "polymorphic" => _validate_permission_classes(Entry)
         /\ Entry.is = "polymorphic" =>
               \A variant \in Elements(Entry.specs) : _validate_permission_classes(variant)
<1> USE DEF validate_service_spec, validate_selector_spec
<1>1. CASE Entry.is \in {"service", "selector", "polymorphic"}
  BY <1>1, EntryIsChecked DEF Checks
<1>2. CASE Entry.is \notin {"service", "selector", "polymorphic"}
  <2>1. View.base # "standalone"
    BY <1>2 DEF Entry, WellRouted, View, Over
  <2>2. CASE View.base = "viewset" /\ call.action # "custom"
    <3>1. PICK key \in DOMAIN View.action_specs :
              /\ Entry = View.action_specs[key]
              /\ key = call.action \/ (key = "update" /\ call.action = "partial_update")
      <4>1. Entry = resolve_action_spec_entry(View, call.action)
        BY <2>2 DEF Entry
      <4>2. PICK key :
                /\ Entry = Get(View.action_specs, key)
                /\ key = call.action \/ (key = "update" /\ call.action = "partial_update")
        BY <4>1 DEF resolve_action_spec_entry, _ACTION_SPEC_FALLBACKS
      <4> QED BY <4>2 DEF Get
    <3>2. _validate_action_spec(View, key, Entry)
      BY <2>2, <3>1 DEF Mountable, as_view
    <3>3. key \in Mutations \cup {"list", "retrieve"}
      BY <2>2, <3>1 DEF WellRouted, Actions, Mutations
    <3> QED BY <1>2, <3>2, <3>3
        DEF _validate_action_spec, Mutations, _SELECTOR_ACTION_KIND,
            _validate_mutation_action_spec, _validate_selector_action_spec
  <2>3. CASE ~(View.base = "viewset" /\ call.action # "custom")
    <3>1. Entry = View.stamped
      BY <2>1, <2>3 DEF Entry
    <3>2. validate_service_spec(Entry, View.detail, TRUE)
      BY <1>2, <3>1 DEF Mountable, as_view, Decorated, service_action
    <3> QED BY <1>2, <3>2
  <2> QED BY <2>2, <2>3
<1> QED BY <1>1, <1>2

(* Which are permission classes, as are the view's.                        *)
LEMMA InheritsClasses ==
  ASSUME Made, NEW declared, _validate_permission_classes(declared)
  PROVE  Inherit(View, declared.permission_classes) \subseteq Classes
<1>1. Elements(View.permission_classes) \subseteq Classes
  BY CallsAssumption DEF Made, WellClassed, View
<1>2. CASE declared.permission_classes = None
  BY <1>1, <1>2 DEF Inherit
<1>3. CASE declared.permission_classes # None
  <2>1. Each(declared.permission_classes) = Elements(declared.permission_classes)
    BY <1>3 DEF Each, IsSet, _validate_permission_classes
  <2> QED BY <1>3, <2>1 DEF Inherit, _validate_permission_classes
<1> QED BY <1>2, <1>3

LEMMA AsksClasses ==
  ASSUME IInv, SoundInv, SeesInv, stage \notin {"declared", "refused"},
         Over("http") /\ Discriminates(View, call.action) => chosen # 0
  PROVE  OwnClasses \subseteq Classes
<1>0. Made /\ WellRouted(call) /\ WellClassed(call)
  BY CallsAssumption DEF IInv, Made
<1>v. Elements(View.permission_classes) \subseteq Classes
  BY <1>0 DEF WellClassed, View
<1>1. CASE Over("http")
  <2>0. OwnClasses = ViewClasses /\ Mountable(View)
    BY <1>1 DEF OwnClasses, Over, IInv, Accepted
  <2> DEFINE spec0 == CASE View.base = "standalone" -> View.spec
                        [] View.base = "viewset" -> resolve_action_spec(View, call.action)
                        [] OTHER -> View.stamped
  <2>1. spec0 = Entry
    BY <1>0, GuardIsTheEntrys DEF Entry, WellRouted, View
  <2>2. ViewClasses =
            CASE Entry = None -> Elements(View.permission_classes)
              [] Entry # None /\ Entry.is = "polymorphic" ->
                    IF View.base = "viewset" THEN _polymorphic_permissions(View, Entry, Variant)
                    ELSE Elements(View.permission_classes)
              [] OTHER -> Inherit(View, Entry.permission_classes)
    BY <2>1 DEF ViewClasses, get_permissions
  <2> HIDE DEF spec0
  <2>3. CASE Entry = None
    BY <1>v, <2>0, <2>2, <2>3
  <2>4. CASE Entry # None /\ Entry.is # "polymorphic"
    <3>1. ViewClasses = Inherit(View, Entry.permission_classes)
      BY <2>2, <2>4
    <3> QED BY <1>0, <1>1, <2>0, <2>4, <3>1, EntryClasses, InheritsClasses
  <2>5. CASE Entry # None /\ Entry.is = "polymorphic" /\ View.base # "viewset"
    BY <1>v, <2>0, <2>2, <2>5
  <2>6. CASE Entry # None /\ Entry.is = "polymorphic" /\ View.base = "viewset"
    <3>1. ViewClasses = _polymorphic_permissions(View, Entry, Variant)
      BY <2>2, <2>6
    <3>2. \A variant \in Elements(Entry.specs) :
              Inherit(View, variant.permission_classes) \subseteq Classes
      BY <1>0, <1>1, <2>0, <2>6, EntryClasses, InheritsClasses
    <3>3. CASE Entry.permission_strategy = "discriminate"
      <4>1. Entry = resolve_action_spec(View, call.action)
        BY <1>0, <2>6, GuardIsTheEntrys
      <4>2. chosen # 0
        BY <1>1, <2>6, <3>3, <4>1 DEF Discriminates
      <4>3. Variant \in Elements(Entry.specs)
        BY <4>1, <4>2, <2>6 DEF Variant, IInv, Chosen, Polymorphic, Elements
      <4> QED BY <2>0, <3>1, <3>2, <3>3, <4>3 DEF _polymorphic_permissions
    <3>4. CASE Entry.permission_strategy # "discriminate"
      BY <2>0, <3>1, <3>2, <3>4 DEF _polymorphic_permissions
    <3> QED BY <3>3, <3>4
  <2> QED BY <2>3, <2>4, <2>5, <2>6
<1>2. CASE ~Over("http")
  <2>1. spec = View.spec /\ _validate_permission_classes(spec)
    BY <1>0, <1>2 DEF SoundInv, WellClassed, View, Over
  <2>2. CASE Over("edge")
    BY <2>1, <2>2 DEF OwnClasses, Over, _validate_permission_classes
  <2>3. CASE ~Over("edge") /\ Over("kernel")
    <3>1. _permissions(spec) # None
      BY <2>3 DEF SeesInv, Listed, Registered
    <3>2. spec.permission_classes # None
      BY <3>1 DEF _permissions
    <3>3. OwnClasses = Elements(spec.permission_classes)
      BY <1>2, <2>3, <3>2 DEF OwnClasses, _permissions
    <3> QED BY <2>1, <3>2, <3>3 DEF _validate_permission_classes, Each, IsSet
  <2> QED BY <1>0, <1>2, <2>2, <2>3 DEF WellRouted, Over
<1> QED BY <1>1, <1>2

(* The spec that runs is a service's or a selector's. *)
KindInv == spec # None => spec.is \in {"service", "selector"}

LEMMA NextKind == IInv /\ KindInv /\ [Next]_vars => KindInv'
<1> SUFFICES ASSUME IInv, KindInv, [Next]_vars PROVE KindInv'
  OBVIOUS
<1>1. ASSUME UNCHANGED spec PROVE KindInv'
  BY <1>1 DEF KindInv
<1>2. CASE Mount
  BY <1>1, <1>2, MadeIsRouted DEF Mount, IInv, KindInv, WellRouted, Over, View
<1>3. CASE ResolveVariant
  <2>1. /\ Over("http") /\ Mountable(View) /\ WellRouted(call) /\ chosen = Cached
        /\ Entry # None /\ Entry.is = "polymorphic"
        /\ chosen \in DOMAIN Polymorphic.specs \/ chosen = 0
        /\ spec' = IF chosen' = 0 THEN None ELSE Polymorphic.specs[chosen']
    <3>1. Over("http") /\ Mountable(View)
      BY <1>3 DEF ResolveVariant, IInv, Staged, Accepted
    <3>2. Polymorphic' = Polymorphic
      BY <1>3 DEF ResolveVariant, Polymorphic, View
    <3> QED BY <1>3, <3>1, <3>2, MadeIsRouted DEF ResolveVariant, IInv, Chosen, Cached
  <2>2. Entry # None /\ Entry.is = "polymorphic" /\ Polymorphic = Entry
    BY <1>3, <2>1, VariantsAreTheEntrys DEF ResolveVariant
  <2>3. chosen' = 0 \/ chosen' \in DOMAIN Polymorphic.specs
    <3>1. CASE Cached = 0
      BY <1>3, <2>1, <3>1 DEF ResolveVariant, resolve_polymorphic_service_spec
    <3>2. CASE Cached # 0
      BY <1>3, <2>1, <3>2 DEF ResolveVariant
    <3> QED BY <3>1, <3>2
  <2>4. CASE chosen' = 0
    BY <2>1, <2>4 DEF KindInv
  <2>5. CASE chosen' # 0
    <3>1. spec' \in Elements(Entry.specs)
      BY <2>1, <2>2, <2>3, <2>5 DEF Elements
    <3>2. spec'.is = "service"
      BY <2>1, <2>2, <3>1, EntryIsChecked
    <3> QED BY <3>2 DEF KindInv
  <2> QED BY <2>4, <2>5
<1>4. CASE ServeSpec
  BY <1>4 DEF ServeSpec, KindInv, Selects
<1>5. CASE Options \/ Discriminate \/ CheckPermissions \/ Unserved \/ DRFRead \/ get_object \/ CheckRow
               \/ Compile \/ resolve_target \/ Miss \/ Guard \/ Admit \/ RunPreconditions \/ Run
               \/ Output \/ ResolveStatus \/ RenderMutation \/ RenderRead \/ DRFRender \/ Finalize
               \/ AnswerFailure \/ Done \/ UNCHANGED vars
  BY <1>1, <1>5 DEF Options, Discriminate, CheckPermissions, Unserved, DRFRead, get_object, CheckRow,
     Compile, resolve_target, Miss, Guard, Admit, RunPreconditions, Run, Output, ResolveStatus,
     RenderMutation, RenderRead, DRFRender, Finalize, AnswerFailure, Done, vars, found
<1> QED BY <1>2, <1>3, <1>4, <1>5 DEF Next

(* Each class asked is one, at a level it is asked at. *)
AskedInv == \A ask \in asked : ask.class \in Classes /\ ask.level \in {"view", "object"}

LEMMA AskIsTyped ==
  ASSUME AskedInv, OwnClasses \subseteq Classes, NEW level \in {"view", "object"}, NEW next,
         Ask(level, next)
  PROVE  AskedInv'
<1>1. asked' = asked \cup {[class |-> class, level |-> level, pair |-> Pair] : class \in OwnClasses}
  BY DEF Ask
<1> QED BY <1>1 DEF AskedInv

LEMMA NextAsked == IInv /\ SoundInv /\ SeesInv /\ AskedInv /\ [Next]_vars => AskedInv'
<1> SUFFICES ASSUME IInv, SoundInv, SeesInv, AskedInv, [Next]_vars PROVE AskedInv'
  OBVIOUS
<1>1. ASSUME UNCHANGED asked PROVE AskedInv'
  BY <1>1 DEF AskedInv
<1>2. CASE CheckPermissions
  <2>1. OwnClasses \subseteq Classes
    BY <1>2, AsksClasses DEF CheckPermissions
  <2> QED BY <1>2, <2>1, AskIsTyped DEF CheckPermissions
<1>3. CASE CheckRow \/ Guard
  <2>1. stage \in {"object", "guard"}
    BY <1>3 DEF CheckRow, Guard
  <2>2. OwnClasses \subseteq Classes
    BY <2>1, AsksClasses DEF IInv, ViewAsked, Checked
  <2> QED BY <1>1, <1>3, <2>2, AskIsTyped DEF CheckRow, Guard
<1>4. CASE Mount \/ Options \/ Discriminate \/ Unserved \/ ResolveVariant \/ ServeSpec \/ DRFRead
               \/ get_object \/ Compile \/ resolve_target \/ Miss \/ Admit \/ RunPreconditions \/ Run
               \/ Output \/ ResolveStatus \/ RenderMutation \/ RenderRead \/ DRFRender \/ Finalize
               \/ AnswerFailure \/ Done \/ UNCHANGED vars
  BY <1>1, <1>4 DEF Mount, Options, Discriminate, Unserved, ResolveVariant, ServeSpec, DRFRead,
     get_object, Compile, resolve_target, Miss, Admit, RunPreconditions, Run, Output, ResolveStatus,
     RenderMutation, RenderRead, DRFRender, Finalize, AnswerFailure, Done, vars
<1> QED BY <1>2, <1>3, <1>4 DEF Next

(* What a call keeps of itself. *)
ShapeInv ==
    /\ stage \in Stages /\ described \in {None, "described", "left out"}
    /\ target \in Targets /\ ran \in {0, 1} /\ value \in {None, "returned", "selected"}

LEMMA OptionsAnswers ==
  ASSUME NEW view, NEW method, NEW action
  PROVE  determine_actions(view, method, action) \subseteq {"described", "left out", "crash"}
<1>1. ProbeAnswers(view, action) \subseteq {"described", "left out", "crash"}
  BY DEF ProbeAnswers, get_queryset_without_one
<1> QED BY <1>1 DEF determine_actions

(* A service runs where none has. *)
LEMMA RunsOnce == ASSUME IInv, ran \in {0, 1}, Run PROVE ran' \in {0, 1}
<1>1. ~(ran > 0)
  BY DEF Run, IInv, Staged, Afterwards
<1>2. ran' = ran \/ ran' = ran + 1
  BY DEF Run
<1>3. ran = 0
  BY <1>1
<1> QED BY <1>2, <1>3

LEMMA EarlyShape ==
  ASSUME IInv, ShapeInv,
         Mount \/ Options \/ Discriminate \/ CheckPermissions \/ Unserved \/ ResolveVariant
             \/ ServeSpec \/ DRFRead \/ get_object \/ CheckRow \/ Compile \/ resolve_target \/ Miss
  PROVE  ShapeInv'
<1> USE DEF ShapeInv, Stages, Targets, Goto, Fail, Crash, found, served
<1>1. CASE Mount
  BY <1>1 DEF Mount
<1>2. CASE Options
  <2>1. described' = described \/ described' \in {"described", "left out"}
    BY <1>2, OptionsAnswers DEF Options
  <2> QED BY <1>2, <2>1 DEF Options
<1>3. CASE Discriminate
  BY <1>3 DEF Discriminate, resolve_polymorphic_service_spec
<1>4. CASE CheckPermissions
  BY <1>4 DEF CheckPermissions, Ask
<1>5. CASE Unserved
  BY <1>5 DEF Unserved
<1>6. CASE ResolveVariant
  <2>1. stage' \in {stage, "failed"}
    BY <1>6 DEF ResolveVariant, resolve_polymorphic_service_spec
  <2> QED BY <1>6, <2>1 DEF ResolveVariant
<1>7. CASE ServeSpec
  BY <1>7 DEF ServeSpec
<1>8. CASE DRFRead
  <2>1. CASE call.action = "retrieve"
    BY <1>8, <2>1 DEF DRFRead
  <2>2. CASE call.action = "list" /\ View.queryset
    BY <1>8, <2>2 DEF DRFRead
  <2>3. CASE call.action # "retrieve" /\ ~(call.action = "list" /\ View.queryset)
    BY <1>8, <2>3 DEF DRFRead
  <2> QED BY <2>1, <2>2, <2>3
<1>9. CASE get_object
  BY <1>9 DEF get_object, MissingRow, RowRaises
<1>10. CASE CheckRow
  BY <1>10 DEF CheckRow, Ask
<1>11. CASE Compile
  BY <1>11 DEF Compile
<1>12. CASE resolve_target
  BY <1>12 DEF resolve_target, Raises
<1>13. CASE Miss
  <2>1. CASE ~IsService /\ spec.allow_none
    BY <1>13, <2>1 DEF Miss
  <2>2. CASE Over("http") /\ (IsService \/ ~spec.allow_none)
    BY <1>13, <2>2 DEF Miss
  <2>3. CASE ~(~IsService /\ spec.allow_none) /\ ~(Over("http") /\ (IsService \/ ~spec.allow_none))
    BY <1>13, <2>3 DEF Miss
  <2> QED BY <2>1, <2>2, <2>3
<1> QED BY <1>1, <1>2, <1>3, <1>4, <1>5, <1>6, <1>7, <1>8, <1>9, <1>10, <1>11, <1>12, <1>13

LEMMA LateShape ==
  ASSUME IInv, ShapeInv,
         Guard \/ Admit \/ RunPreconditions \/ Run \/ Output \/ ResolveStatus \/ RenderMutation
             \/ RenderRead \/ DRFRender \/ Finalize \/ AnswerFailure \/ Done \/ UNCHANGED vars
  PROVE  ShapeInv'
<1> USE DEF ShapeInv, Stages, Targets, Goto, Fail, Crash, found, served
<1>1. CASE Guard
  BY <1>1 DEF Guard, Ask
<1>2. CASE Admit
  BY <1>2 DEF Admit, Refuses
<1>3. CASE RunPreconditions
  BY <1>3 DEF RunPreconditions, Raises
<1>4. CASE Run
  <2>1. stage' \in {"failed", "output"} /\ UNCHANGED <<described, target>>
    BY <1>4 DEF Run, Raises
  <2>2. value' \in {value, None, "returned"}
    BY <1>4 DEF Run
  <2>3. ran' \in {0, 1}
    BY <1>4, RunsOnce
  <2> QED BY <2>1, <2>2, <2>3
<1>5. CASE Output
  BY <1>5 DEF Output, Raises
<1>6. CASE ResolveStatus
  BY <1>6 DEF ResolveStatus
<1>7. CASE RenderMutation \/ RenderRead \/ DRFRender \/ Finalize
  <2>1. Breaks \/ stage' \in {"finalize", "answered"}
    BY <1>7, RenderMutationAgrees, RenderReadAgrees, DRFRenderAgrees, CrashMoves DEF Finalize, Breaks
  <2>2. UNCHANGED <<described, target, ran, value>>
    BY <1>7 DEF RenderMutation, RenderRead, DRFRender, Finalize
  <2> QED BY <2>1, <2>2 DEF Breaks
<1>8. CASE AnswerFailure
  BY <1>8 DEF AnswerFailure
<1>9. CASE Done \/ UNCHANGED vars
  BY <1>9 DEF Done, vars
<1> QED BY <1>1, <1>2, <1>3, <1>4, <1>5, <1>6, <1>7, <1>8, <1>9

(* An answer has a status over HTTP, and none off it. *)
StatusSet == IF Over("http") THEN 200..599 ELSE {None}
TypedResponse(answer) == answer \in Response /\ answer.status \in StatusSet

AnswerInv ==
    /\ response # None => TypedResponse(response)
    /\ stage \in {"finalize", "answered"} => response # None

(* A step answers, or makes no answer of what it leaves. *)
Responds ==
    \/ UNCHANGED response /\ stage' \notin {"finalize", "answered"}
    \/ TypedResponse(response')

LEMMA AnsweredResponds ==
  ASSUME NEW status \in StatusSet, NEW body \in Bodies, Answered(status, body) PROVE Responds
<1>1. response' = [status |-> status, body |-> body]
  BY DEF Answered
<1>2. status \in {None} \cup 200..599
  BY DEF StatusSet
<1>3. response' \in Response
  BY <1>1, <1>2 DEF Response
<1> QED BY <1>1, <1>3 DEF Responds, TypedResponse

LEMMA AddsResponds ==
  ASSUME NEW status \in StatusSet, NEW serialized, add_affordances(status, serialized)
  PROVE  Responds
<1>1. CASE rendered_affordances = None
  BY <1>1, AnsweredResponds DEF add_affordances, Bodies
<1>2. CASE rendered_affordances # None /\ _with_answers(serialized)
  BY <1>2, AnsweredResponds DEF add_affordances, Bodies
<1>3. CASE rendered_affordances # None /\ ~_with_answers(serialized)
  BY <1>3 DEF add_affordances, Crash, Fail, Responds
<1> QED BY <1>1, <1>2, <1>3

(* The status a spec declares is one, for its mount refused another.       *)
LEMMA StatusIsDeclared ==
  ASSUME IInv, Over("http"), stage = "render", spec # None, IsService
  PROVE  resolve_success_status \in 200..599 /\ status_for_a_body(resolve_success_status) \in 200..599
<1>1. CheckedService(spec)
  BY SpecIsChecked
<1>2. PICK has, permissive : validate_service_spec(spec, has, permissive)
  BY <1>1 DEF CheckedService, Checks
<1>3. spec.success_status # Wrong
  BY <1>2 DEF validate_service_spec, _validate_success_status
<1>4. spec.success_status # None => spec.success_status.code \in 200..599
  BY <1>1, <1>3 DEF CheckedService, SignedService, IsSet
<1>5. DefaultStatus \in 200..599
  BY DEF DefaultStatus
<1>6. resolve_success_status \in 200..599
  BY <1>4, <1>5 DEF resolve_success_status
<1> QED BY <1>6 DEF status_for_a_body

LEMMA MutationResponds == ASSUME IInv, RenderMutation PROVE Responds
<1>0. stage = "render" /\ spec # None /\ IsService
  BY DEF RenderMutation
<1> DEFINE none == value = None /\ (rendered_affordances = None \/ (Serializer /\ ~spec.many))
<1>1. CASE Over("http")
  <2>1. /\ resolve_success_status \in StatusSet /\ 204 \in StatusSet
        /\ status_for_a_body(resolve_success_status) \in StatusSet
    BY <1>0, <1>1, StatusIsDeclared DEF StatusSet
  <2>2. CASE Bulk
    <3>1. _dispatch_bulk_via_spec
      BY <1>1, <2>2 DEF RenderMutation
    <3> QED BY <2>1, <3>1, AnsweredResponds, AddsResponds
        DEF _dispatch_bulk_via_spec, render_spec_output, Bodies
  <2>3. CASE ~Bulk
    <3>1. render_mutation_response
      BY <1>1, <2>3 DEF RenderMutation
    <3>2. CASE value = None /\ ~RendersRow
      BY <2>1, <3>1, <3>2, AnsweredResponds DEF render_mutation_response, Bodies
    <3>3. CASE value # None /\ ~Serializer
      BY <2>1, <3>1, <3>3, AnsweredResponds DEF render_mutation_response, Bodies
    <3>4. CASE ~(value = None /\ ~RendersRow) /\ ~(value # None /\ ~Serializer)
      BY <2>1, <3>1, <3>4, AddsResponds DEF render_mutation_response, render_spec_output
    <3> QED BY <3>2, <3>3, <3>4
  <2> QED BY <2>2, <2>3
<1>2. CASE ~Over("http")
  <2>1. None \in StatusSet
    BY <1>2 DEF StatusSet
  <2>2. CASE none
    BY <1>2, <2>1, <2>2, AnsweredResponds DEF RenderMutation, Bodies
  <2>3. CASE ~none
    BY <1>2, <2>1, <2>3, AddsResponds DEF RenderMutation, render_spec_output
  <2> QED BY <2>2, <2>3
<1> QED BY <1>1, <1>2

LEMMA ReadResponds == ASSUME RenderRead PROVE Responds
<1>0. (Over("http") => 200 \in StatusSet) /\ (~Over("http") => None \in StatusSet)
  BY DEF StatusSet
<1>1. CASE target = "none" /\ Over("http")
  BY <1>0, <1>1, AnsweredResponds DEF RenderRead, _JsonNullResponse, Bodies
<1>2. CASE target # "none" /\ Over("http")
  <2>1. list_with_affordances
    BY <1>2 DEF RenderRead
  <2> QED BY <1>0, <1>2, <2>1, AddsResponds DEF list_with_affordances, Crash, Fail, Responds
<1>3. CASE target = "none" /\ ~Over("http")
  BY <1>0, <1>3, AnsweredResponds DEF RenderRead, Bodies
<1>4. CASE target # "none" /\ ~Over("http")
  BY <1>0, <1>4, AddsResponds DEF RenderRead, render_spec_output
<1> QED BY <1>1, <1>2, <1>3, <1>4

(* Off HTTP a spec is given, so DRF renders nothing there. *)
LEMMA DRFResponds == ASSUME IInv, SoundInv, DRFRender PROVE Responds
<1>1. Over("http")
  BY MadeIsRouted DEF DRFRender, IInv, WellRouted, SoundInv, Over, View
<1>2. 200 \in StatusSet
  BY <1>1 DEF StatusSet
<1> QED BY <1>2, AnsweredResponds DEF DRFRender, Crash, Fail, Responds, Bodies

LEMMA FailureResponds == ASSUME SoundInv, AnswerFailure PROVE Responds
<1>1. failure \in Failure
  BY SoundFailure DEF AnswerFailure, SoundInv
<1>2. failure.as.status \in 400..599
  BY <1>1 DEF Failure, Refusal
<1>3. HandledBody \in Bodies
  BY DEF HandledBody, exception_handler, restore_raised_schema, Bodies
<1>4. response' = IF Over("http") THEN [status |-> failure.as.status, body |-> HandledBody]
                  ELSE [status |-> None, body |-> "raised"]
  BY DEF AnswerFailure, HandledBody
<1>5. failure.as.status \in 200..599
  BY <1>2
<1>6. CASE Over("http")
  BY <1>3, <1>4, <1>5, <1>6 DEF Responds, TypedResponse, Response, StatusSet
<1>7. CASE ~Over("http")
  BY <1>4, <1>7 DEF Responds, TypedResponse, Response, StatusSet, Bodies
<1> QED BY <1>6, <1>7

LEMMA MissResponds == ASSUME Miss PROVE Responds
<1>1. CASE ~IsService /\ spec.allow_none
  BY <1>1 DEF Miss, Goto, Responds
<1>2. CASE Over("http") /\ (IsService \/ ~spec.allow_none)
  BY <1>2 DEF Miss, Fail, Responds
<1>3. CASE ~(~IsService /\ spec.allow_none) /\ ~(Over("http") /\ (IsService \/ ~spec.allow_none))
  <2>1. response' = [status |-> None, body |-> "not_found"] /\ ~Over("http")
    BY <1>3 DEF Miss
  <2> QED BY <2>1 DEF Responds, TypedResponse, Response, StatusSet, Bodies
<1> QED BY <1>1, <1>2, <1>3

LEMMA NextAnswer == IInv /\ SoundInv /\ AnswerInv /\ [Next]_vars => AnswerInv'
<1> SUFFICES ASSUME IInv, SoundInv, AnswerInv, [Next]_vars PROVE AnswerInv'
  OBVIOUS
<1>0. StatusSet' = StatusSet
  BY KeepsCall DEF StatusSet, Over
<1>1. ASSUME Responds PROVE AnswerInv'
  BY <1>0, <1>1, NoneAssumption DEF Responds, AnswerInv, TypedResponse
<1>2. CASE Mount \/ Options \/ Discriminate \/ CheckPermissions \/ Unserved \/ ResolveVariant
               \/ ServeSpec \/ DRFRead
  BY <1>1, <1>2, BeforeMoves DEF Early, Responds
<1>3. CASE get_object \/ CheckRow \/ Compile \/ resolve_target \/ Guard \/ Admit
               \/ RunPreconditions \/ Run \/ Output \/ ResolveStatus
  BY <1>1, <1>3, DispatchMoves DEF Early, Responds
<1>4. CASE Miss \/ RenderMutation \/ RenderRead \/ DRFRender \/ AnswerFailure
  BY <1>1, <1>4, MissResponds, MutationResponds, ReadResponds, DRFResponds, FailureResponds
<1>5. CASE Finalize \/ Done \/ UNCHANGED vars
  <2>1. UNCHANGED response /\ (stage' \in {"finalize", "answered"} => stage \in {"finalize", "answered"})
    BY <1>5 DEF Finalize, Done, vars, served
  <2> QED BY <1>0, <2>1 DEF AnswerInv, TypedResponse
<1> QED BY <1>2, <1>3, <1>4, <1>5 DEF Next

TypeInv == KindInv /\ AskedInv /\ ShapeInv /\ AnswerInv

LEMMA NextType == IInv /\ SoundInv /\ SeesInv /\ TypeInv /\ [Next]_vars => TypeInv'
<1>1. IInv /\ ShapeInv /\ [Next]_vars => ShapeInv'
  BY EarlyShape, LateShape DEF Next
<1> QED BY <1>1, NextKind, NextAsked, NextAnswer DEF TypeInv

(* The state of a call has its type, as TypeOK says: every class asked is a*)
(* permission class, every status answered over HTTP is one, whatever      *)
(* callables compute it and whatever an author raises, and nothing runs    *)
(* twice.                                                                  *)
THEOREM TypeHolds == Spec => []TypeOK
<1>1. Init => TypeInv /\ SeesInv
  BY DEF Init, TypeInv, KindInv, AskedInv, ShapeInv, AnswerInv, Stages, Targets, SeesInv
<1>2. IInv /\ SoundInv /\ SeesInv /\ TypeInv /\ [Next]_vars => (SeesInv /\ TypeInv)'
  BY NextSees, NextType
<1>3. IInv /\ SoundInv /\ TypeInv => TypeOK
  <2> SUFFICES ASSUME IInv, SoundInv, TypeInv PROVE TypeOK
    OBVIOUS
  <2>1. failure \in {None} \cup Failure /\ (stage = "failed" => failure # None)
    BY SoundFailure DEF SoundInv
  <2>2. /\ response \in {None} \cup Response
        /\ response # None => response.status \in IF Over("http") THEN 200..599 ELSE {None}
        /\ stage \in {"finalize", "answered"} => response # None
    BY DEF TypeInv, AnswerInv, TypedResponse, StatusSet
  <2>3. chosen = 0 \/ chosen \in DOMAIN Polymorphic.specs
    BY DEF IInv, Chosen
  <2>4. /\ stage \in Stages /\ described \in {None, "described", "left out"}
        /\ target \in {"none", "unset", "row", "record", "set"}
        /\ ran \in {0, 1} /\ value \in {None, "returned", "selected"}
        /\ spec = None \/ spec.is \in {"service", "selector"}
        /\ \A ask \in asked : ask.class \in Classes /\ ask.level \in {"view", "object"}
    BY DEF TypeInv, ShapeInv, KindInv, AskedInv, Targets
  <2> QED BY <2>1, <2>2, <2>3, <2>4 DEF TypeOK
<1> QED BY <1>1, <1>2, <1>3, Always, AlwaysSound, PTL DEF Spec
=============================================================================
