------------------------ MODULE SpecRequest_proofs ------------------------
(***************************************************************************)
(* Theorems of SpecRequest, for any set of calls of any declarations.      *)
(***************************************************************************)
EXTENDS SpecRequest, TLAPS

-----------------------------------------------------------------------------
(* The call and its mount.                                                 *)

(* The call is one that is made, and a spec that runs passed its mount. *)
Made == \E family \in Families : call \in family

Accepted ==
    Over("http") /\ stage \notin {"declared", "refused"} => Mountable(View)

(* What the call is routed to. *)
LEMMA MadeIsRouted == Made => WellRouted(call)
  BY CallsAssumption DEF Made

(* On a viewset the entry whose classes are asked is the entry that runs. *)
LEMMA GuardIsTheEntrys ==
  ASSUME WellRouted(call), View.base = "viewset"
  PROVE  resolve_action_spec(View, call.action) = Entry
<1>1. CASE call.action = "custom"
  <2>1. resolve_action_spec_entry(View, call.action) = None
    BY <1>1 DEF WellRouted, View, resolve_action_spec_entry, Get, _ACTION_SPEC_FALLBACKS
  <2> QED BY <1>1, <2>1 DEF resolve_action_spec, Entry, View
<1>2. CASE call.action # "custom"
  BY <1>2 DEF resolve_action_spec, Entry, View
<1> QED BY <1>1, <1>2

(* Where the spec that is dispatched comes from. *)
Chosen == chosen = 0 \/ chosen \in DOMAIN Polymorphic.specs

FromEntry ==
    /\ Entry # None
    /\ \/ spec = Entry /\ Entry.is # "polymorphic"
       \/ /\ Entry.is = "polymorphic" /\ ~needs_action_specs_mixin(View)
          /\ chosen # 0 /\ chosen \in DOMAIN Polymorphic.specs /\ spec = Polymorphic.specs[chosen]

Served == Over("http") /\ spec # None => FromEntry

(* The variant that runs is one of the entry's, and the mount has the     *)
(* entry's own.                                                           *)
LEMMA VariantsAreTheEntrys ==
  ASSUME WellRouted(call), Over("http"), Entry # None, Entry.is = "polymorphic"
  PROVE  View.base # "standalone" /\ Polymorphic = Entry
<1>1. View.base # "standalone"
  BY DEF WellRouted, Over, Entry, View
<1>2. CASE View.base = "viewset"
  BY <1>2, GuardIsTheEntrys DEF Polymorphic
<1>3. CASE View.base = "plain"
  BY <1>3 DEF Polymorphic, Entry
<1> QED BY <1>1, <1>2, <1>3 DEF WellRouted, View

(* The classes a view asks are, of the spec that runs, those it declares. *)
LEMMA ViewAsksTheSpecs ==
  ASSUME WellRouted(call), Over("http"), spec # None, FromEntry
  PROVE  Declares \subseteq ViewClasses
<1>0. Declares = IF spec.permission_classes # None THEN Each(spec.permission_classes)
                 ELSE Elements(View.permission_classes)
  BY DEF Declares, Declaring
<1>1. Declares \subseteq Inherit(View, spec.permission_classes)
  BY <1>0 DEF Inherit, Each
<1>2. CASE spec = Entry /\ Entry.is # "polymorphic"
  <2>1. ViewClasses = Inherit(View, spec.permission_classes)
    BY <1>2, GuardIsTheEntrys DEF ViewClasses, get_permissions, Entry, WellRouted, View
  <2> QED BY <1>1, <2>1
<1>3. CASE spec # Entry \/ Entry.is = "polymorphic"
  <2>1. /\ Entry # None /\ Entry.is = "polymorphic" /\ ~needs_action_specs_mixin(View)
        /\ chosen # 0 /\ chosen \in DOMAIN Polymorphic.specs /\ spec = Polymorphic.specs[chosen]
    BY <1>3 DEF FromEntry
  <2>2. View.base # "standalone" /\ Polymorphic = Entry
    BY <2>1, VariantsAreTheEntrys
  <2>3. spec \in Elements(Entry.specs) /\ Variant = spec
    BY <2>1, <2>2 DEF Elements, Variant
  <2>4. CASE View.base = "viewset"
    <3>1. ViewClasses = _polymorphic_permissions(View, Entry, spec)
      BY <2>1, <2>3, <2>4, GuardIsTheEntrys DEF ViewClasses, get_permissions
    <3>2. Inherit(View, spec.permission_classes) \subseteq ViewClasses
      BY <2>3, <3>1 DEF _polymorphic_permissions
    <3> QED BY <1>1, <3>2
  <2>5. CASE View.base = "plain"
    <3>1. View.stamped = Entry
      BY <2>5 DEF Entry
    <3>2. ViewClasses = Elements(View.permission_classes)
      BY <2>1, <2>5, <3>1 DEF ViewClasses, get_permissions
    <3>3. spec.permission_classes = None
      BY <2>1, <2>3, <2>5, <3>1 DEF needs_action_specs_mixin
    <3> QED BY <1>0, <3>2, <3>3
  <2> QED BY <2>2, <2>4, <2>5 DEF WellRouted, View
<1> QED BY <1>2, <1>3

(* And of a read left to DRF, those its entry declares. *)
LEMMA ViewAsksTheReads ==
  ASSUME WellRouted(call), Over("http"), spec = None, Mountable(View),
         call.action \in {"list", "retrieve"}
  PROVE  Declares \subseteq ViewClasses
<1>1. Declares = IF Entry # None /\ Entry.permission_classes # None
                 THEN Each(Entry.permission_classes) ELSE Elements(View.permission_classes)
  BY DEF Declares, Declaring
<1>2. View.base # "plain"
  BY DEF WellRouted, View
<1>3. CASE View.base = "standalone"
  <2>1. Entry = View.spec /\ (Entry # None => Entry.is # "polymorphic")
    BY <1>3 DEF Entry, WellRouted, View, Over
  <2> QED BY <1>1, <1>3, <2>1 DEF ViewClasses, get_permissions, Inherit, Each
<1>4. CASE View.base = "viewset"
  <2>1. resolve_action_spec(View, call.action) = Entry
    BY <1>4, GuardIsTheEntrys
  <2>2. Entry = Get(View.action_specs, call.action)
    BY <1>4 DEF Entry, resolve_action_spec_entry, Get, _ACTION_SPEC_FALLBACKS
  <2>3. ASSUME Entry # None PROVE Entry.is = "selector"
    <3>1. call.action \in DOMAIN View.action_specs /\ Entry = View.action_specs[call.action]
      BY <2>2, <2>3 DEF Get
    <3>2. _validate_action_spec(View, call.action, Entry)
      BY <1>4, <3>1 DEF Mountable, as_view
    <3> QED BY <3>2 DEF _validate_action_spec, _validate_selector_action_spec, Mutations,
                        _SELECTOR_ACTION_KIND
  <2> QED BY <1>1, <1>4, <2>1, <2>3 DEF ViewClasses, get_permissions, Inherit, Each
<1> QED BY <1>2, <1>3, <1>4 DEF WellRouted, View

-----------------------------------------------------------------------------
(* Who guards.                                                             *)

(* The stages after the view's permissions, and after the object's. *)
Admitted == {"input", "preconditions", "service", "output", "status", "render", "finalize"}
Checked == {"handler", "get_object", "object", "compile", "lookup", "guard"} \cup Admitted
Afterwards == {"output", "status", "render", "finalize", "failed", "answered"}

(* A stage of a view's is reached over HTTP, and a spec runs on the way. *)
Staged ==
    /\ stage \in {"options", "handler", "get_object", "object"} => Over("http")
    /\ stage \in {"declared", "options", "mounted", "handler"} /\ Over("http") => target # "row"
    /\ ran > 0 => stage \in Afterwards /\ (Over("http") => spec # None)

(* A call without a spec is a read left to DRF. *)
LeftToDRF ==
    Over("http") /\ spec = None /\ stage \in Checked \ {"handler"} =>
        /\ call.action \in {"list", "retrieve"} /\ ~Selects(Entry)
        /\ stage \in {"get_object", "object", "render", "finalize"}
        /\ stage = "get_object" => call.action = "retrieve"

(* The classes that guard the call were asked, of the row once it is read; *)
(* and of a discriminated entry they are the variant's.                    *)
ViewAsked ==
    /\ stage \in Checked \/ ran > 0 => OwnClasses \subseteq AskedAt("view")
    /\ Over("http") /\ Discriminates(View, call.action) /\ stage \in Checked => chosen # 0

RowAsked ==
    (stage \in Admitted \/ ran > 0) /\ target = "row" => OwnClasses \subseteq AskedAt("object")

IInv ==
    /\ Made /\ Accepted /\ Chosen /\ Served
    /\ Staged /\ LeftToDRF /\ ViewAsked /\ RowAsked

(* It implies that the classes asked are those the spec declares. *)
LEMMA DeclaresOwn ==
  ASSUME IInv, ran > 0 \/ stage \in {"render", "finalize"}
  PROVE  Declares \subseteq OwnClasses
<1>1. WellRouted(call)
  BY MadeIsRouted DEF IInv
<1>2. CASE Over("http")
  <2>1. OwnClasses = ViewClasses
    BY <1>2 DEF OwnClasses, Over
  <2>2. CASE spec # None
    BY <1>1, <1>2, <2>1, <2>2, ViewAsksTheSpecs DEF IInv, Served
  <2>3. CASE spec = None
    <3>0. stage \in {"render", "finalize"}
      BY <1>2, <2>3 DEF IInv, Staged
    <3>1. call.action \in {"list", "retrieve"}
      BY <1>2, <2>3, <3>0 DEF IInv, LeftToDRF, Checked, Admitted
    <3>2. Mountable(View)
      BY <1>2, <3>0 DEF IInv, Accepted
    <3> QED BY <1>1, <1>2, <2>1, <2>3, <3>1, <3>2, ViewAsksTheReads
  <2> QED BY <2>2, <2>3
<1>3. CASE ~Over("http")
  <2>1. CASE spec = None \/ spec.permission_classes = None
    BY <1>3, <2>1 DEF Declares, Declaring
  <2>2. CASE spec # None /\ spec.permission_classes # None
    <3>1. Declares = Each(spec.permission_classes)
      BY <1>3, <2>2 DEF Declares, Declaring
    <3>2. OwnClasses = IF Over("edge") THEN Each(spec.permission_classes)
                       ELSE _permissions(spec).classes
      BY <1>3 DEF OwnClasses
    <3>3. _permissions(spec).classes = Elements(spec.permission_classes)
      BY <2>2 DEF _permissions
    <3> QED BY <3>1, <3>2, <3>3 DEF Each
  <2> QED BY <2>1, <2>2
<1> QED BY <1>2, <1>3

(* It holds before the call. *)
LEMMA InitIInv == Init => IInv
  BY DEF Init, IInv, Made, Accepted, Chosen, Served, Staged, LeftToDRF, ViewAsked, RowAsked,
         Checked, Admitted, Afterwards

(* To ask is to have asked, and nothing asked is forgotten. *)
LEMMA Asking ==
  ASSUME NEW level, NEW next, Ask(level, next)
  PROVE  /\ OwnClasses \subseteq AskedAt(level)'
         /\ \A any : AskedAt(any) \subseteq AskedAt(any)'
<1>1. asked' = asked \cup {[class |-> class, level |-> level, pair |-> Pair] : class \in OwnClasses}
  BY DEF Ask
<1>2. ASSUME NEW class \in OwnClasses PROVE class \in AskedAt(level)'
  <2>1. [class |-> class, level |-> level, pair |-> Pair] \in asked'
    BY <1>1, <1>2
  <2> QED BY <2>1 DEF AskedAt
<1>3. ASSUME NEW any PROVE AskedAt(any) \subseteq AskedAt(any)'
  BY <1>1 DEF AskedAt
<1> QED BY <1>2, <1>3

(* A step past the permissions, or into a failure, keeps what was asked. *)
LEMMA LateStep ==
  ASSUME IInv, UNCHANGED <<call, chosen, found, asked>>,
         stage \notin {"declared", "refused"}, stage' \in Admitted \cup {"failed", "answered"},
         stage' \in Admitted =>
             stage \in Admitted /\ (stage \in {"render", "finalize"} => stage' = "finalize"),
         ran' > 0 => stage' \in Afterwards /\ (ran > 0 \/ stage = "service")
  PROVE  IInv'
<1> USE DEF found
<1>1. Made' /\ Accepted'
  BY DEF IInv, Made, Accepted, Over, View
<1>2. UNCHANGED <<Polymorphic, Entry, OwnClasses, ViewClasses, View>>
  BY DEF Polymorphic, Entry, OwnClasses, ViewClasses, Variant, View, Over
<1>3. Chosen' /\ Served'
  BY <1>2 DEF IInv, Chosen, Served, FromEntry, Over
<1>4. Staged'
  <2>1. ASSUME stage = "service", Over("http") PROVE spec # None
    BY <2>1 DEF IInv, LeftToDRF, Checked, Admitted
  <2> QED BY <2>1 DEF IInv, Staged, Admitted, Over
<1>5. LeftToDRF'
  BY <1>2 DEF IInv, LeftToDRF, Checked, Admitted, Over, Selects
<1>6. UNCHANGED <<AskedAt("view"), AskedAt("object"), Discriminates(View, call.action)>>
  BY DEF AskedAt, View
<1>7. ViewAsked' /\ RowAsked'
  <2>1. stage' \in Checked => stage \in Checked
    BY DEF Checked, Admitted
  <2>2. stage = "service" => stage \in Checked /\ stage \in Admitted
    BY DEF Checked, Admitted
  <2> QED BY <1>2, <1>6, <2>1, <2>2 DEF IInv, ViewAsked, RowAsked, Over
<1> QED BY <1>1, <1>3, <1>4, <1>5, <1>7 DEF IInv

(* A failure is such a step. *)
LEMMA FailIInv ==
  ASSUME IInv, UNCHANGED <<call, chosen, found, asked, ran>>, stage' = "failed",
         stage \notin {"declared", "refused"}
  PROVE  IInv'
  BY LateStep DEF IInv, Staged, Admitted, Afterwards

(* What a spec is, is not disturbed where the call, its variant and its    *)
(* spec are kept.                                                          *)
LEMMA SameSpec ==
  ASSUME UNCHANGED <<call, chosen, spec>>
  PROVE  /\ UNCHANGED <<View, Polymorphic, Entry, ViewClasses, OwnClasses>>
         /\ \A surface : Over(surface)' = Over(surface)
         /\ Chosen' = Chosen /\ FromEntry' = FromEntry /\ Made' = Made
<1>1. UNCHANGED View /\ \A surface : Over(surface)' = Over(surface)
  BY DEF View, Over
<1>2. UNCHANGED <<Polymorphic, Entry, ViewClasses, OwnClasses>>
  BY DEF Polymorphic, Entry, OwnClasses, ViewClasses, Variant, View, Over
<1> QED BY <1>1, <1>2 DEF Chosen, FromEntry, Made

(* A spec is mounted. *)
LEMMA MountIInv == ASSUME IInv, Mount PROVE IInv'
<1>1. CASE Over("http")
  <2>1. UNCHANGED <<call, chosen, spec>> /\ UNCHANGED <<target, asked, ran>>
    BY <1>1 DEF Mount, served
  <2>2. stage' \in {"refused", "mounted", "options"} /\ (stage' # "refused" => Mountable(View))
    BY <1>1 DEF Mount, Goto
  <2>3. stage = "declared" /\ ~(ran > 0) /\ ~(ran' > 0)
    BY <2>1 DEF Mount, IInv, Staged, Afterwards
  <2>4. Made' /\ Accepted' /\ Chosen' /\ Served'
    BY <2>1, <2>2, SameSpec DEF IInv, Accepted, Served
  <2>5. Staged' /\ LeftToDRF' /\ ViewAsked' /\ RowAsked'
    BY <1>1, <2>1, <2>2, <2>3, SameSpec
    DEF IInv, Staged, LeftToDRF, ViewAsked, RowAsked, Checked, Admitted
  <2> QED BY <2>4, <2>5 DEF IInv
<1>2. CASE ~Over("http")
  <2>1. UNCHANGED <<call, chosen, target, asked, ran>> /\ ~Over("http")'
    BY <1>2 DEF Mount, served, Over
  <2>2. stage' \in {"refused", "mounted"}
    BY <1>2 DEF Mount, Goto
  <2>3. ~(ran > 0) /\ ~(ran' > 0)
    BY <2>1 DEF Mount, IInv, Staged, Afterwards
  <2>4. Made' /\ Chosen'
    BY <2>1 DEF IInv, Made, Chosen, Polymorphic, View
  <2>5. Accepted' /\ Served' /\ Staged' /\ LeftToDRF' /\ ViewAsked' /\ RowAsked'
    BY <2>1, <2>2, <2>3
    DEF Accepted, Served, Staged, LeftToDRF, ViewAsked, RowAsked, Checked, Admitted
  <2> QED BY <2>4, <2>5 DEF IInv
<1> QED BY <1>1, <1>2

(* OPTIONS only describes. *)
LEMMA OptionsIInv == ASSUME IInv, Options PROVE IInv'
<1>1. UNCHANGED <<call, chosen, found, asked, ran>> /\ stage = "options"
  BY DEF Options, served
<1>2. CASE stage' = "failed"
  BY <1>1, <1>2, FailIInv
<1>3. CASE stage' = "mounted"
  <2>1. ~(ran > 0) /\ ~(ran' > 0)
    BY <1>1 DEF IInv, Staged, Afterwards
  <2>2. Made' /\ Accepted' /\ Chosen' /\ Served'
    BY <1>1, SameSpec DEF IInv, Accepted, Served, found
  <2>3. Staged' /\ LeftToDRF' /\ ViewAsked' /\ RowAsked'
    BY <1>1, <1>3, <2>1, SameSpec
    DEF IInv, Staged, LeftToDRF, ViewAsked, RowAsked, Checked, Admitted, found
  <2> QED BY <2>2, <2>3 DEF IInv
<1> QED BY <1>2, <1>3 DEF Options, Crash, Fail, Goto

(* A discriminator answers with one of the variants, or fails. *)
LEMMA Discriminating ==
  ASSUME resolve_polymorphic_service_spec
  PROVE  \/ chosen' \in DOMAIN Polymorphic.specs /\ UNCHANGED <<stage, failure>>
         \/ stage' = "failed" /\ UNCHANGED chosen
  BY DEF resolve_polymorphic_service_spec, Crash, Fail

LEMMA DiscriminateIInv == ASSUME IInv, Discriminate PROVE IInv'
<1>1. UNCHANGED <<call, found, asked, ran>> /\ stage = "mounted" /\ chosen = 0 /\ Over("http")
  BY DEF Discriminate, served
<1>2. CASE stage' = "failed" /\ UNCHANGED chosen
  BY <1>1, <1>2, FailIInv
<1>3. CASE chosen' \in DOMAIN Polymorphic.specs /\ UNCHANGED stage
  <2>1. UNCHANGED <<View, Polymorphic, Entry>> /\ Over("http")' = Over("http")
    BY <1>1 DEF Polymorphic, Entry, View, Over
  <2>2. Made' /\ Accepted' /\ Chosen'
    BY <1>1, <1>3, <2>1 DEF IInv, Made, Accepted, Chosen
  <2>3. Served'
    BY <1>1, <2>1 DEF IInv, Served, FromEntry, found
  <2>4. ~(ran > 0) /\ ~(ran' > 0)
    BY <1>1 DEF IInv, Staged, Afterwards
  <2>5. Staged' /\ LeftToDRF' /\ ViewAsked' /\ RowAsked'
    BY <1>1, <1>3, <2>1, <2>4
    DEF IInv, Staged, LeftToDRF, ViewAsked, RowAsked, Checked, Admitted, found
  <2> QED BY <2>2, <2>3, <2>5 DEF IInv
<1> QED BY <1>2, <1>3, Discriminating DEF Discriminate

(* The classes that guard a call are asked before any of it runs. *)
LEMMA CheckPermissionsIInv == ASSUME IInv, CheckPermissions PROVE IInv'
<1>1. /\ UNCHANGED <<call, chosen, spec, ran>> /\ stage = "mounted"
      /\ Over("http") => target' = target
      /\ Over("http") /\ Discriminates(View, call.action) => chosen # 0
      /\ Ask("view", IF Over("http") THEN "handler" ELSE "compile")
  BY DEF CheckPermissions, served
<1>2. stage' \in {IF Over("http") THEN "handler" ELSE "compile", "failed"}
  BY <1>1 DEF Ask, Goto, Fail
<1>3. ~(ran > 0) /\ ~(ran' > 0)
  BY <1>1 DEF IInv, Staged, Afterwards
<1>4. Made' /\ Accepted' /\ Chosen' /\ Served'
  BY <1>1, <1>2, SameSpec DEF IInv, Accepted, Served
<1>5. Staged' /\ LeftToDRF' /\ RowAsked'
  BY <1>1, <1>2, <1>3, SameSpec DEF IInv, Staged, LeftToDRF, RowAsked, Checked, Admitted
<1>6. ViewAsked'
  BY <1>1, <1>3, Asking, SameSpec DEF ViewAsked
<1> QED BY <1>4, <1>5, <1>6 DEF IInv

LEMMA UnservedIInv == ASSUME IInv, Unserved PROVE IInv'
  BY FailIInv DEF Unserved, Crash, Fail, served

(* Resolving the variant to run leaves the one that was asked for. *)
LEMMA ResolveVariantIInv == ASSUME IInv, ResolveVariant PROVE IInv'
<1>1. /\ UNCHANGED <<call, target, asked, ran>> /\ stage = "handler" /\ spec = None
      /\ Entry # None /\ Entry.is = "polymorphic" /\ ~needs_action_specs_mixin(View)
      /\ Over("http")
      /\ spec' = IF chosen' = 0 THEN None ELSE Polymorphic.specs[chosen']
      /\ chosen # 0 => UNCHANGED <<stage, chosen>>
  BY DEF ResolveVariant, served, Cached, IInv, Staged
<1>2. \/ stage' = "handler" /\ (chosen' = chosen \/ chosen' \in DOMAIN Polymorphic.specs)
      \/ stage' = "failed" /\ chosen' = chosen
  BY <1>1, Discriminating DEF ResolveVariant, Cached
<1>3. ~(ran > 0) /\ ~(ran' > 0)
  BY <1>1 DEF IInv, Staged, Afterwards
<1>4. UNCHANGED <<View, Polymorphic, Entry>> /\ Over("http")'
  BY <1>1 DEF Polymorphic, Entry, View, Over
<1>5. Made' /\ Accepted' /\ Chosen'
  BY <1>1, <1>2, <1>4 DEF IInv, Made, Accepted, Chosen
<1>6. Served'
  BY <1>1, <1>4, <1>5 DEF Served, FromEntry, Chosen
<1>7. Staged' /\ LeftToDRF' /\ RowAsked'
  BY <1>1, <1>2, <1>3, <1>4 DEF IInv, Staged, LeftToDRF, RowAsked, Checked, Admitted
<1>8. ViewAsked'
  <2>1. UNCHANGED <<AskedAt("view"), Discriminates(View, call.action)>>
    BY <1>1, <1>4 DEF AskedAt
  <2>2. stage = "handler" /\ stage \in Checked
    BY <1>1 DEF Checked
  <2>3. UNCHANGED OwnClasses
    <3>1. CASE Discriminates(View, call.action)
      <4>1. UNCHANGED chosen
        BY <1>1, <2>2, <3>1 DEF IInv, ViewAsked
      <4> QED BY <1>4, <4>1, <1>1 DEF OwnClasses, ViewClasses, Variant, Over
    <3>2. CASE ~Discriminates(View, call.action)
      <4>1. \A v : get_permissions(View, call.action, v) = get_permissions(View, call.action, None)
        BY <3>2 DEF get_permissions, _polymorphic_permissions, Discriminates
      <4>2. UNCHANGED ViewClasses
        BY <1>1, <1>4, <4>1 DEF ViewClasses
      <4> QED BY <1>1, <1>4, <4>2 DEF OwnClasses, Over
    <3> QED BY <3>1, <3>2
  <2>4. Over("http") /\ Discriminates(View, call.action) => UNCHANGED chosen /\ chosen # 0
    BY <1>1, <2>2 DEF IInv, ViewAsked
  <2> QED BY <1>1, <1>3, <2>1, <2>2, <2>3, <2>4 DEF IInv, ViewAsked
<1> QED BY <1>5, <1>6, <1>7, <1>8 DEF IInv

(* The spec that is served is the entry's. *)
LEMMA ServeSpecIInv == ASSUME IInv, ServeSpec PROVE IInv'
<1>1. /\ UNCHANGED <<call, chosen, asked, ran>> /\ stage = "handler" /\ Over("http")
      /\ stage' \in {"get_object", "compile"}
      /\ \/ spec # None /\ spec' = spec
         \/ Entry # None /\ Entry.is \in {"service", "selector"} /\ spec' = Entry
  BY DEF ServeSpec, Goto, Selects, served, IInv, Staged
<1>2. UNCHANGED <<View, Polymorphic, Entry>> /\ Over("http")'
  BY <1>1 DEF Polymorphic, Entry, View, Over
<1>3. ~(ran > 0) /\ ~(ran' > 0)
  BY <1>1 DEF IInv, Staged, Afterwards
<1>4. Made' /\ Accepted' /\ Chosen'
  BY <1>1, <1>2 DEF IInv, Made, Accepted, Chosen
<1>5. Served'
  BY <1>1, <1>2 DEF IInv, Served, FromEntry
<1>6. Staged' /\ LeftToDRF' /\ RowAsked'
  BY <1>1, <1>2, <1>3 DEF Staged, LeftToDRF, RowAsked, Checked, Admitted
<1>7. UNCHANGED <<AskedAt("view"), OwnClasses, Discriminates(View, call.action)>>
  BY <1>1, <1>2 DEF AskedAt, OwnClasses, ViewClasses, Variant, Over
<1>8. ViewAsked'
  BY <1>1, <1>3, <1>7 DEF IInv, ViewAsked, Checked
<1> QED BY <1>4, <1>5, <1>6, <1>8 DEF IInv

(* DRF's own read has an entry that selects nothing, or none. *)
LEMMA DRFReadIInv == ASSUME IInv, DRFRead PROVE IInv'
<1>1. /\ UNCHANGED <<call, chosen, spec, target, asked, ran>> /\ stage = "handler"
      /\ call.action \in {"list", "retrieve"} /\ ~Selects(Entry) /\ Over("http")
      /\ stage' \in {"get_object", "render", "failed"}
      /\ stage' = "get_object" => call.action = "retrieve"
  BY DEF DRFRead, Goto, Crash, Fail, found, served, IInv, Staged
<1>2. ~(ran > 0) /\ ~(ran' > 0) /\ target # "row"
  BY <1>1 DEF IInv, Staged, Afterwards
<1>3. Made' /\ Accepted' /\ Chosen' /\ Served'
  BY <1>1, SameSpec DEF IInv, Accepted, Served
<1>4. Staged' /\ LeftToDRF' /\ RowAsked'
  BY <1>1, <1>2, SameSpec DEF Staged, LeftToDRF, RowAsked, Checked, Admitted, Selects
<1>5. UNCHANGED <<AskedAt("view"), OwnClasses, Discriminates(View, call.action)>>
  BY <1>1, SameSpec DEF AskedAt
<1>6. ViewAsked'
  BY <1>1, <1>2, <1>5 DEF IInv, ViewAsked, Checked
<1> QED BY <1>3, <1>4, <1>6 DEF IInv

(* A view whose rows a retrieve selector reads leaves no retrieve to DRF. *)
LEMMA RetrieveSelects ==
  ASSUME Over("http"), Mountable(View), RowSource(View) = "retrieve", call.action = "retrieve"
  PROVE  Selects(Entry)
<1>1. View.base = "viewset" /\ resolve_action_selector_spec(View, "retrieve") # None
  BY DEF RowSource
<1>2. /\ Get(View.action_specs, "retrieve") # None
      /\ Get(View.action_specs, "retrieve").selector # None
  BY <1>1 DEF resolve_action_selector_spec
<1>3. Entry = Get(View.action_specs, "retrieve")
  BY <1>1 DEF Entry, resolve_action_spec_entry, _ACTION_SPEC_FALLBACKS, Get
<1>4. "retrieve" \in DOMAIN View.action_specs /\ Entry = View.action_specs["retrieve"]
  BY <1>2, <1>3 DEF Get
<1>5. _validate_action_spec(View, "retrieve", Entry)
  BY <1>1, <1>4 DEF Mountable, as_view
<1>6. Entry.is = "selector"
  BY <1>5 DEF _validate_action_spec, _validate_selector_action_spec, Mutations,
              _SELECTOR_ACTION_KIND
<1> QED BY <1>2, <1>3, <1>6 DEF Selects

(* A row is read before anything is asked of it. *)
LEMMA get_objectIInv == ASSUME IInv, get_object PROVE IInv'
<1>1. /\ UNCHANGED <<call, chosen, spec, asked, ran>> /\ stage = "get_object" /\ Over("http")
      /\ \/ stage' = "failed" /\ UNCHANGED target
         \/ stage' = "failed" /\ target' = "none"
         \/ stage' = "compile" /\ RowSource(View) = "retrieve"
         \/ stage' = "object"
  BY DEF get_object, MissingRow, RowRaises, Goto, Crash, Fail, served, IInv, Staged
<1>2. ~(ran > 0) /\ ~(ran' > 0)
  BY <1>1 DEF IInv, Staged, Afterwards
<1>3. Made' /\ Accepted' /\ Chosen' /\ Served'
  BY <1>1, SameSpec DEF IInv, Accepted, Served
<1>4. LeftToDRF'
  <2>1. ASSUME spec = None, stage' = "compile" PROVE FALSE
    <3>1. call.action = "retrieve" /\ ~Selects(Entry) /\ Mountable(View)
      BY <1>1, <2>1 DEF IInv, LeftToDRF, Checked, Accepted
    <3> QED BY <1>1, <2>1, <3>1, RetrieveSelects
  <2> QED BY <1>1, <2>1, SameSpec DEF IInv, LeftToDRF, Checked, Admitted, Selects
<1>5. Staged' /\ RowAsked'
  BY <1>1, <1>2, SameSpec DEF Staged, RowAsked, Checked, Admitted
<1>6. UNCHANGED <<AskedAt("view"), OwnClasses, Discriminates(View, call.action)>>
  BY <1>1, SameSpec DEF AskedAt
<1>7. ViewAsked'
  BY <1>1, <1>2, <1>6, SameSpec DEF IInv, ViewAsked, Checked
<1> QED BY <1>3, <1>4, <1>5, <1>7 DEF IInv

(* What asks of the row, or has none to ask of. *)
LEMMA RowStep ==
  ASSUME IInv, UNCHANGED <<call, chosen, spec, target, ran>>, ~(ran > 0), stage \in Checked \ {"handler"},
         NEW next, stage' \in {next, "failed"}, next \in Checked \ {"handler", "get_object", "object"},
         Over("http") => (spec = None => next = "render"),
         IF target = "row" THEN Ask("object", next) ELSE UNCHANGED asked
  PROVE  IInv'
<1>0. stage \notin {"declared", "refused", "options", "mounted"}
  BY DEF Checked, Admitted
<1>1. Made' /\ Accepted' /\ Chosen' /\ Served'
  BY <1>0, SameSpec DEF IInv, Accepted, Served
<1>2. Staged'
  BY <1>0, SameSpec DEF Staged, Checked, Admitted
<1>3. UNCHANGED <<OwnClasses, Discriminates(View, call.action)>>
  BY SameSpec
<1>4. \A any : AskedAt(any) \subseteq AskedAt(any)'
  BY Asking DEF AskedAt
<1>5. target = "row" => OwnClasses \subseteq AskedAt("object")'
  BY Asking
<1>6. ViewAsked' /\ RowAsked'
  BY <1>3, <1>4, <1>5, SameSpec DEF IInv, ViewAsked, RowAsked
<1>7. LeftToDRF'
  <2>1. ASSUME spec = None, Over("http"), stage' = next PROVE LeftToDRF'
    <3>1. call.action \in {"list", "retrieve"} /\ ~Selects(Entry)
      BY <2>1 DEF IInv, LeftToDRF
    <3> QED BY <2>1, <3>1, SameSpec DEF LeftToDRF, Selects
  <2> QED BY <2>1, SameSpec DEF LeftToDRF, Checked, Admitted
<1> QED BY <1>1, <1>2, <1>6, <1>7 DEF IInv

LEMMA CheckRowIInv == ASSUME IInv, CheckRow PROVE IInv'
<1> DEFINE next == IF spec = None THEN "render" ELSE "compile"
<1>1. /\ UNCHANGED <<call, chosen, spec, target, ran>> /\ stage = "object"
      /\ stage' \in {next, "failed"}
      /\ IF target = "row" THEN Ask("object", next) ELSE UNCHANGED asked
  BY DEF CheckRow, Ask, Goto, Fail, found, served
<1>2. ~(ran > 0)
  BY <1>1 DEF IInv, Staged, Afterwards
<1> QED BY <1>1, <1>2, RowStep DEF Checked, Admitted

LEMMA GuardIInv == ASSUME IInv, Guard PROVE IInv'
<1> DEFINE next == IF IsService THEN "input" ELSE "preconditions"
<1>1. /\ UNCHANGED <<call, chosen, spec, target, ran>> /\ stage = "guard"
      /\ stage' \in {next, "failed"}
      /\ IF target = "row" THEN Ask("object", next) ELSE UNCHANGED asked
  BY DEF Guard, Ask, Goto, Fail, found, served
<1>2. ~(ran > 0) /\ (Over("http") => spec # None)
  BY <1>1 DEF IInv, Staged, LeftToDRF, Checked, Afterwards
<1> QED BY <1>1, <1>2, RowStep DEF Checked, Admitted

(* The target is looked up before its permissions are asked. *)
LEMMA LookupStep ==
  ASSUME IInv, UNCHANGED <<call, chosen, spec, asked, ran>>, stage \in {"compile", "lookup"},
         \/ stage' \in {"lookup", "guard", "failed", "answered"}
         \/ stage' = "render" /\ target' = "none"
  PROVE  IInv'
<1>1. ~(ran > 0) /\ ~(ran' > 0)
  BY DEF IInv, Staged, Afterwards
<1>2. Made' /\ Accepted' /\ Chosen' /\ Served'
  BY SameSpec DEF IInv, Accepted, Served
<1>3. Staged' /\ RowAsked'
  BY <1>1, SameSpec DEF Staged, RowAsked, Admitted
<1>4. Over("http") => spec # None
  BY DEF IInv, LeftToDRF, Checked
<1>5. LeftToDRF'
  BY <1>4, SameSpec DEF LeftToDRF
<1>6. UNCHANGED <<AskedAt("view"), OwnClasses, Discriminates(View, call.action)>>
  BY SameSpec DEF AskedAt
<1>7. ViewAsked'
  BY <1>1, <1>6, SameSpec DEF IInv, ViewAsked, Checked
<1> QED BY <1>2, <1>3, <1>5, <1>7 DEF IInv

LEMMA CompileIInv == ASSUME IInv, Compile PROVE IInv'
  BY LookupStep DEF Compile, Crash, Fail, Goto, served

LEMMA resolve_targetIInv == ASSUME IInv, resolve_target PROVE IInv'
  BY LookupStep DEF resolve_target, Crash, Raises, Fail, Goto, served

LEMMA MissIInv == ASSUME IInv, Miss PROVE IInv'
<1>1. stage' \in {"render", "failed", "answered"} /\ target' = "none"
  <2>1. CASE ~IsService /\ spec.allow_none
    BY <2>1 DEF Miss, Goto
  <2>2. CASE Over("http") /\ (IsService \/ ~spec.allow_none)
    BY <2>2 DEF Miss, Fail
  <2>3. CASE ~(~IsService /\ spec.allow_none) /\ ~(Over("http") /\ (IsService \/ ~spec.allow_none))
    BY <2>3 DEF Miss, Goto
  <2> QED BY <2>1, <2>2, <2>3
<1> QED BY <1>1, LookupStep DEF Miss

(* What comes after them. *)
LEMMA AdmitIInv == ASSUME IInv, Admit PROVE IInv'
<1>1. UNCHANGED <<call, chosen, found, asked, ran>> /\ stage = "input"
      /\ stage' \in {"preconditions", "failed"}
  BY DEF Admit, Goto, Refuses, Fail, served
<1> QED BY <1>1, LateStep DEF Admitted, IInv, Staged, Afterwards

LEMMA RunPreconditionsIInv == ASSUME IInv, RunPreconditions PROVE IInv'
<1>1. UNCHANGED <<call, chosen, found, asked, ran>> /\ stage = "preconditions"
      /\ stage' \in {"service", "render", "failed"}
  BY DEF RunPreconditions, Goto, Raises, Crash, Fail, served
<1> QED BY <1>1, LateStep DEF Admitted, IInv, Staged, Afterwards

LEMMA RunIInv == ASSUME IInv, Run PROVE IInv'
<1>1. UNCHANGED <<call, chosen, found, asked>> /\ stage = "service"
      /\ stage' \in {"output", "failed"}
  BY DEF Run, Goto, Raises, Crash, Fail
<1> QED BY <1>1, LateStep DEF Admitted, IInv, Staged, Afterwards

LEMMA OutputIInv == ASSUME IInv, Output PROVE IInv'
<1>1. UNCHANGED <<call, chosen, found, asked, ran>> /\ stage = "output"
      /\ stage' \in {"status", "failed"}
  BY DEF Output, Goto, Raises, Crash, Fail
<1> QED BY <1>1, LateStep DEF Admitted, IInv, Staged, Afterwards

LEMMA ResolveStatusIInv == ASSUME IInv, ResolveStatus PROVE IInv'
<1>1. UNCHANGED <<call, chosen, found, asked, ran>> /\ stage = "status"
      /\ stage' \in {"render", "failed"}
  BY DEF ResolveStatus, Goto, Crash, Fail, served
<1> QED BY <1>1, LateStep DEF Admitted, IInv, Staged, Afterwards

(* To render is to answer, or to fail. *)
LEMMA Answering == ASSUME NEW status, NEW body, Answered(status, body) PROVE stage' = "finalize"
  BY DEF Answered, Goto

LEMMA Adding ==
  ASSUME NEW status, NEW serialized, add_affordances(status, serialized)
  PROVE  stage' \in {"finalize", "failed"}
<1>1. CASE rendered_affordances = None
  BY <1>1 DEF add_affordances, Answered, Goto
<1>2. CASE rendered_affordances # None /\ _with_answers(serialized)
  BY <1>2 DEF add_affordances, Answered, Goto
<1>3. CASE rendered_affordances # None /\ ~_with_answers(serialized)
  BY <1>3 DEF add_affordances, Crash, Fail
<1> QED BY <1>1, <1>2, <1>3

(* Once the spec is presented nothing else is done but to answer. *)
Presents ==
    /\ UNCHANGED <<call, chosen, found, asked, ran>> /\ stage \in {"render", "finalize"}
    /\ stage' \in {"finalize", "failed", "answered"}
    /\ stage = "finalize" => stage' # "finalize"

LEMMA RenderMutationPresents == ASSUME RenderMutation PROVE Presents
<1>1. UNCHANGED <<call, chosen, found, asked, ran>> /\ stage = "render"
  BY DEF RenderMutation
<1>2. stage' \in {"finalize", "failed"}
  <2> DEFINE none == value = None /\ (rendered_affordances = None \/ (Serializer /\ ~spec.many))
  <2>1. CASE Over("http") /\ Bulk
    <3>1. _dispatch_bulk_via_spec
      BY <2>1 DEF RenderMutation
    <3> QED BY <3>1, Answering, Adding DEF _dispatch_bulk_via_spec, render_spec_output
  <2>2. CASE Over("http") /\ ~Bulk
    <3>1. render_mutation_response
      BY <2>2 DEF RenderMutation
    <3>2. CASE value = None /\ ~RendersRow
      BY <3>1, <3>2, Answering DEF render_mutation_response
    <3>3. CASE value # None /\ ~Serializer
      BY <3>1, <3>3, Answering DEF render_mutation_response
    <3>4. CASE ~(value = None /\ ~RendersRow) /\ ~(value # None /\ ~Serializer)
      BY <3>1, <3>4, Adding DEF render_mutation_response, render_spec_output
    <3> QED BY <3>2, <3>3, <3>4
  <2>3. CASE ~Over("http") /\ none
    BY <2>3, Answering DEF RenderMutation
  <2>4. CASE ~Over("http") /\ ~none
    BY <2>4, Adding DEF RenderMutation, render_spec_output
  <2> QED BY <2>1, <2>2, <2>3, <2>4
<1> QED BY <1>1, <1>2 DEF Presents

LEMMA RenderReadPresents == ASSUME RenderRead PROVE Presents
<1>1. UNCHANGED <<call, chosen, found, asked, ran>> /\ stage = "render"
  BY DEF RenderRead
<1>2. stage' \in {"finalize", "failed"}
  <2>1. CASE target = "none" /\ Over("http")
    BY <2>1, Answering DEF RenderRead, _JsonNullResponse
  <2>2. CASE target # "none" /\ Over("http")
    <3>1. list_with_affordances
      BY <2>2 DEF RenderRead
    <3> QED BY <3>1, Adding DEF list_with_affordances, Crash, Fail
  <2>3. CASE target = "none" /\ ~Over("http")
    BY <2>3, Answering DEF RenderRead
  <2>4. CASE target # "none" /\ ~Over("http")
    BY <2>4, Adding DEF RenderRead, render_spec_output
  <2> QED BY <2>1, <2>2, <2>3, <2>4
<1> QED BY <1>1, <1>2 DEF Presents

LEMMA DRFRenderPresents == ASSUME DRFRender PROVE Presents
  BY Answering DEF DRFRender, Crash, Fail, Presents

LEMMA FinalizePresents == ASSUME Finalize PROVE Presents
  BY DEF Finalize, Crash, Fail, Goto, served, Presents

LEMMA Presenting ==
  ASSUME RenderMutation \/ RenderRead \/ DRFRender \/ Finalize
  PROVE  Presents
  BY RenderMutationPresents, RenderReadPresents, DRFRenderPresents, FinalizePresents

LEMMA PresentsIInv == ASSUME IInv, Presents PROVE IInv'
  BY LateStep DEF Presents, Admitted, IInv, Staged, Afterwards

LEMMA AnswerFailureIInv == ASSUME IInv, AnswerFailure PROVE IInv'
<1>1. UNCHANGED <<call, chosen, found, asked, ran>> /\ stage = "failed" /\ stage' = "answered"
  BY DEF AnswerFailure
<1> QED BY <1>1, LateStep DEF Admitted, IInv, Staged, Afterwards

LEMMA StutterIInv == ASSUME IInv, UNCHANGED vars PROVE IInv'
<1>1. UNCHANGED <<call, stage, chosen, spec, target, asked, ran>>
  BY DEF vars
<1>2. UNCHANGED <<AskedAt("view"), AskedAt("object"), OwnClasses>>
      /\ UNCHANGED Discriminates(View, call.action) /\ UNCHANGED <<Entry, View>>
  BY <1>1, SameSpec DEF AskedAt
<1>3. Made' /\ Accepted' /\ Chosen' /\ Served'
  BY <1>1, SameSpec DEF IInv, Accepted, Served
<1>4. Staged' /\ LeftToDRF' /\ ViewAsked' /\ RowAsked'
  BY <1>1, <1>2, SameSpec DEF IInv, Staged, LeftToDRF, ViewAsked, RowAsked, Selects
<1> QED BY <1>3, <1>4 DEF IInv

(* Every step preserves the invariant. *)
LEMMA NextIInv == IInv /\ [Next]_vars => IInv'
<1> SUFFICES ASSUME IInv, [Next]_vars PROVE IInv'
  OBVIOUS
<1>1. CASE Mount \/ Options \/ Discriminate \/ CheckPermissions
  BY <1>1, MountIInv, OptionsIInv, DiscriminateIInv, CheckPermissionsIInv
<1>2. CASE Unserved \/ ResolveVariant \/ ServeSpec \/ DRFRead
  BY <1>2, UnservedIInv, ResolveVariantIInv, ServeSpecIInv, DRFReadIInv
<1>3. CASE get_object \/ CheckRow \/ Compile \/ resolve_target \/ Miss \/ Guard
  BY <1>3, get_objectIInv, CheckRowIInv, CompileIInv, resolve_targetIInv, MissIInv, GuardIInv
<1>4. CASE Admit \/ RunPreconditions \/ Run \/ Output \/ ResolveStatus
  BY <1>4, AdmitIInv, RunPreconditionsIInv, RunIInv, OutputIInv, ResolveStatusIInv
<1>5. CASE RenderMutation \/ RenderRead \/ DRFRender \/ Finalize \/ AnswerFailure
  BY <1>5, Presenting, PresentsIInv, AnswerFailureIInv
<1>6. CASE Done \/ UNCHANGED vars
  BY <1>6, StutterIInv DEF Done
<1> QED BY <1>1, <1>2, <1>3, <1>4, <1>5, <1>6 DEF Next

LEMMA Always == Spec => []IInv
<1> QED BY InitIInv, NextIInv, PTL DEF Spec

(* No service runs and no read is rendered that the classes its spec       *)
(* declares were not asked of, as SpecRequest's GuardedByItsOwn says: over *)
(* every mount, by whatever entry, variant or fallback the spec is found,  *)
(* and of the row whichever lookup reads it.                               *)
THEOREM GuardHolds == Spec => []GuardedByItsOwn
<1>1. IInv => GuardedByItsOwn
  BY DeclaresOwn DEF IInv, GuardedByItsOwn, ViewAsked, RowAsked, Checked, Admitted
<1> QED BY <1>1, Always, PTL

-----------------------------------------------------------------------------
(* What a service acts on.                                                 *)

Validated(declared) == \E has, permissive : validate_service_spec(declared, has, permissive)

(* A mount validates the service it runs, whichever entry names it. *)
LEMMA MountValidates ==
  ASSUME WellRouted(call), Over("http"), Mountable(View), HasRow, Entry # None,
         Entry.is \in {"service", "polymorphic"}
  PROVE  IF Entry.is = "service" THEN Validated(Entry)
         ELSE \A variant \in Elements(Entry.specs) : Validated(variant)
<1>1. CASE View.base = "standalone"
  <2>1. Entry = View.spec /\ Entry.is = "service" /\ View.serves = call.action
    BY <1>1 DEF Entry, WellRouted, View, Over
  <2>2. CASE call.action \in Mutations
    BY <1>1, <2>1, <2>2 DEF Mountable, as_view, validate_mutation_view_spec, Validated
  <2>3. CASE call.action \notin Mutations
    BY <1>1, <2>1, <2>3
    DEF Mountable, as_view, validate_selector_view_spec, _validate_selector_action_spec
  <2> QED BY <2>2, <2>3
<1>2. CASE View.base = "viewset" /\ call.action # "custom"
  <2>1. call.action \in {"update", "partial_update", "destroy"}
    BY <1>2 DEF HasRow, has_instance
  <2>2. PICK key \in Mutations :
            key \in DOMAIN View.action_specs /\ Entry = View.action_specs[key]
    <3>1. Entry = resolve_action_spec_entry(View, call.action)
      BY <1>2 DEF Entry
    <3>2. \/ Entry = Get(View.action_specs, call.action)
          \/ Entry = Get(View.action_specs, "update")
      BY <3>1 DEF resolve_action_spec_entry, _ACTION_SPEC_FALLBACKS
    <3>3. PICK key \in {call.action, "update"} : Entry = Get(View.action_specs, key)
      BY <3>2
    <3>4. key \in DOMAIN View.action_specs /\ Entry = View.action_specs[key]
      BY <3>3 DEF Get
    <3> QED BY <2>1, <3>3, <3>4 DEF Mutations
  <2>3. _validate_mutation_action_spec(View, key, Entry)
    <3>1. _validate_action_spec(View, key, Entry)
      BY <1>2, <2>2 DEF Mountable, as_view
    <3>2. key \notin DOMAIN _SELECTOR_ACTION_KIND
      BY DEF Mutations, _SELECTOR_ACTION_KIND
    <3> QED BY <3>1, <3>2 DEF _validate_action_spec
  <2>4. CASE Entry.is = "service"
    BY <2>3, <2>4 DEF _validate_mutation_action_spec, Validated
  <2>5. CASE Entry.is = "polymorphic"
    BY <2>3, <2>5
    DEF _validate_mutation_action_spec, validate_polymorphic_service_spec, Validated
  <2> QED BY <2>4, <2>5
<1>3. CASE View.base = "plain" \/ (View.base = "viewset" /\ call.action = "custom")
  <2>1. Entry = View.stamped
    BY <1>3 DEF Entry
  <2>2. service_action(View)
    BY <2>1 DEF Mountable, as_view, Decorated
  <2>3. CASE Entry.is = "service"
    BY <2>1, <2>2, <2>3 DEF service_action, Validated
  <2>4. CASE Entry.is = "polymorphic"
    BY <2>1, <2>2, <2>4 DEF service_action, validate_polymorphic_service_spec, Validated
  <2> QED BY <2>3, <2>4
<1> QED BY <1>1, <1>2, <1>3 DEF WellRouted, View

(* So its row's lookup reads one row. *)
LEMMA LookupReadsARow ==
  ASSUME WellRouted(call), Over("http"), Mountable(View), HasRow,
         NEW declared, declared # None, declared.is = "service",
         \/ declared = Entry
         \/ Entry # None /\ Entry.is = "polymorphic" /\ declared \in Elements(Entry.specs),
         ~OnASet(declared), mutation_target_source(declared) # "get_object"
  PROVE  Target(declared) # None /\ Target(declared).kind = "retrieve"
<1>1. Validated(declared)
  BY MountValidates
<1>2. /\ declared.collection_selector_spec = None
      /\ declared.instance_selector_spec # None /\ declared.instance_selector_spec.selector # None
  BY DEF OnASet, mutation_target_source
<1>3. _lookup_selectors(declared) = {declared.instance_selector_spec}
  BY <1>2 DEF _lookup_selectors, Lookups
<1>4. Target(declared) = declared.instance_selector_spec
  BY <1>3 DEF Target
<1>5. declared.instance_selector_spec.kind = "retrieve"
  BY <1>1, <1>2 DEF Validated, validate_service_spec, _validate_instance_selector_spec
<1> QED BY <1>2, <1>4, <1>5

(* A row is found, but for one a retrieve selector may lack. *)
Excepted == RowSource(View) = "retrieve" /\ RowSpec.allow_none
Found == target \in {"row", "record"} \/ (target = "none" /\ Excepted)
Sought == target = "unset" /\ Target(spec) # None /\ Target(spec).kind = "retrieve"

(* A service that acts on its action's row has it, or looks one up. *)
OnARow == Over("http") /\ spec # None /\ IsService /\ HasRow /\ ~OnASet(spec)

RowInv ==
    /\ stage \in {"input", "service", "output", "status"} \/ ran > 0 => IsService
    /\ stage = "object" => target \in {"row", "record"}
    /\ OnARow =>
          /\ stage = "compile" => Found \/ Sought
          /\ stage = "lookup" => Sought
          /\ stage \in {"guard"} \cup Admitted \/ ran > 0 => Found

LEMMA InitRow == Init => RowInv
  BY DEF Init, RowInv, OnARow, Admitted

(* Where the spec is kept, so is what is said of it. *)
LEMMA SameRow ==
  ASSUME UNCHANGED <<call, chosen, spec>>
  PROVE  /\ UNCHANGED <<RowSpec, Bulk>>
         /\ OnARow' = OnARow /\ Excepted' = Excepted /\ IsService' = IsService
         /\ target' = target => Found' = Found /\ Sought' = Sought
  BY DEF RowSpec, Bulk, OnARow, Excepted, Found, Sought, IsService, HasRow, View, Over

(* A step that keeps the target keeps the invariant, unless it serves.     *)
LEMMA KeepsRow ==
  ASSUME IInv, RowInv, UNCHANGED <<call, chosen, spec, target>>,
         stage' \notin {"object", "compile", "lookup"},
         stage' \in {"guard"} \cup Admitted \/ ran' > 0 =>
             stage \in {"guard"} \cup Admitted \/ ran > 0,
         stage' \in {"input", "service", "output", "status"} \/ ran' > 0 => IsService
  PROVE  RowInv'
  BY SameRow DEF RowInv

LEMMA EarlyRow ==
  ASSUME ~(ran' > 0), stage' \notin {"object", "compile", "lookup", "guard"} \cup Admitted
  PROVE  RowInv'
  BY DEF RowInv, Admitted

LEMMA OffHTTPRow ==
  ASSUME ~(ran' > 0), stage' \notin {"object", "input", "service", "output", "status"}, ~OnARow'
  PROVE  RowInv'
  BY DEF RowInv

(* Nothing has run while the row is sought. *)
LEMMA NotRun ==
  ASSUME IInv, stage \notin Afterwards
  PROVE  ~(ran > 0)
  BY DEF IInv, Staged

LEMMA BeforeRow ==
  ASSUME IInv, RowInv, Mount \/ Options \/ Discriminate \/ Unserved \/ ResolveVariant
  PROVE  RowInv'
<1>1. ran' = ran /\ stage \in {"declared", "options", "mounted", "handler"}
  BY DEF Mount, Options, Discriminate, Unserved, ResolveVariant, served
<1>2. stage' \in {"refused", "options", "mounted", "handler", "failed"}
  <2>1. CASE Discriminate \/ ResolveVariant
    BY <1>1, <2>1, Discriminating DEF Discriminate, ResolveVariant
  <2>2. CASE Mount
    BY <2>2 DEF Mount, Goto
  <2>3. CASE Options
    BY <2>3 DEF Options, Goto, Crash, Fail
  <2>4. CASE Unserved
    BY <2>4 DEF Unserved, Crash, Fail
  <2> QED BY <2>1, <2>2, <2>3, <2>4
<1> QED BY <1>1, <1>2, NotRun, EarlyRow DEF Afterwards, Admitted

LEMMA AskRow == ASSUME IInv, RowInv, CheckPermissions PROVE RowInv'
<1>1. /\ UNCHANGED <<call, ran>> /\ stage = "mounted"
      /\ stage' \in {IF Over("http") THEN "handler" ELSE "compile", "failed"}
  BY DEF CheckPermissions, Ask, Goto, Fail, served
<1>2. ~(ran' > 0)
  BY <1>1, NotRun DEF Afterwards
<1>3. CASE Over("http")
  BY <1>1, <1>2, <1>3, EarlyRow DEF Admitted
<1>4. CASE ~Over("http")
  BY <1>1, <1>2, <1>4, OffHTTPRow DEF OnARow, Over
<1> QED BY <1>3, <1>4

LEMMA DRFRow == ASSUME IInv, RowInv, DRFRead PROVE RowInv'
<1>1. /\ ran' = ran /\ stage = "handler" /\ stage' \in {"get_object", "render", "failed"}
      /\ spec' = spec
  BY DEF DRFRead, Goto, Crash, Fail, served, found
<1>2. ~(ran' > 0)
  BY <1>1, NotRun DEF Afterwards
<1>3. call.action \in {"list", "retrieve"} /\ call' = call
  BY DEF DRFRead
<1>4. ~OnARow'
  BY <1>3 DEF OnARow, HasRow, has_instance
<1> QED BY <1>1, <1>2, <1>4, OffHTTPRow

LEMMA ServeRow == ASSUME IInv, RowInv, ServeSpec PROVE RowInv'
<1> DEFINE asService == spec'.is = "service"
           readsRow == asService /\ HasRow /\ mutation_target_source(spec') = "get_object"
<1>1. /\ UNCHANGED <<call, chosen, ran>> /\ stage = "handler" /\ Over("http")
      /\ target' = IF ~asService \/ (HasRow /\ ~OnASet(spec')) THEN "unset" ELSE "none"
      /\ stage' = IF readsRow THEN "get_object" ELSE "compile"
  BY DEF ServeSpec, Goto, served, IInv, Staged
<1>2. ~(ran' > 0)
  BY <1>1, NotRun DEF Afterwards
<1>3. IInv'
  BY ServeSpecIInv
<1>4. ASSUME OnARow', stage' = "compile" PROVE Sought'
  <2>1. /\ spec' # None /\ spec'.is = "service" /\ HasRow /\ ~OnASet(spec')
        /\ mutation_target_source(spec') # "get_object" /\ target' = "unset"
    BY <1>1, <1>4 DEF OnARow, IsService, HasRow, View
  <2>2. Made /\ Mountable(View)
    BY <1>1 DEF IInv, Accepted
  <2>3. FromEntry' /\ UNCHANGED <<Entry, Polymorphic, View>>
    BY <1>1, <1>3, <2>1 DEF IInv, Served, Entry, Polymorphic, View, Over
  <2>4. \/ spec' = Entry
        \/ Entry # None /\ Entry.is = "polymorphic" /\ spec' \in Elements(Entry.specs)
    <3>1. CASE spec' = Entry
      BY <3>1
    <3>2. CASE spec' # Entry
      <4>1. /\ Entry # None /\ Entry.is = "polymorphic"
            /\ chosen' \in DOMAIN Polymorphic.specs /\ spec' = Polymorphic.specs[chosen']
        BY <2>3, <3>2 DEF FromEntry
      <4>2. Polymorphic = Entry
        BY <1>1, <2>2, <4>1, MadeIsRouted, VariantsAreTheEntrys
      <4> QED BY <4>1, <4>2 DEF Elements
    <3> QED BY <3>1, <3>2
  <2>5. Target(spec') # None /\ Target(spec').kind = "retrieve"
    BY <1>1, <2>1, <2>2, <2>4, MadeIsRouted, LookupReadsARow
  <2> QED BY <2>1, <2>5 DEF Sought
<1> QED BY <1>1, <1>2, <1>4 DEF RowInv, Admitted

LEMMA ReadRow == ASSUME IInv, RowInv, get_object PROVE RowInv'
<1>1. /\ UNCHANGED <<call, chosen, spec, ran>> /\ stage = "get_object"
      /\ \/ stage' = "failed"
         \/ stage' = "compile" /\ target' = "none" /\ Excepted
         \/ stage' = "object" /\ target' \in {"row", "record"}
  BY DEF get_object, MissingRow, RowRaises, Goto, Crash, Fail, served, Excepted
<1>2. ~(ran' > 0)
  BY <1>1, NotRun DEF Afterwards
<1> QED BY <1>1, <1>2, SameRow DEF RowInv, Found, Admitted

LEMMA AskedRow == ASSUME IInv, RowInv, CheckRow PROVE RowInv'
<1>1. /\ UNCHANGED <<call, chosen, spec, target, ran>> /\ stage = "object"
      /\ stage' \in {IF spec = None THEN "render" ELSE "compile", "failed"}
  BY DEF CheckRow, Ask, Goto, Fail, found, served
<1>2. ~(ran' > 0)
  BY <1>1, NotRun DEF Afterwards
<1> QED BY <1>1, <1>2, SameRow DEF RowInv, Found, Admitted, OnARow

LEMMA CompileRow == ASSUME IInv, RowInv, Compile PROVE RowInv'
<1> DEFINE next == IF ~IsService \/ (target = "unset" /\ Target(spec) # None)
                          \/ spec.collection_selector_spec # None
                   THEN "lookup" ELSE "guard"
<1>1. /\ UNCHANGED <<call, chosen, spec, ran>> /\ stage = "compile"
      /\ stage' \in {next, "failed"}
      /\ target' = IF IsService /\ target = "unset" /\ Target(spec) = None THEN "none" ELSE target
  BY DEF Compile, Goto, Crash, Fail, served
<1>2. ~(ran' > 0)
  BY <1>1, NotRun DEF Afterwards
<1>3. OnARow => spec.collection_selector_spec = None
  BY DEF OnARow, OnASet
<1>4. ASSUME OnARow PROVE IF stage' = "lookup" THEN Sought' ELSE stage' = "guard" => Found'
  <2>1. Found \/ Sought
    BY <1>1, <1>4 DEF RowInv
  <2>2. IsService /\ spec.collection_selector_spec = None
    BY <1>3, <1>4 DEF OnARow
  <2> QED BY <1>1, <2>1, <2>2, SameRow DEF Sought, Found
<1> QED BY <1>1, <1>2, <1>4, SameRow DEF RowInv, Admitted

LEMMA FoundRow == ASSUME IInv, RowInv, resolve_target PROVE RowInv'
<1>1. /\ UNCHANGED <<call, chosen, spec, ran>> /\ stage = "lookup"
      /\ \/ stage' = "failed"
         \/ stage' = "guard" /\ target' \in (IF Sets THEN {"set"} ELSE {"row", "record"})
  BY DEF resolve_target, Goto, Crash, Raises, Fail, served
<1>2. ~(ran' > 0)
  BY <1>1, NotRun DEF Afterwards
<1>3. OnARow => ~Sets
  BY <1>1 DEF RowInv, OnARow, Sought, Sets, Lookup
<1> QED BY <1>1, <1>2, <1>3, SameRow DEF RowInv, Found, Admitted

LEMMA MissRow == ASSUME IInv, RowInv, Miss PROVE RowInv'
<1>1. UNCHANGED <<call, chosen, spec, ran>> /\ stage = "lookup"
  BY DEF Miss
<1>2. ~(ran' > 0)
  BY <1>1, NotRun DEF Afterwards
<1>3. CASE OnARow
  <2>1. Over("http") /\ IsService
    BY <1>3 DEF OnARow
  <2>2. stage' = "failed"
    BY <2>1 DEF Miss, Fail
  <2> QED BY <1>2, <2>2, EarlyRow DEF Admitted
<1>4. CASE ~OnARow
  <2>1. stage' \in {"render", "failed", "answered"}
    <3>1. CASE ~IsService /\ spec.allow_none
      BY <3>1 DEF Miss, Goto
    <3>2. CASE Over("http") /\ (IsService \/ ~spec.allow_none)
      BY <3>2 DEF Miss, Fail
    <3>3. CASE ~(~IsService /\ spec.allow_none) /\ ~(Over("http") /\ (IsService \/ ~spec.allow_none))
      BY <3>3 DEF Miss, Goto
    <3> QED BY <3>1, <3>2, <3>3
  <2>2. ~OnARow'
    BY <1>1, <1>4, SameRow
  <2> QED BY <1>2, <2>1, <2>2, OffHTTPRow
<1> QED BY <1>3, <1>4

(* What comes after the row is found keeps it. *)
LEMMA GuardRow == ASSUME IInv, RowInv, Guard PROVE RowInv'
<1>1. /\ UNCHANGED <<call, chosen, spec, target, ran>> /\ stage = "guard"
      /\ stage' \in {IF IsService THEN "input" ELSE "preconditions", "failed"}
  BY DEF Guard, Ask, Goto, Fail, found, served
<1>2. ~(ran' > 0)
  BY <1>1, NotRun DEF Afterwards
<1> QED BY <1>1, <1>2, KeepsRow DEF Admitted

LEMMA LateRow ==
  ASSUME IInv, RowInv, Admit \/ RunPreconditions \/ Run \/ Output \/ ResolveStatus
  PROVE  RowInv'
<1>1. UNCHANGED <<call, chosen, spec, target>> /\ stage \in Admitted
  BY DEF Admit, RunPreconditions, Run, Output, ResolveStatus, found, Admitted
<1>2. ASSUME Admit PROVE RowInv'
  <2>1. ran' = ran /\ stage = "input" /\ stage' \in {"preconditions", "failed"}
    BY <1>2 DEF Admit, Goto, Refuses, Fail, served
  <2> QED BY <1>1, <2>1, KeepsRow DEF Admitted, RowInv
<1>3. ASSUME RunPreconditions PROVE RowInv'
  <2>1. /\ ran' = ran /\ stage = "preconditions"
        /\ stage' \in {IF IsService THEN "service" ELSE "render", "failed"}
    BY <1>3 DEF RunPreconditions, Goto, Raises, Crash, Fail, served
  <2> QED BY <1>1, <2>1, KeepsRow DEF Admitted, RowInv
<1>4. ASSUME Run PROVE RowInv'
  <2>1. stage = "service" /\ stage' \in {"output", "failed"}
    BY <1>4 DEF Run, Goto, Raises, Crash, Fail
  <2> QED BY <1>1, <2>1, KeepsRow DEF Admitted, RowInv
<1>5. ASSUME Output \/ ResolveStatus PROVE RowInv'
  <2>1. ran' = ran /\ stage \in {"output", "status"} /\ stage' \in {"status", "render", "failed"}
    BY <1>5 DEF Output, ResolveStatus, Goto, Raises, Crash, Fail, served
  <2> QED BY <1>1, <2>1, KeepsRow DEF Admitted, RowInv
<1> QED BY <1>2, <1>3, <1>4, <1>5

LEMMA EndRow ==
  ASSUME IInv, RowInv, Presents \/ AnswerFailure \/ UNCHANGED vars
  PROVE  RowInv'
<1>1. CASE Presents
  <2>1. UNCHANGED <<call, chosen, spec, target>> /\ ran' = ran
        /\ stage \in Admitted /\ stage' \in {"finalize", "failed", "answered"}
    BY <1>1 DEF Presents, found, Admitted
  <2> QED BY <2>1, KeepsRow DEF RowInv
<1>2. CASE AnswerFailure
  <2>1. UNCHANGED <<call, chosen, spec, target>> /\ ran' = ran /\ stage' = "answered"
    BY <1>2 DEF AnswerFailure, found
  <2> QED BY <2>1, KeepsRow DEF RowInv, Admitted
<1>3. CASE UNCHANGED vars
  <2>1. UNCHANGED <<call, chosen, spec, target, ran, stage>>
    BY <1>3 DEF vars
  <2> QED BY <2>1, SameRow DEF RowInv
<1> QED BY <1>1, <1>2, <1>3

LEMMA NextRow == IInv /\ RowInv /\ [Next]_vars => RowInv'
<1> SUFFICES ASSUME IInv, RowInv, [Next]_vars PROVE RowInv'
  OBVIOUS
<1>1. CASE Mount \/ Options \/ Discriminate \/ Unserved \/ ResolveVariant
  BY <1>1, BeforeRow
<1>2. CASE CheckPermissions \/ ServeSpec \/ DRFRead
  BY <1>2, AskRow, ServeRow, DRFRow
<1>3. CASE get_object \/ CheckRow \/ Compile \/ resolve_target \/ Miss \/ Guard
  BY <1>3, ReadRow, AskedRow, CompileRow, FoundRow, MissRow, GuardRow
<1>4. CASE Admit \/ RunPreconditions \/ Run \/ Output \/ ResolveStatus
  BY <1>4, LateRow
<1>5. CASE RenderMutation \/ RenderRead \/ DRFRender \/ Finalize \/ AnswerFailure
  BY <1>5, Presenting, EndRow
<1>6. CASE Done \/ UNCHANGED vars
  BY <1>6, EndRow DEF Done
<1> QED BY <1>1, <1>2, <1>3, <1>4, <1>5, <1>6 DEF Next

(* A service that acts on the row of its action never runs without it, as  *)
(* MissIsNeverARow says: whether the view's lookup or the spec's reads it, *)
(* for the mount refuses a spec whose lookup reads a set.                  *)
THEOREM RowHolds == Spec => []MissIsNeverARow
<1>1. IInv /\ RowInv => MissIsNeverARow
  BY DEF IInv, Staged, RowInv, OnARow, Found, Excepted, MissIsNeverARow
<1>2. IInv /\ RowInv /\ [Next]_vars => RowInv'
  BY NextRow
<1> QED BY <1>1, <1>2, InitRow, Always, PTL DEF Spec

-----------------------------------------------------------------------------
(* What a refusal leaves as.                                               *)

(* The classes a class also is: two for a twin, itself alone for another. *)
LEMMA TwinBases ==
  /\ \A class : class \notin DOMAIN Twins => Bases(class) = {class}
  /\ Bases("InvalidArguments") = {"InvalidArguments", "KernelInvalidArguments", "ValidationError"}
  /\ Bases("NotPermitted") = {"NotPermitted", "KernelNotPermitted", "PermissionDenied"}
  /\ Bases("PrincipalUnavailable") =
        {"PrincipalUnavailable", "KernelPrincipalUnavailable", "PermissionDenied"}
  /\ Bases("DRFNotAuthenticated") =
        {"DRFNotAuthenticated", "KernelNotPermitted", "NotAuthenticated"}
  /\ Bases("DRFServiceValidationError") =
        {"DRFServiceValidationError", "ServiceValidationError", "ValidationError"}
  /\ DOMAIN Twins = {"InvalidArguments", "NotPermitted", "PrincipalUnavailable",
                     "DRFNotAuthenticated", "DRFServiceValidationError"}
  BY DEF Bases, Twins, InvalidArguments, NotPermitted, PrincipalUnavailable, DRFNotAuthenticated,
         DRFServiceValidationError

LEMMA DRFStatuses ==
  /\ DOMAIN DRF = {"ValidationError", "NotAuthenticated", "PermissionDenied", "NotFound",
                   "MethodNotAllowed", "Throttled", "_ConflictAPIException",
                   "_AdditionalInputAPIException", "_ServiceAPIException"}
  /\ \A class \in DOMAIN DRF : DRF[class] \in 400..599
  BY DEF DRF

(* A class raised is a refusal of it, which nothing was translated to. *)
LEMMA RaisedIsOriginal ==
  ASSUME NEW class \in RefusalClasses
  PROVE  /\ Raised(class) \in Original
         /\ Raised(class).class = class /\ Raised(class).from = None
<1> DEFINE status == IF Bases(class) \cap DOMAIN DRF = {} THEN 500
                     ELSE DRF[CHOOSE base \in Bases(class) : base \in DOMAIN DRF]
<1>1. status \in 400..599
  <2>1. CASE Bases(class) \cap DOMAIN DRF = {}
    BY <2>1
  <2>2. CASE Bases(class) \cap DOMAIN DRF # {}
    <3>1. (CHOOSE base \in Bases(class) : base \in DOMAIN DRF) \in DOMAIN DRF
      BY <2>2
    <3> QED BY <2>2, <3>1, DRFStatuses
  <2> QED BY <2>1, <2>2
<1>2. Raised(class) = [class |-> class, from |-> None, status |-> status]
  BY DEF Raised
<1> HIDE DEF status
<1> QED BY <1>1, <1>2 DEF Original

(* And answered with its class's status where it is one of DRF's. *)
LEMMA RaisedStatus ==
  ASSUME NEW class \in DOMAIN DRF
  PROVE  Raised(class).status = DRF[class]
<1>1. class \notin DOMAIN Twins
  BY DRFStatuses, TwinBases
<1>2. Bases(class) = {class}
  BY <1>1, TwinBases
<1>3. (CHOOSE base \in Bases(class) : base \in DOMAIN DRF) = class
  BY <1>2
<1> QED BY <1>2, <1>3 DEF Raised

LEMMA TwinStatus == Raised("DRFServiceValidationError").status = 400
<1>1. Bases("DRFServiceValidationError") \cap DOMAIN DRF = {"ValidationError"}
  BY TwinBases, DRFStatuses
<1>2. (CHOOSE base \in Bases("DRFServiceValidationError") : base \in DOMAIN DRF) = "ValidationError"
  BY <1>1
<1> QED BY <1>1, <1>2 DEF Raised, DRF

(* What the translations make of an author's refusal. *)
LEMMA RaisedIsSomething == ASSUME NEW refusal \in Original PROVE refusal # None
  BY NoneAssumption

(* The class of a refusal says what it is: one of DRF's is a ServiceError  *)
(* only as translate_drf_refusals makes it.                                *)
LEMMA BothIsTheTwins ==
  ASSUME NEW refusal, ServiceError(refusal), APIException(refusal) \/ DispatchError(refusal)
  PROVE  refusal.class = "DRFServiceValidationError"
<1> USE DEF ServiceError, APIException, DispatchError, IsA
<1>1. CASE refusal.class \notin DOMAIN Twins
  <2>1. Bases(refusal.class) = {refusal.class}
    BY <1>1, TwinBases
  <2> QED BY <2>1, DRFStatuses DEF ServiceErrors, Kernel
<1>2. CASE refusal.class \in DOMAIN Twins
  BY <1>2, TwinBases, DRFStatuses DEF ServiceErrors, Kernel
<1> QED BY <1>1, <1>2

(* A twin keeps the status, and carries the refusal it stands for; what no *)
(* twin is built of leaves as it is.                                       *)
LEMMA TwinIsBuilt ==
  ASSUME NEW refusal \in Original, APIException(refusal), _built(refusal) # None
  PROVE  LET twin == translate_drf_refusals(refusal) IN
         /\ twin = [class |-> _built(refusal), status |-> refusal.status, from |-> refusal]
         /\ _built(refusal) \in {"DRFNotAuthenticated", "NotPermitted", "DRFServiceValidationError"}
         /\ twin \in Refusal /\ APIException(twin)
         /\ DispatchError(twin) \/ ServiceError(twin)
<1> DEFINE twin == [class |-> _built(refusal), status |-> refusal.status, from |-> refusal]
<1>1. translate_drf_refusals(refusal) = twin
  BY DEF translate_drf_refusals, _kernel_twin
<1>2. _built(refusal) \in {"DRFNotAuthenticated", "NotPermitted", "DRFServiceValidationError"}
  BY DEF _built
<1>3. twin \in Refusal
  BY <1>2, TwinBases DEF Refusal, Original, RefusalClasses
<1>4. APIException(twin) /\ (DispatchError(twin) \/ ServiceError(twin))
  <2>1. twin.class = _built(refusal)
    OBVIOUS
  <2>2. Bases(twin.class) \cap DOMAIN DRF # {}
    BY <1>2, <2>1, TwinBases, DRFStatuses
  <2>3. Bases(twin.class) \cap Kernel # {} \/ Bases(twin.class) \cap ServiceErrors # {}
    BY <1>2, <2>1, TwinBases DEF Kernel, ServiceErrors
  <2> QED BY <2>2, <2>3 DEF APIException, DispatchError, ServiceError, IsA
<1> QED BY <1>1, <1>2, <1>3, <1>4

LEMMA TranslatedIsTyped ==
  ASSUME NEW refusal \in Original
  PROVE  /\ translate_drf_refusals(refusal) \in Refusal
         /\ translate_drf_refusals(refusal).status = refusal.status
<1>1. CASE APIException(refusal) /\ _built(refusal) # None
  BY <1>1, TwinIsBuilt
<1>2. CASE ~(APIException(refusal) /\ _built(refusal) # None)
  <2>1. translate_drf_refusals(refusal) = refusal
    BY <1>2 DEF translate_drf_refusals, _kernel_twin
  <2> QED BY <2>1 DEF Original, Refusal
<1> QED BY <1>1, <1>2

(* The kernel's routes read what an author refuses a caller with. *)
LEMMA KernelReads ==
  ASSUME NEW refusal \in Original,
         IsA(refusal, {"ValidationError", "NotAuthenticated", "PermissionDenied"})
  PROVE  DispatchError(translate_drf_refusals(refusal)) \/ ServiceError(translate_drf_refusals(refusal))
<1>1. APIException(refusal)
  BY DRFStatuses DEF APIException, IsA
<1>2. CASE DispatchError(refusal) \/ ServiceError(refusal)
  BY <1>1, <1>2 DEF translate_drf_refusals, _kernel_twin, _built
<1>3. CASE ~(DispatchError(refusal) \/ ServiceError(refusal))
  <2>1. _built(refusal) \in {"DRFNotAuthenticated", "NotPermitted", "DRFServiceValidationError"}
    <3>1. \/ IsA(refusal, {"NotAuthenticated"}) \/ IsA(refusal, {"PermissionDenied"})
          \/ IsA(refusal, {"ValidationError"})
      BY DEF IsA
    <3> QED BY <1>3, <3>1 DEF _built
  <2>2. _built(refusal) # None
    BY <2>1, TwinBases, NoneAssumption DEF RefusalClasses
  <2> QED BY <1>1, <2>2, TwinIsBuilt
<1> QED BY <1>2, <1>3

(* The edge restores it: an author's DRF exception crosses the kernel as   *)
(* itself, and leaves under the wire's names where the input is named.     *)
Restored(refusal) ==
    IF APIException(refusal) THEN refusal ELSE translate_dispatch_errors(refusal)

LEMMA EdgeRestores ==
  ASSUME NEW refusal \in Original, NEW named
  PROVE  edge_errors(translate_drf_refusals(refusal), named) =
            IF named /\ ~IsA(Restored(refusal), {"InvalidArguments"})
                 /\ IsA(Restored(refusal), {"ServiceValidationError", "ValidationError"})
            THEN wire_named_error(Restored(refusal)) ELSE Restored(refusal)
<1>1. refusal # None /\ refusal.from = None
  BY RaisedIsSomething DEF Original
<1>2. PICK left : left = translate_drf_refusals(refusal)
  OBVIOUS
<1>3. (IF APIException(left) /\ left.from # None THEN left.from ELSE translate_dispatch_errors(left))
          = Restored(refusal)
  <2>1. CASE APIException(refusal) /\ _built(refusal) # None
    <3>1. APIException(left) /\ left.from = refusal
      BY <1>2, <2>1, TwinIsBuilt
    <3> QED BY <1>1, <2>1, <3>1 DEF Restored
  <2>2. CASE APIException(refusal) /\ _built(refusal) = None
    <3>1. left = refusal
      BY <1>2, <2>2 DEF translate_drf_refusals, _kernel_twin
    <3>2. refusal.class \notin Kernel
      BY <2>2, TwinBases, DRFStatuses DEF APIException, IsA, Kernel
    <3>3. translate_dispatch_errors(refusal) = refusal
      BY <2>2, <3>2 DEF translate_dispatch_errors, _drf_twin, Kernel
    <3> QED BY <1>1, <2>2, <3>1, <3>3 DEF Restored
  <2>3. CASE ~APIException(refusal)
    <3>1. left = refusal
      BY <1>2, <2>3 DEF translate_drf_refusals
    <3> QED BY <2>3, <3>1 DEF Restored
  <2> QED BY <2>1, <2>2, <2>3
<1>4. edge_errors(left, named) =
          IF named /\ ~IsA(Restored(refusal), {"InvalidArguments"})
               /\ IsA(Restored(refusal), {"ServiceValidationError", "ValidationError"})
          THEN wire_named_error(Restored(refusal)) ELSE Restored(refusal)
  BY <1>3 DEF edge_errors
<1> QED BY <1>2, <1>4

(* What the edge restores is the author's own, or a class raised anew. *)
LEMMA RestoredIsTyped ==
  ASSUME NEW refusal \in Original
  PROVE  /\ Restored(refusal) \in Original
         /\ APIException(refusal) \/ ServiceError(refusal) => Restored(refusal) = refusal
<1>1. \A class \in {"InvalidArguments", "NotPermitted", "PrincipalUnavailable"} :
          Raised(class) \in Original
  BY RaisedIsOriginal, TwinBases DEF RefusalClasses
<1>2. CASE APIException(refusal)
  BY <1>2 DEF Restored
<1>3. CASE ~APIException(refusal) /\ DispatchError(refusal)
  <2>1. ~ServiceError(refusal)
    <3>1. SUFFICES ASSUME ServiceError(refusal) PROVE FALSE
      OBVIOUS
    <3>2. refusal.class = "DRFServiceValidationError"
      BY <1>3, <3>1, BothIsTheTwins
    <3> QED BY <1>3, <3>2, TwinBases, DRFStatuses DEF APIException, IsA
  <2>2. Restored(refusal) = _drf_twin(refusal)
    BY <1>3 DEF Restored, translate_dispatch_errors
  <2>3. _drf_twin(refusal) \in Original
    BY <1>1, <1>3 DEF _drf_twin
  <2> QED BY <1>3, <2>1, <2>2, <2>3
<1>4. CASE ~APIException(refusal) /\ ~DispatchError(refusal)
  BY <1>4 DEF Restored, translate_dispatch_errors
<1> QED BY <1>2, <1>3, <1>4

LEMMA EdgeIsTyped ==
  ASSUME NEW refusal \in Original, NEW named
  PROVE  edge_errors(translate_drf_refusals(refusal), named) \in Original
<1>1. wire_named_error(Restored(refusal)) \in Original
  BY RaisedIsOriginal, DRFStatuses DEF wire_named_error, RefusalClasses, ServiceErrors
<1> QED BY <1>1, EdgeRestores, RestoredIsTyped

(* What a view's except ServiceError answers, by the refusal's class. *)
StatusOf(refusal) ==
    CASE IsA(refusal, {"ServiceValidationError"}) -> 400
      [] refusal.class = "ServiceNotFound" -> 404
      [] refusal.class \in {"ServiceConflict", "ActionUnavailable"} -> 409
      [] OTHER -> 422

LEMMA MappedStatus ==
  ASSUME NEW refusal, ServiceError(refusal)
  PROVE  /\ Mapped(refusal) \in Original
         /\ Mapped(refusal).status = StatusOf(refusal)
<1>1. Mapped(refusal) = map_service_error(refusal)
  BY DEF Mapped
<1>2. \A class \in DOMAIN DRF : Raised(class) \in Original /\ Raised(class).status = DRF[class]
  BY RaisedIsOriginal, RaisedStatus DEF RefusalClasses
<1>3. /\ DRF["ValidationError"] = 400 /\ DRF["NotFound"] = 404 /\ DRF["_ConflictAPIException"] = 409
      /\ DRF["_AdditionalInputAPIException"] = 422 /\ DRF["_ServiceAPIException"] = 422
  BY DEF DRF
<1>4. CASE IsA(refusal, {"ServiceValidationError"})
  <2>1. refusal.class \in {"ServiceValidationError", "DRFServiceValidationError"}
    BY <1>4, TwinBases DEF IsA
  <2>2. map_service_error(refusal) = Raised("ValidationError") /\ StatusOf(refusal) = 400
    BY <1>4, <2>1 DEF map_service_error, StatusOf
  <2> QED BY <1>1, <1>2, <1>3, <2>2, DRFStatuses
<1>5. CASE ~IsA(refusal, {"ServiceValidationError"}) /\ refusal.class = "ServiceNotFound"
  <2>1. map_service_error(refusal) = Raised("NotFound") /\ StatusOf(refusal) = 404
    BY <1>5 DEF map_service_error, StatusOf
  <2> QED BY <1>1, <1>2, <1>3, <2>1, DRFStatuses
<1>6. CASE ~IsA(refusal, {"ServiceValidationError"})
               /\ refusal.class \in {"ServiceConflict", "ActionUnavailable"}
  <2>1. map_service_error(refusal) = Raised("_ConflictAPIException") /\ StatusOf(refusal) = 409
    BY <1>6 DEF map_service_error, StatusOf
  <2> QED BY <1>1, <1>2, <1>3, <2>1, DRFStatuses
<1>7. CASE ~IsA(refusal, {"ServiceValidationError"})
               /\ refusal.class \notin {"ServiceNotFound", "ServiceConflict", "ActionUnavailable"}
  <2>1. map_service_error(refusal)
            \in {Raised("_AdditionalInputAPIException"), Raised("_ServiceAPIException")}
        /\ StatusOf(refusal) = 422
    BY <1>7 DEF map_service_error, StatusOf
  <2> QED BY <1>1, <1>2, <1>3, <2>1, DRFStatuses
<1> QED BY <1>4, <1>5, <1>6, <1>7

(* What a mutation's dispatch raises leaves with the status of its class,  *)
(* whatever the wire renames.                                              *)
LEMMA EdgeThenMapped ==
  ASSUME NEW refusal \in Original, NEW named, ServiceError(refusal)
  PROVE  Mapped(edge_errors(translate_drf_refusals(refusal), named)).status = StatusOf(refusal)
<1>1. Restored(refusal) = refusal
  BY RestoredIsTyped
<1>2. PICK edge : edge = edge_errors(translate_drf_refusals(refusal), named)
  OBVIOUS
<1>3. CASE edge = refusal
  BY <1>2, <1>3, MappedStatus
<1>4. CASE edge # refusal
  <2>1. IsA(refusal, {"ServiceValidationError", "ValidationError"})
        /\ edge = wire_named_error(refusal)
    BY <1>1, <1>2, <1>4, EdgeRestores
  <2>2. IsA(refusal, {"ServiceValidationError"})
    <3>1. CASE APIException(refusal)
      <4>1. refusal.class = "DRFServiceValidationError"
        BY <3>1, BothIsTheTwins
      <4> QED BY <4>1, TwinBases DEF IsA
    <3>2. CASE ~APIException(refusal)
      BY <2>1, <3>2, DRFStatuses DEF APIException, IsA
    <3> QED BY <3>1, <3>2
  <2>3. edge.class = "ServiceValidationError"
    BY <2>1, <2>2 DEF wire_named_error, Raised
  <2>4. ServiceError(edge) /\ IsA(edge, {"ServiceValidationError"})
    BY <2>3, TwinBases DEF ServiceError, IsA, ServiceErrors
  <2>5. StatusOf(edge) = 400
    BY <2>3, <2>4 DEF StatusOf
  <2>6. StatusOf(refusal) = 400
    <3>1. refusal.class \in {"ServiceValidationError", "DRFServiceValidationError"}
      BY <2>2, TwinBases DEF IsA
    <3> QED BY <2>2, <3>1 DEF StatusOf
  <2> QED BY <1>2, <2>4, <2>5, <2>6, MappedStatus
<1> QED BY <1>3, <1>4

-----------------------------------------------------------------------------
(* A refusal keeps its status.                                             *)

(* What RefusalKeepsItsStatus says of a failure, of its type. *)
Kept(at, raised, as) ==
    /\ APIException(raised) /\ ~Renamed(raised) => as.status = raised.status
    /\ Over("kernel") /\ IsA(raised, {"ValidationError", "NotAuthenticated", "PermissionDenied"})
          => DispatchError(as) \/ ServiceError(as)
    /\ Over("http") /\ ServiceError(raised)
          /\ (at = "discriminator" \/ (spec # None /\ IsService /\ at # "get_object")) =>
          as.status = StatusOf(raised)

Sound(at, raised, as) ==
    at \in Places /\ raised \in Original /\ as \in Refusal /\ Kept(at, raised, as)

IsSound(left) ==
    \E at, raised, as : left = [at |-> at, raised |-> raised, as |-> as] /\ Sound(at, raised, as)

LEMMA SoundFailure ==
  ASSUME NEW left, IsSound(left)
  PROVE  left \in Failure /\ left # None /\ Kept(left.at, left.raised, left.as)
<1>1. PICK at, raised, as :
          left = [at |-> at, raised |-> raised, as |-> as] /\ Sound(at, raised, as)
  BY DEF IsSound
<1>2. left \in Failure
  BY <1>1 DEF Failure, Sound
<1>3. Kept(left.at, left.raised, left.as)
  BY <1>1 DEF Sound
<1> QED BY <1>2, <1>3, NoneAssumption

(* What the code's misuse raises leaves as itself. *)
Plain == Misuse \cup {"crash", "NotFound", "MethodNotAllowed"}

LEMMA SelfIsSound ==
  ASSUME NEW class \in Plain, NEW at \in Places
  PROVE  Sound(at, Raised(class), Raised(class))
<1>1. Raised(class) \in Original /\ Raised(class).class = class
  BY RaisedIsOriginal, DRFStatuses DEF Plain, RefusalClasses
<1>2. Bases(class) = {class}
  BY TwinBases DEF Plain, Misuse
<1>3. /\ ~IsA(Raised(class), {"ValidationError", "NotAuthenticated", "PermissionDenied"})
      /\ ~ServiceError(Raised(class))
  BY <1>1, <1>2 DEF IsA, ServiceError, ServiceErrors, Plain, Misuse
<1>4. Raised(class) \in Refusal
  BY <1>1 DEF Refusal, Original
<1> QED BY <1>1, <1>3, <1>4 DEF Sound, Kept

LEMMA CrashIsSound ==
  ASSUME NEW class \in Plain, NEW at \in Places, Crash(at, class)
  PROVE  stage' = "failed" /\ IsSound(failure')
  BY SelfIsSound DEF Crash, Fail, IsSound

(* An author's refusal. *)
Authored(refusal) ==
    /\ refusal \in Original
    /\ refusal.class = "DRFServiceValidationError" => refusal.status = 400

LEMMA AuthorsRaise == ASSUME Made, NEW refusal \in call.raises PROVE Authored(refusal)
<1>1. RaisedByAuthors(call)
  BY CallsAssumption DEF Made
<1> QED BY <1>1, TwinStatus DEF RaisedByAuthors, Authored

(* One that is a ServiceError and DRF's is a service's validation error.   *)
LEMMA BothStatus ==
  ASSUME NEW refusal, Authored(refusal), APIException(refusal), ServiceError(refusal)
  PROVE  refusal.status = 400 /\ StatusOf(refusal) = 400
<1>1. refusal.class = "DRFServiceValidationError"
  BY BothIsTheTwins
<1>2. IsA(refusal, {"ServiceValidationError"})
  BY <1>1, TwinBases DEF IsA
<1> QED BY <1>1, <1>2 DEF Authored, StatusOf

(* Out of dispatch. *)
LEMMA LeavesSound ==
  ASSUME NEW refusal, Authored(refusal), spec # None, NEW at \in Places \ {"discriminator"}
  PROVE  Sound(at, refusal, Leaves(translate_drf_refusals(refusal)))
<1>0. refusal \in Original /\ Original \subseteq Refusal
  BY DEF Authored, Original, Refusal
<1>a. PICK edge : edge = edge_errors(translate_drf_refusals(refusal), Named)
  OBVIOUS
<1>b. PICK as : as = Leaves(translate_drf_refusals(refusal))
  OBVIOUS
<1>1. edge \in Original
  BY <1>0, <1>a, EdgeIsTyped
<1>2. ASSUME APIException(refusal), ~Renamed(refusal), ~Over("kernel") PROVE edge = refusal
  <2>1. Restored(refusal) = refusal
    BY <1>0, <1>2, RestoredIsTyped
  <2>2. ~(Named /\ IsA(refusal, {"ServiceValidationError", "ValidationError"}))
    BY <1>2 DEF Renamed, IsA
  <2> QED BY <1>0, <1>a, <2>1, <2>2, EdgeRestores
<1>3. CASE Over("kernel")
  <2>1. as = translate_drf_refusals(refusal) /\ ~Over("http")
    BY <1>3, <1>b DEF Leaves, Over
  <2> QED BY <1>0, <1>b, <1>3, <2>1, TranslatedIsTyped, KernelReads DEF Sound, Kept
<1>4. CASE Over("http") /\ IsService
  <2>1. as = Mapped(edge) /\ ~Over("kernel")
    BY <1>4, <1>a, <1>b DEF Leaves, Over
  <2>2. as \in Original
    BY <1>1, <2>1, MappedStatus DEF Mapped
  <2>3. ASSUME APIException(refusal), ~Renamed(refusal) PROVE as.status = refusal.status
    <3>1. edge = refusal
      BY <1>2, <2>1, <2>3
    <3>2. CASE ServiceError(refusal)
      BY <2>1, <2>3, <3>1, <3>2, BothStatus, MappedStatus
    <3>3. CASE ~ServiceError(refusal)
      BY <2>1, <3>1, <3>3 DEF Mapped
    <3> QED BY <3>2, <3>3
  <2>4. ServiceError(refusal) => as.status = StatusOf(refusal)
    BY <1>0, <1>a, <2>1, EdgeThenMapped
  <2> QED BY <1>0, <1>b, <2>1, <2>2, <2>3, <2>4 DEF Sound, Kept
<1>5. CASE ~Over("kernel") /\ ~(Over("http") /\ IsService)
  <2>1. as = edge
    BY <1>5, <1>a, <1>b DEF Leaves
  <2> QED BY <1>0, <1>b, <1>1, <1>2, <1>5, <2>1 DEF Sound, Kept
<1> QED BY <1>3, <1>4, <1>5

LEMMA RaisesIsSound ==
  ASSUME Made, spec # None, NEW at \in Places \ {"discriminator"}, Raises(at)
  PROVE  stage' = "failed" /\ IsSound(failure')
<1>1. PICK refusal \in call.raises :
          Fail(at, refusal, Leaves(translate_drf_refusals(refusal)))
  BY DEF Raises
<1>2. Sound(at, refusal, Leaves(translate_drf_refusals(refusal)))
  BY AuthorsRaise, LeavesSound
<1> QED BY <1>1, <1>2 DEF Fail, IsSound

(* The kernel's own refusals cross as an author's would. *)
LEMMA RefusesIsSound ==
  ASSUME spec # None, NEW at \in Places \ {"discriminator"},
         NEW class \in {"KernelInvalidArguments", "ActionUnavailable"}, Refuses(at, class)
  PROVE  stage' = "failed" /\ IsSound(failure')
<1>1. Raised(class) \in Original /\ Raised(class).class = class
  BY RaisedIsOriginal DEF RefusalClasses, Kernel, ServiceErrors
<1>2. ~APIException(Raised(class))
  BY <1>1, TwinBases, DRFStatuses DEF APIException, IsA
<1>3. translate_drf_refusals(Raised(class)) = Raised(class)
  BY <1>2 DEF translate_drf_refusals
<1>4. Sound(at, Raised(class), Leaves(Raised(class)))
  BY <1>1, <1>3, LeavesSound DEF Authored
<1> QED BY <1>4 DEF Refuses, Fail, IsSound

(* A view's own selector raises what nothing maps. *)
LEMMA RowRaisesIsSound ==
  ASSUME Made, Over("http"), RowRaises
  PROVE  stage' = "failed" /\ IsSound(failure')
<1>1. PICK refusal \in call.raises :
          Fail("get_object", refusal, edge_errors(translate_drf_refusals(refusal), FALSE))
  BY DEF RowRaises
<1>2. refusal \in Original
  BY AuthorsRaise DEF Authored
<1>3. edge_errors(translate_drf_refusals(refusal), FALSE) = Restored(refusal)
  BY <1>2, EdgeRestores
<1>4. Restored(refusal) \in Original /\ (APIException(refusal) => Restored(refusal) = refusal)
  BY <1>2, RestoredIsTyped
<1>5. Restored(refusal) \in Refusal /\ "get_object" \in Places
  BY <1>4 DEF Original, Refusal, Places
<1>6. Sound("get_object", refusal, Restored(refusal))
  BY <1>2, <1>4, <1>5 DEF Sound, Kept, Over
<1> QED BY <1>1, <1>3, <1>6 DEF Fail, IsSound

LEMMA DiscriminatorIsSound ==
  ASSUME Made, Over("http"), resolve_polymorphic_service_spec
  PROVE  UNCHANGED <<stage, failure>> \/ (stage' = "failed" /\ UNCHANGED chosen /\ IsSound(failure'))
<1>1. ASSUME NEW refusal \in call.raises, Fail("discriminator", refusal, Mapped(refusal))
      PROVE  stage' = "failed" /\ IsSound(failure')
  <2>1. Authored(refusal) /\ refusal \in Original
    BY <1>1, AuthorsRaise DEF Authored
  <2>2. Mapped(refusal) \in Original /\ (ServiceError(refusal) => Mapped(refusal).status = StatusOf(refusal))
    BY <2>1, MappedStatus DEF Mapped
  <2>3. Mapped(refusal) \in Refusal /\ "discriminator" \in Places
    BY <2>2 DEF Original, Refusal, Places
  <2>4. APIException(refusal) => Mapped(refusal).status = refusal.status
    BY <2>1, <2>2, BothStatus DEF Mapped
  <2>5. Sound("discriminator", refusal, Mapped(refusal))
    BY <2>1, <2>2, <2>3, <2>4 DEF Sound, Kept, Over
  <2> QED BY <1>1, <2>5 DEF Fail, IsSound
<1>2. ASSUME Crash("discriminator", "ImproperlyConfigured")
      PROVE  stage' = "failed" /\ IsSound(failure')
  BY <1>2, CrashIsSound DEF Plain, Misuse, Places
<1> QED BY <1>1, <1>2 DEF resolve_polymorphic_service_spec

LEMMA AskIsSound ==
  ASSUME Made, NEW level, NEW next, Ask(level, next)
  PROVE  (stage' = next /\ UNCHANGED failure) \/ (stage' = "failed" /\ IsSound(failure'))
<1>1. ASSUME NEW refusal \in {Raised("NotAuthenticated"), Raised("PermissionDenied")}
                                 \cup {r \in call.raises : APIException(r)}
      PROVE  APIException(refusal) /\ Authored(refusal)
  <2>1. CASE refusal \in call.raises /\ APIException(refusal)
    BY <2>1, AuthorsRaise
  <2>2. ASSUME NEW class \in {"NotAuthenticated", "PermissionDenied"}
        PROVE  APIException(Raised(class)) /\ Authored(Raised(class))
    <3>1. Raised(class) \in Original /\ Raised(class).class = class
      BY RaisedIsOriginal, DRFStatuses DEF RefusalClasses
    <3> QED BY <3>1, TwinBases, DRFStatuses DEF APIException, IsA, Authored
  <2> QED BY <1>1, <2>1, <2>2
<1>2. ASSUME NEW refusal, APIException(refusal), Authored(refusal)
      PROVE  Sound("permission", refusal,
                   IF Over("kernel") THEN translate_drf_refusals(refusal) ELSE refusal)
  <2>1. refusal \in Original /\ refusal \in Refusal /\ "permission" \in Places
    BY <1>2 DEF Authored, Original, Refusal, Places
  <2>2. ServiceError(refusal) => refusal.status = StatusOf(refusal)
    BY <1>2, BothStatus
  <2>3. CASE Over("kernel")
    BY <1>2, <2>1, <2>3, TranslatedIsTyped, KernelReads DEF Sound, Kept, Over
  <2>4. CASE ~Over("kernel")
    BY <2>1, <2>2, <2>4 DEF Sound, Kept
  <2> QED BY <2>3, <2>4
<1>3. CASE Goto(next)
  BY <1>3 DEF Goto
<1>4. CASE ~Goto(next)
  <2>1. PICK refusal \in {Raised("NotAuthenticated"), Raised("PermissionDenied")}
                             \cup {r \in call.raises : APIException(r)} :
            Fail("permission", refusal,
                 IF Over("kernel") THEN translate_drf_refusals(refusal) ELSE refusal)
    BY <1>4 DEF Ask
  <2> QED BY <1>1, <1>2, <2>1 DEF Fail, IsSound
<1> QED BY <1>3, <1>4

(* What is raised is sound, and kept to the end.  Off HTTP the spec that   *)
(* runs is the one the transport was given.                                *)
SoundInv ==
    /\ failure # None => stage \in {"failed", "answered"} /\ IsSound(failure)
    /\ stage = "failed" => failure # None
    /\ ~Over("http") /\ stage # "declared" => spec = View.spec

SoundStep ==
    /\ stage \notin {"failed", "answered"}
    /\ \/ stage' # "failed" /\ UNCHANGED failure
       \/ stage' = "failed" /\ IsSound(failure') /\ UNCHANGED <<call, spec>>

LEMMA Dispatching ==
  ASSUME IInv, SoundInv, stage \in {"lookup", "input", "preconditions", "service", "output"}
  PROVE  spec # None
<1>1. CASE Over("http")
  BY <1>1 DEF IInv, LeftToDRF, Checked, Admitted
<1>2. CASE ~Over("http")
  BY <1>2, MadeIsRouted DEF IInv, WellRouted, SoundInv, Over, View
<1> QED BY <1>1, <1>2

LEMMA BeforeIsSound ==
  ASSUME IInv, Mount \/ Options \/ Discriminate \/ CheckPermissions \/ Unserved \/ ResolveVariant
                   \/ ServeSpec \/ DRFRead
  PROVE  SoundStep
<1> USE DEF SoundStep, found, served
<1>0. Made
  BY DEF IInv
<1>1. CASE Mount
  BY <1>1 DEF Mount, Goto
<1>2. CASE Options
  BY <1>2, CrashIsSound DEF Options, Goto, Plain, Places
<1>3. CASE Discriminate
  BY <1>0, <1>3, DiscriminatorIsSound DEF Discriminate
<1>4. CASE CheckPermissions
  BY <1>0, <1>4, AskIsSound DEF CheckPermissions
<1>5. CASE Unserved
  <2>1. stage = "handler" /\ UNCHANGED <<call, spec>>
    BY <1>5 DEF Unserved
  <2>2. \/ LET r == Raised("MethodNotAllowed") IN Fail("handler", r, r)
        \/ \E class \in Misuse : Crash("handler", class)
    BY <1>5 DEF Unserved, Misuse
  <2>3. stage' = "failed" /\ IsSound(failure')
    BY <2>2, CrashIsSound DEF Crash, Plain, Places
  <2> QED BY <2>1, <2>3
<1>6. CASE ResolveVariant
  <2>1. /\ stage = "handler" /\ Over("http") /\ spec = None /\ UNCHANGED call
        /\ spec' = IF chosen' = 0 THEN None ELSE Polymorphic.specs[chosen']
    BY <1>6 DEF ResolveVariant, IInv, Staged
  <2>2. CASE chosen = 0
    <3>1. resolve_polymorphic_service_spec
      BY <1>6, <2>2 DEF ResolveVariant, Cached
    <3> QED BY <1>0, <2>1, <2>2, <3>1, DiscriminatorIsSound
  <2>3. CASE chosen # 0
    BY <1>6, <2>1, <2>3 DEF ResolveVariant, Cached
  <2> QED BY <2>2, <2>3
<1>7. CASE ServeSpec
  BY <1>7 DEF ServeSpec, Goto
<1>8. CASE DRFRead
  <2>1. CASE call.action = "retrieve"
    BY <1>8, <2>1 DEF DRFRead, Goto
  <2>2. CASE call.action = "list" /\ View.queryset
    BY <1>8, <2>2 DEF DRFRead, Goto
  <2>3. CASE call.action # "retrieve" /\ ~(call.action = "list" /\ View.queryset)
    BY <1>8, <2>3, CrashIsSound DEF DRFRead, Plain, Misuse, Places
  <2> QED BY <2>1, <2>2, <2>3
<1> QED BY <1>1, <1>2, <1>3, <1>4, <1>5, <1>6, <1>7, <1>8

LEMMA DispatchIsSound ==
  ASSUME IInv, SoundInv,
         get_object \/ CheckRow \/ Compile \/ resolve_target \/ Miss \/ Guard \/ Admit
             \/ RunPreconditions \/ Run \/ Output \/ ResolveStatus
  PROVE  SoundStep
<1> USE DEF SoundStep, found, served
<1>0. Made
  BY DEF IInv
<1>m. ASSUME NEW at \in Places, NEW class \in Misuse, Crash(at, class)
      PROVE  stage' = "failed" /\ IsSound(failure')
  BY <1>m, CrashIsSound DEF Plain
<1>1. CASE get_object
  <2>1. stage = "get_object" /\ UNCHANGED <<call, spec>> /\ Over("http")
    BY <1>1 DEF get_object, IInv, Staged
  <2>2. ASSUME Fail("get_object", Raised("NotFound"), Raised("NotFound"))
        PROVE  stage' = "failed" /\ IsSound(failure')
    BY <2>2, CrashIsSound DEF Crash, Plain, Places
  <2>3. \/ stage' \in {"object", "compile"} /\ UNCHANGED failure
        \/ Fail("get_object", Raised("NotFound"), Raised("NotFound"))
        \/ RowRaises \/ \E at \in Places, class \in Misuse : Crash(at, class)
    BY <1>1 DEF get_object, MissingRow, Goto, Places, Misuse
  <2> QED BY <1>0, <1>m, <2>1, <2>2, <2>3, RowRaisesIsSound
<1>2. CASE CheckRow
  BY <1>0, <1>2, AskIsSound DEF CheckRow, Goto
<1>3. CASE Compile
  BY <1>m, <1>3 DEF Compile, Goto, Places, Misuse
<1>4. CASE resolve_target
  <2>1. stage = "lookup" /\ UNCHANGED <<call, spec>>
    BY <1>4 DEF resolve_target
  <2>2. (stage' = "guard" /\ UNCHANGED failure) \/ Crash("lookup", "TypeError") \/ Raises("lookup")
    BY <1>4 DEF resolve_target, Goto
  <2> QED BY <1>0, <1>m, <2>1, <2>2, Dispatching, RaisesIsSound DEF Places, Misuse
<1>5. CASE Miss
  <2>1. stage = "lookup" /\ UNCHANGED <<call, spec>>
    BY <1>5 DEF Miss
  <2>2. \/ stage' \in {"render", "answered"} /\ UNCHANGED failure
        \/ Fail("lookup", Raised("NotFound"), Raised("NotFound"))
    BY <1>5 DEF Miss, Goto
  <2> QED BY <2>1, <2>2, CrashIsSound DEF Crash, Plain, Places
<1>6. CASE Guard
  BY <1>0, <1>6, AskIsSound DEF Guard, Goto
<1>7. CASE Admit
  <2>1. stage = "input" /\ UNCHANGED <<call, spec>>
    BY <1>7 DEF Admit
  <2>2. \/ stage' = "preconditions" /\ UNCHANGED failure
        \/ Refuses("input", "KernelInvalidArguments") \/ Refuses("affordance", "ActionUnavailable")
    BY <1>7 DEF Admit, Goto
  <2> QED BY <2>1, <2>2, Dispatching, RefusesIsSound DEF Places
<1>8. CASE RunPreconditions
  <2>1. stage = "preconditions" /\ UNCHANGED <<call, spec>>
    BY <1>8 DEF RunPreconditions
  <2>2. \/ stage' \in {"service", "render"} /\ UNCHANGED failure
        \/ Crash("precondition", "TypeError") \/ Raises("precondition")
    BY <1>8 DEF RunPreconditions, Goto
  <2> QED BY <1>0, <1>m, <2>1, <2>2, Dispatching, RaisesIsSound DEF Places, Misuse
<1>9. CASE Run
  <2>1. stage = "service" /\ UNCHANGED <<call, spec>>
    BY <1>9 DEF Run
  <2>2. (stage' = "output" /\ UNCHANGED failure) \/ Crash("service", "TypeError") \/ Raises("service")
    BY <1>9 DEF Run, Goto
  <2> QED BY <1>0, <1>m, <2>1, <2>2, Dispatching, RaisesIsSound DEF Places, Misuse
<1>10. CASE Output
  <2>1. stage = "output" /\ UNCHANGED <<call, spec>>
    BY <1>10 DEF Output
  <2>2. \/ stage' = "status" /\ UNCHANGED failure
        \/ \E class \in Misuse : Crash("output", class)
        \/ Raises("output")
    BY <1>10 DEF Output, Goto, Misuse
  <2> QED BY <1>0, <1>m, <2>1, <2>2, Dispatching, RaisesIsSound DEF Places
<1>11. CASE ResolveStatus
  BY <1>m, <1>11 DEF ResolveStatus, Goto, Places, Misuse
<1> QED BY <1>1, <1>2, <1>3, <1>4, <1>5, <1>6, <1>7, <1>8, <1>9, <1>10, <1>11

LEMMA AddsIsSound ==
  ASSUME NEW status, NEW serialized, add_affordances(status, serialized)
  PROVE  (stage' = "finalize" /\ UNCHANGED failure) \/ (stage' = "failed" /\ IsSound(failure'))
<1>1. CASE rendered_affordances = None
  BY <1>1 DEF add_affordances, Answered, Goto
<1>2. CASE rendered_affordances # None /\ _with_answers(serialized)
  BY <1>2 DEF add_affordances, Answered, Goto
<1>3. CASE rendered_affordances # None /\ ~_with_answers(serialized)
  BY <1>3, CrashIsSound DEF add_affordances, Plain, Misuse, Places
<1> QED BY <1>1, <1>2, <1>3

LEMMA RenderMutationRenders ==
  ASSUME RenderMutation
  PROVE  \E status : \/ \E body : Answered(status, body)
                     \/ \E serialized : add_affordances(status, serialized)
<1> USE DEF render_spec_output
<1>1. CASE Over("http") /\ Bulk
  BY <1>1 DEF RenderMutation, _dispatch_bulk_via_spec
<1>2. CASE Over("http") /\ ~Bulk
  <2>1. render_mutation_response
    BY <1>2 DEF RenderMutation
  <2>2. CASE value = None /\ ~RendersRow
    BY <2>1, <2>2 DEF render_mutation_response
  <2>3. CASE value # None /\ ~Serializer
    BY <2>1, <2>3 DEF render_mutation_response
  <2>4. CASE ~(value = None /\ ~RendersRow) /\ ~(value # None /\ ~Serializer)
    BY <2>1, <2>4 DEF render_mutation_response
  <2> QED BY <2>2, <2>3, <2>4
<1>3. CASE ~Over("http")
  <2>1. CASE value = None /\ (rendered_affordances = None \/ (Serializer /\ ~spec.many))
    BY <1>3, <2>1 DEF RenderMutation
  <2>2. CASE ~(value = None /\ (rendered_affordances = None \/ (Serializer /\ ~spec.many)))
    BY <1>3, <2>2 DEF RenderMutation
  <2> QED BY <2>1, <2>2
<1> QED BY <1>1, <1>2, <1>3

LEMMA AnswerIsSound ==
  ASSUME RenderMutation \/ RenderRead \/ DRFRender \/ Finalize
  PROVE  SoundStep
<1> USE DEF SoundStep, found, served
<1>1. ASSUME NEW status, NEW body, Answered(status, body) PROVE stage' = "finalize" /\ UNCHANGED failure
  BY <1>1 DEF Answered, Goto
<1>2. CASE RenderMutation
  BY <1>1, <1>2, RenderMutationRenders, AddsIsSound DEF RenderMutation
<1>3. CASE RenderRead
  <2>0. stage = "render" /\ UNCHANGED <<call, spec>>
    BY <1>3 DEF RenderRead
  <2>1. ASSUME list_with_affordances
        PROVE  (stage' = "finalize" /\ UNCHANGED failure) \/ (stage' = "failed" /\ IsSound(failure'))
    BY <2>1, AddsIsSound, CrashIsSound DEF list_with_affordances, Plain, Misuse, Places
  <2>2. CASE target = "none" /\ Over("http")
    BY <1>1, <1>3, <2>0, <2>2 DEF RenderRead, _JsonNullResponse
  <2>3. CASE target # "none" /\ Over("http")
    BY <1>3, <2>0, <2>1, <2>3 DEF RenderRead
  <2>4. CASE target = "none" /\ ~Over("http")
    BY <1>1, <1>3, <2>0, <2>4 DEF RenderRead
  <2>5. CASE target # "none" /\ ~Over("http")
    BY <1>3, <2>0, <2>5, AddsIsSound DEF RenderRead, render_spec_output
  <2> QED BY <2>2, <2>3, <2>4, <2>5
<1>4. CASE DRFRender
  BY <1>1, <1>4, CrashIsSound DEF DRFRender, Plain, Misuse, Places
<1>5. CASE Finalize
  BY <1>5, CrashIsSound DEF Finalize, Goto, Plain, Misuse, Places
<1> QED BY <1>2, <1>3, <1>4, <1>5

(* What is sound of a spec is, as long as that spec runs. *)
LEMMA KeepsSound ==
  ASSUME UNCHANGED <<call, spec>>, NEW at, NEW raised, NEW as, Sound(at, raised, as)
  PROVE  Sound(at, raised, as)'
<1>1. /\ \A surface : Over(surface)' = Over(surface)
      /\ IsService' = IsService /\ Renamed(raised)' = Renamed(raised)
  BY DEF Over, IsService, Renamed, Named
<1> QED BY <1>1 DEF Sound, Kept

LEMMA StepKeepsOffSpec ==
  ASSUME SoundInv, [Next]_vars, ~Over("http")', stage' # "declared", stage # "declared" => IInv
  PROVE  spec' = View.spec'
<1>1. UNCHANGED call
  BY DEF Next, vars, Mount, Options, Discriminate, CheckPermissions, Unserved, ResolveVariant,
         ServeSpec, DRFRead, get_object, CheckRow, Compile, resolve_target, Miss, Guard, Admit,
         RunPreconditions, Run, Output, ResolveStatus, RenderMutation, RenderRead, DRFRender,
         Finalize, AnswerFailure, Done
<1>2. UNCHANGED View /\ ~Over("http")
  BY <1>1 DEF View, Over
<1>3. CASE stage = "declared"
  <2>1. Mount
    BY <1>3 DEF Next, vars, Mount, Options, Discriminate, CheckPermissions, Unserved, ResolveVariant,
           ServeSpec, DRFRead, get_object, CheckRow, Compile, resolve_target, Miss, Guard, Admit,
           RunPreconditions, Run, Output, ResolveStatus, RenderMutation, RenderRead, DRFRender,
           Finalize, AnswerFailure, Done
  <2> QED BY <1>2, <2>1 DEF Mount
<1>4. CASE stage # "declared"
  <2>1. stage \notin {"handler", "get_object", "object"}
    BY <1>2, <1>4 DEF IInv, Staged
  <2>2. UNCHANGED spec
    BY <1>4, <2>1 DEF Next, vars, Mount, Options, Discriminate, CheckPermissions, Unserved,
           ResolveVariant, ServeSpec, DRFRead, get_object, CheckRow, Compile, resolve_target, Miss,
           Guard, Admit, RunPreconditions, Run, Output, ResolveStatus, RenderMutation, RenderRead,
           DRFRender, Finalize, AnswerFailure, Done, found
  <2> QED BY <1>2, <1>4, <2>2 DEF SoundInv
<1> QED BY <1>3, <1>4

LEMMA NextSound == IInv /\ SoundInv /\ [Next]_vars => SoundInv'
<1> SUFFICES ASSUME IInv, SoundInv, [Next]_vars PROVE SoundInv'
  OBVIOUS
<1>1. ASSUME ~Over("http")', stage' # "declared" PROVE spec' = View.spec'
  BY <1>1, StepKeepsOffSpec
<1>2. ASSUME UNCHANGED <<call, spec>>, IsSound(failure') PROVE IsSound(failure)' /\ failure' # None
  <2>1. PICK at, raised, as :
            failure' = [at |-> at, raised |-> raised, as |-> as] /\ Sound(at, raised, as)
    BY <1>2 DEF IsSound
  <2>2. Sound(at, raised, as)'
    BY <1>2, <2>1, KeepsSound
  <2>3. failure' # None
    BY <1>2, SoundFailure
  <2> QED BY <2>1, <2>2, <2>3 DEF IsSound
<1>3. ASSUME SoundStep PROVE SoundInv'
  BY <1>1, <1>2, <1>3 DEF SoundStep, SoundInv
<1>4. ASSUME UNCHANGED <<call, spec, failure>>, stage \in {"failed", "answered"} => stage' \in {"failed", "answered"},
             stage' = "failed" => stage = "failed"
      PROVE  SoundInv'
  BY <1>1, <1>2, <1>4 DEF SoundInv
<1>5. CASE Mount \/ Options \/ Discriminate \/ CheckPermissions \/ Unserved \/ ResolveVariant
               \/ ServeSpec \/ DRFRead
  BY <1>3, <1>5, BeforeIsSound
<1>6. CASE get_object \/ CheckRow \/ Compile \/ resolve_target \/ Miss \/ Guard \/ Admit
               \/ RunPreconditions \/ Run \/ Output \/ ResolveStatus
  BY <1>3, <1>6, DispatchIsSound
<1>7. CASE RenderMutation \/ RenderRead \/ DRFRender \/ Finalize
  BY <1>3, <1>7, AnswerIsSound
<1>8. CASE AnswerFailure
  BY <1>4, <1>8 DEF AnswerFailure, found
<1>9. CASE Done \/ UNCHANGED vars
  BY <1>4, <1>9 DEF Done, vars
<1> QED BY <1>5, <1>6, <1>7, <1>8, <1>9 DEF Next

LEMMA InitSound == Init => SoundInv
  BY DEF Init, SoundInv

LEMMA AlwaysSound == Spec => []SoundInv
  BY InitSound, NextSound, Always, PTL DEF Spec

(* A refusal is answered with the status its author gave it, whatever is   *)
(* raised and wherever, as RefusalKeepsItsStatus says.                     *)
THEOREM RefusalHolds == Spec => []RefusalKeepsItsStatus
<1>1. SoundInv => RefusalKeepsItsStatus
  <2> SUFFICES ASSUME SoundInv, failure # None PROVE Kept(failure.at, failure.raised, failure.as)
    BY DEF RefusalKeepsItsStatus, Kept, StatusOf
  <2> QED BY SoundFailure DEF SoundInv
<1> QED BY <1>1, AlwaysSound, PTL

-----------------------------------------------------------------------------
(* What is answered.                                                       *)

(* A step goes on, or leaves a failure behind. *)
IsFailure(left) == \E at, raised, as : left = [at |-> at, raised |-> raised, as |-> as]

Moves ==
    /\ stage \notin {"failed", "answered"}
    /\ \/ stage' # "failed" /\ UNCHANGED failure
       \/ stage' = "failed" /\ IsFailure(failure')

LEMMA FailMoves ==
  ASSUME NEW at, NEW raised, NEW as, Fail(at, raised, as)
  PROVE  stage' = "failed" /\ IsFailure(failure')
  BY DEF Fail, IsFailure

LEMMA CrashMoves ==
  ASSUME NEW at, NEW class, Crash(at, class)
  PROVE  stage' = "failed" /\ IsFailure(failure')
  BY FailMoves DEF Crash

LEMMA RaisesMoves == ASSUME NEW at, Raises(at) PROVE stage' = "failed" /\ IsFailure(failure')
  BY FailMoves DEF Raises

LEMMA AskMoves ==
  ASSUME NEW level, NEW next, Ask(level, next), next # "failed"
  PROVE  \/ stage' = next /\ UNCHANGED failure
         \/ stage' = "failed" /\ IsFailure(failure')
  BY FailMoves DEF Ask, Goto

LEMMA DiscriminatorMoves ==
  ASSUME resolve_polymorphic_service_spec
  PROVE  \/ UNCHANGED <<stage, failure>>
         \/ stage' = "failed" /\ IsFailure(failure')
  BY FailMoves, CrashMoves DEF resolve_polymorphic_service_spec

(* No answer is given before there is a value to render, but for a miss. *)
Early == Moves /\ stage' \notin {"finalize", "answered"} /\ UNCHANGED response

LEMMA BeforeMoves ==
  ASSUME Mount \/ Options \/ Discriminate \/ CheckPermissions \/ Unserved \/ ResolveVariant
             \/ ServeSpec \/ DRFRead
  PROVE  Early
<1> USE DEF Early, Moves, served
<1>1. CASE Mount
  BY <1>1 DEF Mount, Goto
<1>2. CASE Options
  BY <1>2, CrashMoves DEF Options, Goto
<1>3. CASE Discriminate
  BY <1>3, DiscriminatorMoves DEF Discriminate
<1>4. CASE CheckPermissions
  BY <1>4, AskMoves DEF CheckPermissions
<1>5. CASE Unserved
  BY <1>5, FailMoves, CrashMoves DEF Unserved
<1>6. CASE ResolveVariant
  BY <1>6, DiscriminatorMoves DEF ResolveVariant
<1>7. CASE ServeSpec
  BY <1>7 DEF ServeSpec, Goto
<1>8. CASE DRFRead
  <2>1. CASE call.action = "retrieve"
    BY <1>8, <2>1 DEF DRFRead, Goto
  <2>2. CASE call.action = "list" /\ View.queryset
    BY <1>8, <2>2 DEF DRFRead, Goto
  <2>3. CASE call.action # "retrieve" /\ ~(call.action = "list" /\ View.queryset)
    BY <1>8, <2>3, CrashMoves DEF DRFRead
  <2> QED BY <2>1, <2>2, <2>3
<1> QED BY <1>1, <1>2, <1>3, <1>4, <1>5, <1>6, <1>7, <1>8

LEMMA DispatchMoves ==
  ASSUME get_object \/ CheckRow \/ Compile \/ resolve_target \/ Guard \/ Admit
             \/ RunPreconditions \/ Run \/ Output \/ ResolveStatus
  PROVE  Early
<1> USE DEF Early, Moves, served
<1>1. CASE get_object
  <2>1. stage = "get_object" /\ UNCHANGED response
    BY <1>1 DEF get_object
  <2>2. \/ stage' \in {"object", "compile"} /\ UNCHANGED failure
        \/ stage' = "failed" /\ IsFailure(failure')
    BY <1>1, FailMoves, CrashMoves DEF get_object, MissingRow, RowRaises, Goto
  <2> QED BY <2>1, <2>2
<1>2. CASE CheckRow
  BY <1>2, AskMoves DEF CheckRow, Goto
<1>3. CASE Compile
  BY <1>3, CrashMoves DEF Compile, Goto
<1>4. CASE resolve_target
  BY <1>4, CrashMoves, RaisesMoves DEF resolve_target, Goto
<1>5. CASE Guard
  BY <1>5, AskMoves DEF Guard, Goto
<1>6. CASE Admit
  BY <1>6, FailMoves DEF Admit, Goto, Refuses
<1>7. CASE RunPreconditions
  BY <1>7, CrashMoves, RaisesMoves DEF RunPreconditions, Goto
<1>8. CASE Run
  BY <1>8, CrashMoves, RaisesMoves DEF Run, Goto
<1>9. CASE Output
  BY <1>9, CrashMoves, RaisesMoves DEF Output, Goto
<1>10. CASE ResolveStatus
  BY <1>10, CrashMoves DEF ResolveStatus, Goto
<1> QED BY <1>1, <1>2, <1>3, <1>4, <1>5, <1>6, <1>7, <1>8, <1>9, <1>10

LEMMA MissMoves ==
  ASSUME Miss
  PROVE  Moves /\ stage' # "finalize" /\ (stage' = "answered" => ~Over("http"))
<1>1. stage = "lookup"
  BY DEF Miss
<1>2. CASE ~IsService /\ spec.allow_none
  <2>1. stage' = "render" /\ UNCHANGED failure
    BY <1>2 DEF Miss, Goto
  <2> QED BY <1>1, <2>1 DEF Moves
<1>3. CASE Over("http") /\ (IsService \/ ~spec.allow_none)
  <2>1. stage' = "failed" /\ IsFailure(failure')
    BY <1>3, FailMoves DEF Miss
  <2> QED BY <1>1, <2>1 DEF Moves
<1>4. CASE ~(~IsService /\ spec.allow_none) /\ ~(Over("http") /\ (IsService \/ ~spec.allow_none))
  <2>1. stage' = "answered" /\ UNCHANGED failure
    BY <1>4 DEF Miss, Goto
  <2> QED BY <1>1, <1>4, <2>1 DEF Moves
<1> QED BY <1>2, <1>3, <1>4

(* An answer made, and one made of a value. *)
Makes(status, bodies) ==
    /\ stage' = "finalize" /\ UNCHANGED failure
    /\ response'.status = status /\ response'.body \in bodies

LEMMA AnsweredMakes ==
  ASSUME NEW status, NEW body, Answered(status, body) PROVE Makes(status, {body})
  BY DEF Answered, Goto, Makes

Breaks == stage' = "failed" /\ IsFailure(failure')

LEMMA AddsMakes ==
  ASSUME NEW status, NEW serialized, add_affordances(status, serialized)
  PROVE  Makes(status, {"value", "answers"}) \/ Breaks
<1>1. CASE rendered_affordances = None
  BY <1>1, AnsweredMakes DEF add_affordances, Makes
<1>2. CASE rendered_affordances # None /\ _with_answers(serialized)
  BY <1>2, AnsweredMakes DEF add_affordances, Makes
<1>3. CASE rendered_affordances # None /\ ~_with_answers(serialized)
  BY <1>3, CrashMoves DEF add_affordances, Breaks
<1> QED BY <1>1, <1>2, <1>3

(* A body is never a 204's. *)
LEMMA BodyStatus == ASSUME NEW status PROVE status_for_a_body(status) # 204
  BY DEF status_for_a_body

Agrees ==
    /\ response.status = 204 => response.body = "none"
    /\ response.body = "none" => response.status = 204 \/ Bulk \/ spec.success_status # None

LEMMA RenderMutationAgrees ==
  ASSUME RenderMutation
  PROVE  Breaks \/ (stage' = "finalize" /\ UNCHANGED failure /\ (Over("http") => Agrees'))
<1>0. UNCHANGED <<call, spec>>
  BY DEF RenderMutation, found
<1>1. Bulk' = Bulk
  BY <1>0 DEF Bulk, IsService
<1> DEFINE none == value = None /\ (rendered_affordances = None \/ (Serializer /\ ~spec.many))
<1>2. CASE Over("http") /\ Bulk
  <2>1. _dispatch_bulk_via_spec
    BY <1>2 DEF RenderMutation
  <2>2. CASE value = None
    <3>1. Makes(resolve_success_status, {"none"})
      BY <2>1, <2>2, AnsweredMakes DEF _dispatch_bulk_via_spec
    <3>2. response'.body = "none" /\ Bulk'
      BY <1>1, <1>2, <3>1 DEF Makes
    <3> QED BY <3>1, <3>2 DEF Makes, Agrees
  <2>3. CASE value # None
    BY <2>1, <2>3, AddsMakes, BodyStatus
    DEF _dispatch_bulk_via_spec, render_spec_output, Makes, Agrees
  <2> QED BY <2>2, <2>3
<1>3. CASE Over("http") /\ ~Bulk
  <2>1. render_mutation_response
    BY <1>3 DEF RenderMutation
  <2>2. CASE value = None /\ ~RendersRow
    <3>1. Makes(IF Rereads(spec) \/ spec.success_status = None THEN 204
                ELSE resolve_success_status, {"none"})
      BY <2>1, <2>2, AnsweredMakes DEF render_mutation_response
    <3> QED BY <1>0, <3>1 DEF Makes, Agrees
  <2>3. CASE value # None /\ ~Serializer
    BY <2>1, <2>3, AnsweredMakes, BodyStatus DEF render_mutation_response, Makes, Agrees
  <2>4. CASE ~(value = None /\ ~RendersRow) /\ ~(value # None /\ ~Serializer)
    BY <2>1, <2>4, AddsMakes, BodyStatus
    DEF render_mutation_response, render_spec_output, Makes, Agrees
  <2> QED BY <2>2, <2>3, <2>4
<1>4. CASE ~Over("http") /\ none
  BY <1>4, AnsweredMakes DEF RenderMutation, Makes
<1>5. CASE ~Over("http") /\ ~none
  BY <1>5, AddsMakes DEF RenderMutation, render_spec_output, Makes
<1> QED BY <1>2, <1>3, <1>4, <1>5

LEMMA RenderReadAgrees ==
  ASSUME RenderRead
  PROVE  Breaks \/ (stage' = "finalize" /\ UNCHANGED failure /\ (Over("http") => Agrees'))
<1>1. CASE target = "none" /\ Over("http")
  BY <1>1, AnsweredMakes DEF RenderRead, _JsonNullResponse, Makes, Agrees
<1>2. CASE target # "none" /\ Over("http")
  <2>1. list_with_affordances
    BY <1>2 DEF RenderRead
  <2>2. CASE Serializer \/ View.serializer_class
    <3>1. Makes(200, {"value", "answers"}) \/ Breaks
      BY <2>1, <2>2, AddsMakes DEF list_with_affordances
    <3> QED BY <3>1 DEF Makes, Agrees
  <2>3. CASE ~(Serializer \/ View.serializer_class)
    <3>1. Crash("render", "AssertionError")
      BY <2>1, <2>3 DEF list_with_affordances
    <3> QED BY <3>1, CrashMoves DEF Breaks
  <2> QED BY <2>2, <2>3
<1>3. CASE target = "none" /\ ~Over("http")
  BY <1>3, AnsweredMakes DEF RenderRead, Makes
<1>4. CASE target # "none" /\ ~Over("http")
  BY <1>4, AddsMakes DEF RenderRead, render_spec_output, Makes
<1> QED BY <1>1, <1>2, <1>3, <1>4

LEMMA DRFRenderAgrees ==
  ASSUME DRFRender
  PROVE  Breaks \/ (stage' = "finalize" /\ UNCHANGED failure /\ Agrees')
  BY AnsweredMakes, CrashMoves DEF DRFRender, Makes, Agrees, Breaks

(* A failure is kept, and an answer without one agrees with its status. *)
BodyInv ==
    /\ failure # None => stage \in {"failed", "answered"}
    /\ stage = "failed" => failure # None
    /\ Over("http") /\ (stage = "finalize" \/ (stage = "answered" /\ failure = None)) => Agrees

LEMMA NextBody ==
  ASSUME BodyInv, SoundInv', [Next]_vars
  PROVE  BodyInv'
<1>1. stage' = "failed" => failure' # None
  BY DEF SoundInv
<1>2. ASSUME Early PROVE BodyInv'
  BY <1>1, <1>2 DEF Early, Moves, BodyInv
<1>3. CASE Mount \/ Options \/ Discriminate \/ CheckPermissions \/ Unserved \/ ResolveVariant
               \/ ServeSpec \/ DRFRead
  BY <1>2, <1>3, BeforeMoves
<1>4. CASE get_object \/ CheckRow \/ Compile \/ resolve_target \/ Guard \/ Admit
               \/ RunPreconditions \/ Run \/ Output \/ ResolveStatus
  BY <1>2, <1>4, DispatchMoves
<1>5. CASE Miss
  <2>1. Over("http")' = Over("http")
    BY <1>5 DEF Miss, Over
  <2> QED BY <1>1, <1>5, <2>1, MissMoves DEF Moves, BodyInv
<1>6. CASE RenderMutation \/ RenderRead \/ DRFRender
  <2>1. stage = "render" /\ Over("http")' = Over("http")
    BY <1>6 DEF RenderMutation, RenderRead, DRFRender, Over
  <2>2. Breaks \/ (stage' = "finalize" /\ UNCHANGED failure /\ (Over("http") => Agrees'))
    BY <1>6, RenderMutationAgrees, RenderReadAgrees, DRFRenderAgrees
  <2> QED BY <1>1, <2>1, <2>2 DEF BodyInv, Breaks
<1>7. CASE Finalize
  <2>1. stage = "finalize" /\ UNCHANGED <<call, spec, response>>
    BY <1>7 DEF Finalize, found, served
  <2>2. Breaks \/ (stage' = "answered" /\ UNCHANGED failure)
    BY <1>7, CrashMoves DEF Finalize, Goto, Breaks
  <2>3. Agrees' = Agrees /\ Over("http")' = Over("http")
    BY <2>1 DEF Agrees, Bulk, IsService, Over
  <2> QED BY <1>1, <2>1, <2>2, <2>3 DEF BodyInv, Breaks
<1>8. CASE AnswerFailure
  BY <1>8 DEF AnswerFailure, BodyInv
<1>9. CASE Done \/ UNCHANGED vars
  <2>1. UNCHANGED <<call, spec, stage, failure, response>>
    BY <1>9 DEF Done, vars
  <2>2. Agrees' = Agrees /\ Over("http")' = Over("http")
    BY <2>1 DEF Agrees, Bulk, IsService, Over
  <2> QED BY <2>1, <2>2 DEF BodyInv
<1> QED BY <1>3, <1>4, <1>5, <1>6, <1>7, <1>8, <1>9 DEF Next

(* Over HTTP a 204 has no body, and an answer without one is a 204 unless  *)
(* the spec declares a status or takes rows, as BodyAgreesWithStatus says, *)
(* whatever status is declared.                                            *)
THEOREM BodyHolds == Spec => []BodyAgreesWithStatus
<1>1. Init => BodyInv
  BY DEF Init, BodyInv
<1>2. BodyInv /\ SoundInv' /\ [Next]_vars => BodyInv'
  BY NextBody
<1>3. BodyInv => BodyAgreesWithStatus
  BY DEF BodyInv, BodyAgreesWithStatus, Agrees
<1> QED BY <1>1, <1>2, <1>3, AlwaysSound, PTL DEF Spec

-----------------------------------------------------------------------------
(* What a permission class is handed.                                      *)

(* The call, as PermissionSeesTheCall has it. *)
Sees(pair) ==
    /\ pair.request \in {"drf", "copied", "synthesized"}
    /\ call.given.request = "plain" => pair.request # "synthesized"
    /\ Over("kernel") /\ pair.view = "offline" =>
          /\ Scopes \subseteq pair.kwargs \cup Routed(spec.reads, "query")
          /\ pair.request # "drf" => Scopes \subseteq pair.kwargs \cup pair.query
          /\ pair.kwargs \cap pair.query = {}

(* A read goes where one channel has it: its name is declared once. *)
LEMMA OneChannel ==
  ASSUME NEW reads, validate_reads([reads |-> reads])
  PROVE  Routed(reads, "url") \cap Routed(reads, "query") = {}
<1>1. \A i, j \in DOMAIN reads : reads[i].name = reads[j].name => i = j
  BY DEF validate_reads, Unique
<1>2. SUFFICES ASSUME NEW x \in Elements(reads), x.channel = "url",
                      NEW y \in Elements(reads), y.channel = "query", x.name = y.name
               PROVE  FALSE
  BY DEF Routed
<1>3. PICK i \in DOMAIN reads : x = reads[i]
  BY DEF Elements
<1>4. PICK j \in DOMAIN reads : y = reads[j]
  BY DEF Elements
<1> QED BY <1>1, <1>2, <1>3, <1>4

(* A call of the kernel's is of a spec its registry compiled. *)
Listed == Over("kernel") => Registered(spec) /\ spec.is \in {"service", "selector"}

(* What a class is handed now is the call. *)
LEMMA PairSees == ASSUME Listed PROVE Sees(Pair)
<1>1. CASE Over("http")
  BY <1>1 DEF Pair, Over, Sees
<1>2. CASE Over("edge")
  BY <1>2 DEF Pair, Over, Sees, build_offline_context, _copy_request, _synthesize_request
<1>3. CASE ~Over("http") /\ ~Over("edge")
  <2> DEFINE check == _permissions(spec)
             context == build_offline_context(call.given.request = "plain",
                            check.route_reads \cup check.url_kwargs, check.query_params)
             given == call.given
  <2>1. Pair = [context EXCEPT !.request = IF given.request = "drf" THEN "drf" ELSE @,
                               !.view = IF given.view THEN "given" ELSE @]
    BY <1>3 DEF Pair, _pair, _context
  <2>2. /\ Pair.request = IF given.request = "drf" THEN "drf" ELSE context.request
        /\ Pair.kwargs = check.route_reads \cup check.url_kwargs
        /\ Pair.query = check.query_params
    BY <2>1 DEF build_offline_context
  <2>3. context.request = IF call.given.request = "plain" THEN "copied" ELSE "synthesized"
    BY DEF build_offline_context, _copy_request, _synthesize_request
  <2>4. ASSUME Over("kernel")
        PROVE  /\ Scopes \subseteq Pair.kwargs \cup Routed(spec.reads, "query")
               /\ Scopes \subseteq Pair.kwargs \cup Pair.query
               /\ Pair.kwargs \cap Pair.query = {}
    <3>1. check # None /\ Built(spec) /\ spec.is \in {"service", "selector"}
      BY <2>4 DEF Listed, Registered
    <3>2. /\ check.url_kwargs = Routed(spec.reads, "url")
          /\ check.query_params = Routed(spec.reads, "query")
          /\ check.route_reads = _route_reads(spec) \ Routed(spec.reads, "query")
      BY <3>1 DEF _permissions
    <3>3. _route_reads(spec) = Scopes
      BY <3>1 DEF _route_reads, Scopes, IsService
    <3>4. validate_reads(spec)
      BY <3>1 DEF Built, ServiceSpecBuilt, SelectorSpecBuilt
    <3>5. Routed(spec.reads, "url") \cap Routed(spec.reads, "query") = {}
      BY <3>4, OneChannel DEF validate_reads
    <3> QED BY <2>2, <3>2, <3>3, <3>5
  <2> QED BY <2>2, <2>3, <2>4 DEF Sees
<1> QED BY <1>1, <1>2, <1>3

SeesInv ==
    /\ \A ask \in asked : Sees(ask.pair)
    /\ stage = "declared" => asked = {}
    /\ stage \notin {"declared", "refused"} => Listed

(* A step that keeps the spec asks, if it does, of the call. *)
LEMMA KeepsSees ==
  ASSUME SeesInv, UNCHANGED <<call, spec>>, stage \notin {"declared", "refused"}, stage' # "declared",
         \/ asked' = asked
         \/ \E level : asked' = asked \cup {[class |-> class, level |-> level, pair |-> Pair] :
                                              class \in OwnClasses}
  PROVE  SeesInv'
<1>1. Listed /\ Listed'
  BY DEF SeesInv, Listed, Registered, Over
<1>2. \A pair : Sees(pair)' = Sees(pair)
  BY DEF Sees, Over, Scopes, IsService
<1>3. \A ask \in asked' : ask \in asked \/ ask.pair = Pair
  OBVIOUS
<1>4. \A ask \in asked' : Sees(ask.pair)
  BY <1>1, <1>3, PairSees DEF SeesInv
<1> QED BY <1>1, <1>2, <1>4 DEF SeesInv

(* Over HTTP the call is the view's to hand on, whichever spec is served. *)
LEMMA ServesSees ==
  ASSUME SeesInv, UNCHANGED <<call, asked>>, Over("http"), stage # "declared", stage' # "declared"
  PROVE  SeesInv'
<1>1. ~Over("kernel") /\ ~Over("kernel")'
  BY DEF Over
<1>2. \A pair : Sees(pair)' = Sees(pair)
  BY <1>1 DEF Sees
<1> QED BY <1>1, <1>2 DEF SeesInv, Listed

LEMMA MountSees == ASSUME SeesInv, Made, Mount PROVE SeesInv'
<1>1. UNCHANGED <<call, asked>> /\ asked = {} /\ stage' # "declared"
  BY DEF Mount, Goto, SeesInv
<1>2. ASSUME stage' # "refused" PROVE Listed'
  <2>1. CASE Over("http")
    BY <1>1, <2>1 DEF Listed, Over
  <2>2. CASE ~Over("http")
    <3>1. Registered(View.spec) /\ spec' = View.spec
      BY <1>2, <2>2 DEF Mount, Goto
    <3>2. spec'.is \in {"service", "selector"}
      BY <2>2, <3>1, MadeIsRouted DEF WellRouted, View, Over
    <3> QED BY <1>1, <3>1, <3>2 DEF Listed, Registered, Over
  <2> QED BY <2>1, <2>2
<1> QED BY <1>1, <1>2 DEF SeesInv

LEMMA NextSees == IInv /\ SeesInv /\ [Next]_vars => SeesInv'
<1> SUFFICES ASSUME IInv, SeesInv, [Next]_vars PROVE SeesInv'
  OBVIOUS
<1>1. CASE Mount
  BY <1>1, MountSees DEF IInv
<1>2. CASE ResolveVariant \/ ServeSpec
  <2>1. stage = "handler" /\ Over("http") /\ UNCHANGED <<call, asked>>
    BY <1>2 DEF ResolveVariant, ServeSpec, IInv, Staged
  <2>2. stage' # "declared"
    BY <1>2, <2>1, DiscriminatorMoves DEF ResolveVariant, ServeSpec, Goto
  <2> QED BY <2>1, <2>2, ServesSees
<1>3. CASE Options \/ Discriminate \/ Unserved \/ DRFRead
  <2>1. UNCHANGED <<call, spec, asked>> /\ stage \in {"options", "mounted", "handler"}
    BY <1>3 DEF Options, Discriminate, Unserved, DRFRead, found
  <2>2. stage' # "declared"
    <3>1. CASE Options
      BY <3>1, CrashMoves DEF Options, Goto
    <3>2. CASE Discriminate
      BY <2>1, <3>2, DiscriminatorMoves DEF Discriminate
    <3>3. CASE Unserved
      BY <3>3, FailMoves, CrashMoves DEF Unserved
    <3>4. CASE DRFRead
      BY <3>4 DEF DRFRead, Goto, Crash, Fail
    <3> QED BY <1>3, <3>1, <3>2, <3>3, <3>4
  <2> QED BY <2>1, <2>2, KeepsSees
<1>4. CASE CheckPermissions \/ CheckRow \/ Guard
  <2>1. UNCHANGED <<call, spec>> /\ stage \in {"mounted", "object", "guard"}
    BY <1>4 DEF CheckPermissions, CheckRow, Guard, found
  <2>2. PICK level, next :
            /\ next # "declared"
            /\ Ask(level, next) \/ (Goto(next) /\ UNCHANGED asked)
    BY <1>4 DEF CheckPermissions, CheckRow, Guard
  <2>3. stage' # "declared"
    BY <2>2 DEF Ask, Goto, Fail
  <2>4. \/ asked' = asked
        \/ asked' = asked \cup {[class |-> class, level |-> level, pair |-> Pair] :
                                  class \in OwnClasses}
    BY <2>2 DEF Ask
  <2> QED BY <2>1, <2>3, <2>4, KeepsSees
<1>5. CASE get_object \/ Compile \/ resolve_target \/ Miss
  <2>1. UNCHANGED <<call, spec, asked>> /\ stage \in {"get_object", "compile", "lookup"}
    BY <1>5 DEF get_object, Compile, resolve_target, Miss
  <2>2. stage' # "declared"
    <3>1. CASE get_object
      BY <3>1, FailMoves, CrashMoves DEF get_object, MissingRow, RowRaises, Goto
    <3>2. CASE Compile
      BY <3>2 DEF Compile, Goto, Crash, Fail
    <3>3. CASE resolve_target
      BY <3>3 DEF resolve_target, Crash, Raises, Fail, Goto
    <3>4. CASE Miss
      <4>1. CASE ~IsService /\ spec.allow_none
        BY <3>4, <4>1 DEF Miss, Goto
      <4>2. CASE Over("http") /\ (IsService \/ ~spec.allow_none)
        BY <3>4, <4>2 DEF Miss, Fail
      <4>3. CASE ~(~IsService /\ spec.allow_none) /\ ~(Over("http") /\ (IsService \/ ~spec.allow_none))
        BY <3>4, <4>3 DEF Miss, Goto
      <4> QED BY <4>1, <4>2, <4>3
    <3> QED BY <1>5, <3>1, <3>2, <3>3, <3>4
  <2> QED BY <2>1, <2>2, KeepsSees
<1>6. CASE Admit \/ RunPreconditions \/ Run \/ Output \/ ResolveStatus
  <2>1. UNCHANGED <<call, spec, asked>> /\ stage \in Admitted
    BY <1>6 DEF Admit, RunPreconditions, Run, Output, ResolveStatus, found, Admitted
  <2>2. stage' # "declared"
    <3>1. CASE Admit
      BY <3>1 DEF Admit, Goto, Refuses, Fail
    <3>2. CASE RunPreconditions
      BY <3>2 DEF RunPreconditions, Goto, Raises, Crash, Fail
    <3>3. CASE Run
      BY <3>3 DEF Run, Goto, Raises, Crash, Fail
    <3>4. CASE Output
      BY <3>4 DEF Output, Goto, Raises, Crash, Fail
    <3>5. CASE ResolveStatus
      BY <3>5 DEF ResolveStatus, Goto, Crash, Fail
    <3> QED BY <1>6, <3>1, <3>2, <3>3, <3>4, <3>5
  <2> QED BY <2>1, <2>2, KeepsSees DEF Admitted
<1>7. CASE RenderMutation \/ RenderRead \/ DRFRender \/ Finalize
  <2>1. Presents
    BY <1>7, Presenting
  <2> QED BY <2>1, KeepsSees DEF Presents, found
<1>8. CASE AnswerFailure
  BY <1>8, KeepsSees DEF AnswerFailure, found
<1>9. CASE Done \/ UNCHANGED vars
  <2>1. UNCHANGED <<call, spec, asked, stage>>
    BY <1>9 DEF Done, vars
  <2>2. \A pair : Sees(pair)' = Sees(pair)
    BY <2>1 DEF Sees, Over, Scopes, IsService
  <2>3. Listed' = Listed
    BY <2>1 DEF Listed, Registered, Over
  <2> QED BY <2>1, <2>2, <2>3 DEF SeesInv
<1> QED BY <1>1, <1>2, <1>3, <1>4, <1>5, <1>6, <1>7, <1>8, <1>9 DEF Next

(* Every class is handed the call it guards, as PermissionSeesTheCall      *)
(* says: a DRF request of the caller's own, and on the kernel's route each *)
(* name the row's lookup is scoped by, through one channel alone.          *)
THEOREM PairHolds == Spec => []PermissionSeesTheCall
<1>1. Init => SeesInv
  BY DEF Init, SeesInv
<1>2. SeesInv => PermissionSeesTheCall
  BY DEF SeesInv, Sees, PermissionSeesTheCall
<1> QED BY <1>1, <1>2, NextSees, Always, PTL DEF Spec

-----------------------------------------------------------------------------
(* What OPTIONS says, and what the handler does.                           *)

NotAllowed == failure # None /\ failure.at = "handler" /\ failure.as.class = "MethodNotAllowed"
Probed == failure # None /\ failure.at = "options"

(* Nothing but OPTIONS and the handler is to blame for their failures, and *)
(* nothing but OPTIONS describes.                                          *)
Blames ==
    /\ UNCHANGED <<call, described>> /\ stage' # "options"
    /\ failure' = failure \/ failure'.at \notin {"options", "handler"}

LEMMA FailBlames ==
  ASSUME NEW at, NEW raised, NEW as, Fail(at, raised, as), at \notin {"options", "handler"}
  PROVE  stage' # "options" /\ failure'.at \notin {"options", "handler"}
  BY DEF Fail

LEMMA CrashBlames ==
  ASSUME NEW at, NEW class, Crash(at, class), at \notin {"options", "handler"}
  PROVE  stage' # "options" /\ failure'.at \notin {"options", "handler"}
  BY FailBlames DEF Crash

LEMMA RaisesBlames ==
  ASSUME NEW at, Raises(at), at \notin {"options", "handler"}
  PROVE  stage' # "options" /\ failure'.at \notin {"options", "handler"}
  BY FailBlames DEF Raises

LEMMA AskBlames ==
  ASSUME NEW level, NEW next, Ask(level, next), next # "options"
  PROVE  stage' # "options" /\ (failure' = failure \/ failure'.at \notin {"options", "handler"})
  BY FailBlames DEF Ask, Goto

LEMMA DiscriminatorBlames ==
  ASSUME resolve_polymorphic_service_spec
  PROVE  \/ UNCHANGED <<stage, failure>>
         \/ stage' # "options" /\ failure'.at \notin {"options", "handler"}
  BY FailBlames, CrashBlames DEF resolve_polymorphic_service_spec

LEMMA BeforeBlames ==
  ASSUME Discriminate \/ CheckPermissions \/ ResolveVariant \/ ServeSpec \/ DRFRead \/ CheckRow
             \/ get_object
  PROVE  Blames
<1> USE DEF Blames
<1>1. CASE Discriminate
  BY <1>1, DiscriminatorBlames DEF Discriminate
<1>2. CASE CheckPermissions
  BY <1>2, AskBlames DEF CheckPermissions
<1>3. CASE ResolveVariant
  BY <1>3, DiscriminatorBlames DEF ResolveVariant
<1>4. CASE ServeSpec
  BY <1>4 DEF ServeSpec, Goto
<1>5. CASE DRFRead
  <2>1. CASE call.action = "retrieve"
    BY <1>5, <2>1 DEF DRFRead, Goto
  <2>2. CASE call.action = "list" /\ View.queryset
    BY <1>5, <2>2 DEF DRFRead, Goto
  <2>3. CASE call.action # "retrieve" /\ ~(call.action = "list" /\ View.queryset)
    BY <1>5, <2>3, CrashBlames DEF DRFRead
  <2> QED BY <2>1, <2>2, <2>3
<1>6. CASE CheckRow
  BY <1>6, AskBlames DEF CheckRow, Goto
<1>7. CASE get_object
  <2>1. UNCHANGED <<call, described>>
    BY <1>7 DEF get_object
  <2>2. RowRaises \/ MissingRow =>
            stage' # "options" /\ (failure' = failure \/ failure'.at \notin {"options", "handler"})
    <3>1. ASSUME RowRaises
          PROVE  stage' # "options" /\ failure'.at \notin {"options", "handler"}
      BY <3>1 DEF RowRaises, Fail
    <3>2. CASE MissingRow /\ RowSource(View) = "retrieve" /\ RowSpec.allow_none
      BY <3>1, <3>2 DEF MissingRow, Goto
    <3>3. CASE MissingRow /\ ~(RowSource(View) = "retrieve" /\ RowSpec.allow_none)
      <4>1. Fail("get_object", Raised("NotFound"), Raised("NotFound"))
        BY <3>3 DEF MissingRow
      <4> QED BY <3>1, <4>1, FailBlames
    <3> QED BY <3>1, <3>2, <3>3
  <2>3. \/ RowRaises \/ MissingRow \/ Goto("object")
        \/ \E at, class : Crash(at, class) /\ at \notin {"options", "handler"}
    BY <1>7 DEF get_object
  <2> QED BY <2>1, <2>2, <2>3, CrashBlames DEF Goto
<1> QED BY <1>1, <1>2, <1>3, <1>4, <1>5, <1>6, <1>7

LEMMA DispatchBlames ==
  ASSUME Compile \/ resolve_target \/ Guard \/ Admit \/ RunPreconditions \/ Run \/ Output
             \/ ResolveStatus
  PROVE  Blames
<1> USE DEF Blames
<1>1. CASE Compile
  BY <1>1, CrashBlames DEF Compile, Goto
<1>2. CASE resolve_target
  BY <1>2, CrashBlames, RaisesBlames DEF resolve_target, Goto
<1>3. CASE Guard
  BY <1>3, AskBlames DEF Guard, Goto
<1>4. CASE Admit
  BY <1>4, FailBlames DEF Admit, Goto, Refuses
<1>5. CASE RunPreconditions
  BY <1>5, CrashBlames, RaisesBlames DEF RunPreconditions, Goto
<1>6. CASE Run
  BY <1>6, CrashBlames, RaisesBlames DEF Run, Goto
<1>7. CASE Output
  BY <1>7, CrashBlames, RaisesBlames DEF Output, Goto
<1>8. CASE ResolveStatus
  BY <1>8, CrashBlames DEF ResolveStatus, Goto
<1> QED BY <1>1, <1>2, <1>3, <1>4, <1>5, <1>6, <1>7, <1>8

LEMMA MissBlames == ASSUME Miss PROVE Blames
<1> UNCHANGED <<call, described>>
  BY DEF Miss
<1>1. CASE ~IsService /\ spec.allow_none
  BY <1>1 DEF Miss, Goto, Blames
<1>2. CASE Over("http") /\ (IsService \/ ~spec.allow_none)
  <2>1. Fail("lookup", Raised("NotFound"), Raised("NotFound"))
    BY <1>2 DEF Miss
  <2> QED BY <2>1, FailBlames DEF Blames
<1>3. CASE ~(~IsService /\ spec.allow_none) /\ ~(Over("http") /\ (IsService \/ ~spec.allow_none))
  BY <1>3 DEF Miss, Goto, Blames
<1> QED BY <1>1, <1>2, <1>3

LEMMA AddsBlames ==
  ASSUME NEW status, NEW serialized, add_affordances(status, serialized)
  PROVE  stage' # "options" /\ (failure' = failure \/ failure'.at \notin {"options", "handler"})
<1>1. CASE rendered_affordances = None
  BY <1>1 DEF add_affordances, Answered, Goto
<1>2. CASE rendered_affordances # None /\ _with_answers(serialized)
  BY <1>2 DEF add_affordances, Answered, Goto
<1>3. CASE rendered_affordances # None /\ ~_with_answers(serialized)
  BY <1>3, CrashBlames DEF add_affordances
<1> QED BY <1>1, <1>2, <1>3

LEMMA AnsweredBlames ==
  ASSUME NEW status, NEW body, Answered(status, body)
  PROVE  stage' # "options" /\ failure' = failure
  BY DEF Answered, Goto

LEMMA RenderMutationBlames == ASSUME RenderMutation PROVE Blames
<1> DEFINE none == value = None /\ (rendered_affordances = None \/ (Serializer /\ ~spec.many))
<1>0. UNCHANGED <<call, described>>
  BY DEF RenderMutation
<1>1. CASE Over("http") /\ Bulk
  <2>1. _dispatch_bulk_via_spec
    BY <1>1 DEF RenderMutation
  <2> QED BY <1>0, <2>1, AnsweredBlames, AddsBlames
          DEF _dispatch_bulk_via_spec, render_spec_output, Blames
<1>2. CASE Over("http") /\ ~Bulk
  <2>1. render_mutation_response
    BY <1>2 DEF RenderMutation
  <2>2. CASE value = None /\ ~RendersRow
    BY <1>0, <2>1, <2>2, AnsweredBlames DEF render_mutation_response, Blames
  <2>3. CASE value # None /\ ~Serializer
    BY <1>0, <2>1, <2>3, AnsweredBlames DEF render_mutation_response, Blames
  <2>4. CASE ~(value = None /\ ~RendersRow) /\ ~(value # None /\ ~Serializer)
    BY <1>0, <2>1, <2>4, AddsBlames DEF render_mutation_response, render_spec_output, Blames
  <2> QED BY <2>2, <2>3, <2>4
<1>3. CASE ~Over("http") /\ none
  BY <1>0, <1>3, AnsweredBlames DEF RenderMutation, Blames
<1>4. CASE ~Over("http") /\ ~none
  BY <1>0, <1>4, AddsBlames DEF RenderMutation, render_spec_output, Blames
<1> QED BY <1>1, <1>2, <1>3, <1>4

LEMMA RenderReadBlames == ASSUME RenderRead PROVE Blames
<1>0. UNCHANGED <<call, described>>
  BY DEF RenderRead
<1>1. CASE target = "none" /\ Over("http")
  BY <1>0, <1>1, AnsweredBlames DEF RenderRead, _JsonNullResponse, Blames
<1>2. CASE target # "none" /\ Over("http")
  <2>1. list_with_affordances
    BY <1>2 DEF RenderRead
  <2>2. CASE Serializer \/ View.serializer_class
    BY <1>0, <2>1, <2>2, AddsBlames DEF list_with_affordances, Blames
  <2>3. CASE ~(Serializer \/ View.serializer_class)
    BY <1>0, <2>1, <2>3, CrashBlames DEF list_with_affordances, Blames
  <2> QED BY <2>2, <2>3
<1>3. CASE target = "none" /\ ~Over("http")
  BY <1>0, <1>3, AnsweredBlames DEF RenderRead, Blames
<1>4. CASE target # "none" /\ ~Over("http")
  BY <1>0, <1>4, AddsBlames DEF RenderRead, render_spec_output, Blames
<1> QED BY <1>1, <1>2, <1>3, <1>4

LEMMA EndBlames ==
  ASSUME RenderMutation \/ RenderRead \/ DRFRender \/ Finalize \/ AnswerFailure \/ Done
             \/ UNCHANGED vars, stage # "options"
  PROVE  Blames
<1>1. CASE DRFRender
  BY <1>1, AnsweredBlames, CrashBlames DEF DRFRender, Blames
<1>2. CASE Finalize
  BY <1>2, CrashBlames DEF Finalize, Goto, Blames
<1>3. CASE AnswerFailure
  BY <1>3 DEF AnswerFailure, Blames
<1>4. CASE Done \/ UNCHANGED vars
  BY <1>4 DEF Done, vars, Blames
<1> QED BY <1>1, <1>2, <1>3, <1>4, RenderMutationBlames, RenderReadBlames

(* OPTIONS describes what it leaves in, and fails where a probe may; and   *)
(* the handler is missing only where no entry names one.                   *)
SaysInv ==
    /\ stage = "options" => call.describes # None
    /\ described = "described" =>
          call.describes # None /\ ~check_permissions_leaves_out(View, call.action)
    /\ Probed => "crash" \in determine_actions(View, call.describes, call.action)
    /\ NotAllowed => View.base = "viewset" /\ call.action \in Mutations /\ Entry = None

LEMMA BlamesSays == ASSUME SaysInv, Blames PROVE SaysInv'
<1>1. UNCHANGED <<View, Entry>>
  BY DEF Blames, View, Entry
<1> QED BY <1>1 DEF Blames, SaysInv, Probed, NotAllowed

LEMMA MountSays == ASSUME SaysInv, Mount PROVE SaysInv'
<1>1. UNCHANGED <<call, described, failure>> /\ (stage' = "options" => call.describes # None)
  BY DEF Mount, Goto
<1>2. UNCHANGED <<View, Entry>>
  BY <1>1 DEF View, Entry
<1> QED BY <1>1, <1>2 DEF SaysInv, Probed, NotAllowed

LEMMA OptionsSays == ASSUME SaysInv, Options PROVE SaysInv'
<1>1. call.describes # None /\ call' = call
  BY DEF Options, SaysInv
<1>2. UNCHANGED <<View, Entry>>
  BY <1>1 DEF View, Entry
<1>3. PICK answer \in determine_actions(View, call.describes, call.action) :
          \/ answer = "crash" /\ Crash("options", "crash") /\ UNCHANGED described
          \/ answer # "crash" /\ described' = answer /\ Goto("mounted")
  BY DEF Options
<1>4. CASE answer = "crash"
  <2>1. UNCHANGED described /\ failure'.at = "options" /\ stage' # "options"
    BY <1>3, <1>4 DEF Crash, Fail
  <2> QED BY <1>1, <1>2, <1>3, <1>4, <2>1 DEF SaysInv, Probed, NotAllowed
<1>5. CASE answer # "crash"
  <2>1. described' = answer /\ stage' = "mounted" /\ UNCHANGED failure
    BY <1>3, <1>5 DEF Goto
  <2>2. answer = "described" => ~check_permissions_leaves_out(View, call.action)
    BY <1>3 DEF determine_actions
  <2> QED BY <1>1, <1>2, <2>1, <2>2 DEF SaysInv, Probed, NotAllowed
<1> QED BY <1>4, <1>5

LEMMA UnservedSays == ASSUME SaysInv, Unserved PROVE SaysInv'
<1>1. UNCHANGED <<call, described>>
  BY DEF Unserved
<1>2. UNCHANGED <<View, Entry>>
  BY <1>1 DEF View, Entry
<1>3. stage' = "failed" /\ failure'.at = "handler"
  BY DEF Unserved, Crash, Fail
<1>4. failure'.as.class = "MethodNotAllowed" =>
          View.base = "viewset" /\ call.action \in Mutations /\ Entry = None
  BY DEF Unserved, Crash, Fail, Raised
<1> QED BY <1>1, <1>2, <1>3, <1>4 DEF SaysInv, Probed, NotAllowed

LEMMA NextSays == SaysInv /\ [Next]_vars => SaysInv'
<1> SUFFICES ASSUME SaysInv, [Next]_vars PROVE SaysInv'
  OBVIOUS
<1>1. CASE Mount \/ Options \/ Unserved
  BY <1>1, MountSays, OptionsSays, UnservedSays
<1>2. CASE Discriminate \/ CheckPermissions \/ ResolveVariant \/ ServeSpec \/ DRFRead \/ CheckRow
               \/ get_object
  BY <1>2, BeforeBlames, BlamesSays
<1>3. CASE Compile \/ resolve_target \/ Miss \/ Guard \/ Admit \/ RunPreconditions \/ Run \/ Output
               \/ ResolveStatus
  BY <1>3, DispatchBlames, MissBlames, BlamesSays
<1>4. CASE RenderMutation \/ RenderRead \/ DRFRender \/ Finalize \/ AnswerFailure
  <2>1. stage # "options"
    BY <1>4 DEF RenderMutation, RenderRead, DRFRender, Finalize, AnswerFailure
  <2> QED BY <1>4, <2>1, EndBlames, BlamesSays
<1>5. CASE Done \/ UNCHANGED vars
  <2>1. UNCHANGED <<call, described, failure, stage>>
    BY <1>5 DEF Done, vars
  <2>2. UNCHANGED <<View, Entry>>
    BY <2>1 DEF View, Entry
  <2> QED BY <2>1, <2>2 DEF SaysInv, Probed, NotAllowed
<1> QED BY <1>1, <1>2, <1>3, <1>4, <1>5 DEF Next

LEMMA InitSays == Init => SaysInv
  BY NoneAssumption DEF Init, SaysInv, Probed, NotAllowed

LEMMA AlwaysSays == Spec => []SaysInv
<1> QED BY InitSays, NextSays, PTL DEF Spec

(* A method OPTIONS describes is allowed, as DescribedIsServed says: what  *)
(* leaves a method out is what the handler refuses.                        *)
THEOREM DescribedHolds == Spec => []DescribedIsServed
<1>1. IInv /\ SaysInv => DescribedIsServed
  <2> SUFFICES ASSUME Made, SaysInv, described = "described", NotAllowed PROVE FALSE
    BY DEF IInv, DescribedIsServed, NotAllowed
  <2>1. /\ call.describes # None /\ ~check_permissions_leaves_out(View, call.action)
        /\ View.base = "viewset" /\ call.action \in Mutations /\ Entry = None
    BY DEF SaysInv
  <2>2. call.action \in {"create", "update"}
    BY <2>1, MadeIsRouted DEF WellRouted, Mutations
  <2>3. resolve_action_spec(View, call.action) = None
    BY <2>1, <2>2 DEF Entry, resolve_action_spec
  <2> QED BY <2>1, <2>2, <2>3 DEF check_permissions_leaves_out, dispatches_action_specs
<1> QED BY <1>1, Always, AlwaysSays, PTL

(* OPTIONS fails for no PUT whose call reads no row, as                    *)
(* OptionsProbesNoStranger says: what a probe has no row for is not probed.*)
THEOREM ProbeHolds == Spec => []OptionsProbesNoStranger
<1>1. SaysInv => OptionsProbesNoStranger
  <2> DEFINE declared == resolve_action_spec(View, call.action)
  <2> SUFFICES ASSUME SaysInv, Probed, Describable(View, call.action)
               PROVE  /\ call.describes = "PUT"
                      /\ declared # None /\ declared.is = "service" =>
                            CASE mutation_target_source(declared) = "bulk" -> FALSE
                              [] mutation_target_source(declared) = "instance_selector" ->
                                    RowSource(View) # "none"
                              [] OTHER -> TRUE
    BY DEF OptionsProbesNoStranger, Probed
  <2>1. "crash" \in determine_actions(View, call.describes, call.action)
    BY DEF SaysInv
  <2>2. call.describes = "PUT" /\ "crash" \in ProbeAnswers(View, call.action)
    BY <2>1 DEF determine_actions
  <2>3. /\ ~_metadata_probe_has_no_row(View, call.action)
        /\ RowSource(View) = "none" => "crash" \in get_queryset_without_one(View, call.action)
        /\ RowSource(View) # "none" => ~View.lookup
    BY <2>2 DEF ProbeAnswers
  <2>4. ASSUME declared # None, declared.is = "service", RowSource(View) = "none"
        PROVE  mutation_target_source(declared) = "get_object"
    BY <2>3, <2>4 DEF get_queryset_without_one
  <2>5. ASSUME declared # None, declared.is = "service", RowSource(View) # "none"
        PROVE  mutation_target_source(declared) # "bulk"
    BY <2>3, <2>5 DEF _metadata_probe_has_no_row
  <2> QED BY <2>2, <2>4, <2>5
<1> QED BY <1>1, AlwaysSays, PTL

-----------------------------------------------------------------------------
(* What an author raises reaches the client.                               *)

HandledBody ==
    LET body == exception_handler(failure.as) IN
    IF _ServesRaisedSchema \/ _restore_schema_when_handled
    THEN restore_raised_schema(failure.as, body) ELSE body

HandledInv ==
    /\ failure # None => stage \in {"failed", "answered"}
    /\ stage = "answered" /\ Over("http") /\ failure # None => response.body = HandledBody

LEMMA MovesHandled ==
  ASSUME HandledInv, Moves, stage' = "answered" => ~Over("http")'
  PROVE  HandledInv'
  BY DEF HandledInv, Moves

LEMMA NextHandled == HandledInv /\ [Next]_vars => HandledInv'
<1> SUFFICES ASSUME HandledInv, [Next]_vars PROVE HandledInv'
  OBVIOUS
<1>1. CASE Mount \/ Options \/ Discriminate \/ CheckPermissions \/ Unserved \/ ResolveVariant
               \/ ServeSpec \/ DRFRead
  BY <1>1, BeforeMoves, MovesHandled DEF Early
<1>2. CASE get_object \/ CheckRow \/ Compile \/ resolve_target \/ Guard \/ Admit
               \/ RunPreconditions \/ Run \/ Output \/ ResolveStatus
  BY <1>2, DispatchMoves, MovesHandled DEF Early
<1>3. CASE Miss
  <2>1. Over("http")' = Over("http")
    BY <1>3 DEF Miss, Over
  <2> QED BY <1>3, <2>1, MissMoves, MovesHandled
<1>4. CASE RenderMutation \/ RenderRead \/ DRFRender
  <2>1. stage = "render"
    BY <1>4 DEF RenderMutation, RenderRead, DRFRender
  <2>2. Breaks \/ (stage' = "finalize" /\ UNCHANGED failure)
    BY <1>4, RenderMutationAgrees, RenderReadAgrees, DRFRenderAgrees
  <2> QED BY <2>1, <2>2 DEF HandledInv, Breaks
<1>5. CASE Finalize
  <2>1. stage = "finalize"
    BY <1>5 DEF Finalize
  <2>2. Breaks \/ (stage' = "answered" /\ UNCHANGED failure)
    BY <1>5, CrashMoves DEF Finalize, Goto, Breaks
  <2> QED BY <2>1, <2>2 DEF HandledInv, Breaks
<1>6. CASE AnswerFailure
  <2>1. /\ UNCHANGED <<call, failure>> /\ stage' = "answered"
        /\ Over("http") => response' = [status |-> failure.as.status, body |-> HandledBody]
    BY <1>6 DEF AnswerFailure, HandledBody
  <2>2. Over("http")' = Over("http") /\ HandledBody' = HandledBody
    BY <2>1 DEF Over, HandledBody, _ServesRaisedSchema, _restore_schema_when_handled, View
  <2> QED BY <2>1, <2>2 DEF HandledInv
<1>7. CASE Done \/ UNCHANGED vars
  <2>1. UNCHANGED <<call, failure, stage, response>>
    BY <1>7 DEF Done, vars
  <2>2. Over("http")' = Over("http") /\ HandledBody' = HandledBody
    BY <2>1 DEF Over, HandledBody, _ServesRaisedSchema, _restore_schema_when_handled, View
  <2> QED BY <2>1, <2>2 DEF HandledInv
<1> QED BY <1>1, <1>2, <1>3, <1>4, <1>5, <1>6, <1>7 DEF Next

(* The schema an author raises is served as it was raised, on every view,  *)
(* as SchemaServedAsRaised says: a view that does not put it back has no   *)
(* handler but a decorated one, which does.                                *)
THEOREM SchemaHolds == Spec => []SchemaServedAsRaised
<1>1. Init => HandledInv
  BY DEF Init, HandledInv
<1>2. IInv /\ HandledInv => SchemaServedAsRaised
  <2> SUFFICES ASSUME Made, stage = "answered", Over("http"), failure # None, HandledInv,
                      failure.as.class = "_AdditionalInputAPIException"
               PROVE  response.body = "schema"
    BY DEF IInv, SchemaServedAsRaised
  <2>1. _ServesRaisedSchema \/ _restore_schema_when_handled
    BY MadeIsRouted DEF WellRouted, _ServesRaisedSchema, _restore_schema_when_handled, View
  <2> QED BY <2>1 DEF HandledInv, HandledBody, exception_handler, restore_raised_schema
<1> QED BY <1>1, <1>2, NextHandled, Always, PTL DEF Spec
=============================================================================
