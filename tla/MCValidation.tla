---------------------------- MODULE MCValidation ----------------------------
(***************************************************************************)
(* How a plan is read device by device, for TLC.  A behaviour is one of:   *)
(*   scopes    a request with three mentions of devices, two clauses;      *)
(*   long      two mentions, three clauses.                                *)
(* There are two pumps, a valve and a fan, with numbers and without, and   *)
(* every shape of clause.                                                  *)
(***************************************************************************)
EXTENDS TLC

CONSTANTS
  Device, KindOf, Item, Needs, FeedbackItem, SafeItem, WaterSystem, Mention, Clause,
  MaxMentions, MaxClauses, Unnumbered, NoKind,   \* of DeviceScopes
  pump1, pump2, valve1, point, safe

VARIABLES
  said, plan,   \* of DeviceScopes
  reading       \* which of them

Scopes == INSTANCE DeviceScopes

Long == INSTANCE DeviceScopes WITH MaxMentions <- 2, MaxClauses <- 3

ASSUME ReadingAssumption == Scopes!SettingsAreSound

MCKindOf == (pump1 :> "pump") @@ (pump2 :> "pump") @@ (valve1 :> "valve")
MCNeeds == [r \in {"start_stop", "emergency_stop", "overload", "dry_run", "timeout"} |-> {point, safe}]

Said(kind, who, state, place) == [kind |-> kind, who |-> who, state |-> state, place |-> place]

MCMention ==
  {Said("pump", pump1, "controlled", "request"),
   Said("pump", pump2, "controlled", "output"),
   Said("pump", pump2, "uncontrolled", "elsewhere"),
   Said("valve", valve1, "controlled", "request"),
   Said("pump", Unnumbered, "controlled", "request"),
   Said("fan", Unnumbered, "controlled", "output"),
   Said("fan", Unnumbered, "absent", "request")}

\* All there are in DeviceScopes, for a clause that speaks for every device.
EveryKind ==
  {"motor", "pump", "fan", "conveyor", "valve", "cylinder", "lift", "heater", "compressor", "actuator"}

Ownerless(hard, says, every, of) ==
  [hard |-> hard, segments |-> <<>>, says |-> says, every |-> every, of |-> of]
Owned(hard, segments) ==
  [hard |-> hard, segments |-> segments, says |-> {}, every |-> {}, of |-> NoKind]
Says(owners, says, dealt) == [owners |-> owners, says |-> says, dealt |-> dealt]

MCClause ==
  {Ownerless(FALSE, {safe}, {}, NoKind),
   Ownerless(TRUE, {point}, {}, NoKind),
   Ownerless(FALSE, {point}, {"pump"}, NoKind),
   Ownerless(FALSE, {safe}, EveryKind, NoKind),
   Ownerless(FALSE, {point, safe}, {}, "fan"),
   Owned(FALSE, <<Says(<<pump1>>, <<point>>, FALSE)>>),
   Owned(FALSE, <<Says(<<pump1>>, <<point>>, FALSE), Says(<<pump2>>, <<safe>>, FALSE)>>),
   Owned(FALSE, <<Says(<<pump1, pump2>>, <<safe, point>>, TRUE)>>),
   Owned(FALSE, <<Says(<<pump1, pump2>>, <<point>>, TRUE)>>),
   Owned(FALSE, <<Says(<<pump1, pump1>>, <<point, safe>>, TRUE)>>),
   Owned(TRUE, <<Says(<<valve1>>, <<point, safe>>, FALSE)>>)}

ReadingInit == reading \in {"scopes", "long"} /\ Scopes!Init

ReadingNext ==
  /\ \/ reading = "scopes" /\ Scopes!Next
     \/ reading = "long" /\ Long!Next
  /\ UNCHANGED reading

ReadingSpec == ReadingInit /\ [][ReadingNext]_<<said, plan, reading>>

\* A device is given the points of the clauses that name it and of those that
\* go on about it, and no other: the loop over clauses agrees with a
\* definition that looks at each clause by itself.
PointsHaveOwners == reading = "long" => Long!TypeOK /\ Scopes!ScopesAreOwned

\* Giving the only device of a request a number changes no verdict of a check
\* list, whatever the plan says of it, unless points are dealt out.
LoneDevicesAreReadWhole == reading = "scopes" => Scopes!LoneDeviceIsReadWhole

\* A check list that judges device by device passes only when each point is
\* stated for every kind of device under control.
DevicesAreJudged == reading = "scopes" => Scopes!EveryDeviceIsJudged
=============================================================================
