---------------------------- MODULE DeviceScopes ----------------------------
(***************************************************************************)
(* Which words of a plan speak for which device: device_semantics.py of    *)
(* backend/validation, and the rules of rules.py that judge device by      *)
(* device.                                                                 *)
(*                                                                         *)
(* A device is mentioned with a number ("pump 1") or without ("the pump"). *)
(* When numbered devices are found, a rule judges each by its scope, the   *)
(* words of the plan that speak of it; otherwise by the whole plan.        *)
(*                                                                         *)
(* Text is its structure: a plan is a sequence of sentences, a sentence of *)
(* clauses.  A clause is ownerless or made of segments, one for each group *)
(* of numbered devices it names, and states items: the points the rules    *)
(* look for, which the term lists of catalog.py recognise.                 *)
(***************************************************************************)
EXTENDS Integers, FiniteSets, Sequences, SequencesExt

CONSTANTS
  Device,        \* numbered devices
  KindOf,        \* their kinds
  Item,          \* points of a plan that rules look for
  Needs,         \* the items each check list consists of
  FeedbackItem,  \* FEEDBACK_TERMS
  SafeItem,      \* a safe action in a fault
  WaterSystem,   \* whether the request is about levels or water supply
  Mention,       \* what the request may say of devices
  Clause,        \* what a plan may say
  MaxMentions, MaxClauses,
  Unnumbered, NoKind

Kind == {"motor", "pump", "fan", "conveyor", "valve", "cylinder", "lift", "heater", "compressor", "actuator"}

MotorKinds == {"motor", "pump", "fan"}
PumpKinds == {"pump"}
RunStopKinds == MotorKinds \cup {"conveyor"}
MotionKinds == RunStopKinds \cup {"valve", "cylinder", "lift"}
ActuatorKinds == Kind
TimeoutKinds == {"conveyor", "valve", "cylinder", "lift"}

\* The rules that are check lists, and the kinds of devices they are about.
CheckList ==
  [start_stop |-> RunStopKinds, emergency_stop |-> MotionKinds, overload |-> MotorKinds,
   dry_run |-> PumpKinds, timeout |-> TimeoutKinds]

DeviceState == {"controlled", "uncontrolled", "absent"}

\* Where: in the texts that say what is to be controlled, in the outputs
\* (output_devices and DO or AO points), or elsewhere in scenario_text.
MentionType ==
  [kind : Kind, who : Device \cup {Unnumbered}, state : DeviceState,
   place : {"request", "output", "elsewhere"}]

\* A segment: its owners in order, at least one, what it states, and whether
\* it deals the items out ("respectively").
Segment == [owners : Seq(Device) \ {<<>>}, says : Seq(Item), dealt : BOOLEAN]

\* A clause: whether a hard boundary ("but") precedes it, its segments, and,
\* when it has none, what it states, the kinds of which it speaks for every
\* device, and the kind it names without a number.
ClauseType ==
  {c \in [hard : BOOLEAN, segments : Seq(Segment), says : SUBSET Item, every : SUBSET Kind,
          of : Kind \cup {NoKind}] : c.segments # <<>> => c.says = {}}

SettingsAreSound ==
  /\ KindOf \in [Device -> Kind]
  /\ Needs \in [DOMAIN CheckList -> SUBSET Item]
  /\ {FeedbackItem, SafeItem} \subseteq Item /\ WaterSystem \in BOOLEAN
  /\ \A m \in Mention :
       m \in MentionType /\ (m.who # Unnumbered => m.who \in Device /\ m.kind = KindOf[m.who])
  /\ \A c \in Clause : c \in ClauseType
  /\ MaxMentions \in Nat /\ MaxClauses \in Nat

VARIABLES
  said,  \* the mentions of the request
  plan   \* the plan

vars == <<said, plan>>

-----------------------------------------------------------------------------
(***************************************************************************)
(* Devices.                                                                *)
(***************************************************************************)

MentionsOf(kind) == {m \in said : m.kind = kind}

\* _scenario_texts and _strong_output_texts.
Requested(m) == m.place = "request"
Named(m) == m.place \in {"request", "output"}

\* One kind of has_controlled_device: excluded as such, or controlled.
KindControlled(kind) ==
  /\ ~ \E m \in MentionsOf(kind) : Requested(m) /\ m.who = Unnumbered /\ m.state # "controlled"
  /\ \E m \in MentionsOf(kind) : Named(m) /\ m.state = "controlled"

HasControlled(kinds) == \E k \in kinds : KindControlled(k)

\* controlled_device_instances: every text may exclude a device.
Instances(kinds) ==
  {d \in Device :
     LET mentions == {m \in said : m.who = d} IN
     /\ KindOf[d] \in kinds /\ KindControlled(KindOf[d])
     /\ \E m \in mentions : m.state = "controlled"
     /\ \A m \in mentions : m.state = "controlled"}

\* discovered_keys of multi_device_scopes.
Discovered(kinds) == {d \in Device : KindOf[d] \in kinds /\ \E m \in said : m.who = d /\ Named(m)}

\* The devices that have scopes of their own.
Scoped(kinds) == IF Discovered(kinds) = {} THEN {} ELSE Instances(kinds)

-----------------------------------------------------------------------------
(***************************************************************************)
(* Scopes: the loop of _scoped_texts.                                      *)
(***************************************************************************)

Owners(segment) == ToSet(segment.owners)

\* The numbered devices a text names.
NamedIn(text) ==
  UNION {UNION {Owners(g) : g \in ToSet(c.segments)} : c \in UNION {ToSet(s) : s \in ToSet(text)}}

\* Fault: a lone device is read like any other.
NoFallback(kinds) == {}

\* unique_owner_key: the only device speaks for ownerless clauses, unless
\* the text names another.
UniqueOwner(kinds) ==
  IF Cardinality(Discovered(kinds)) = 1 /\ Cardinality(Scoped(kinds)) = 1
       /\ NamedIn(plan) \subseteq Scoped(kinds)
    THEN Scoped(kinds) ELSE {}

\* The last place of a device among the owners of a segment.
LastPlace(segment, d) ==
  {i \in DOMAIN segment.owners :
     /\ segment.owners[i] = d
     /\ \A j \in DOMAIN segment.owners : segment.owners[j] = d => j <= i}

\* What a segment says of one of its owners; _parallel_group_assignments, a
\* mapping: an owner named twice is dealt the later item.
Assigned(segment, d) ==
  IF ~ segment.dealt THEN ToSet(segment.says)
  ELSE IF Len(segment.owners) # Len(segment.says) THEN {}
  ELSE {segment.says[i] : i \in LastPlace(segment, d)}

\* universal_owner_keys.
Covered(clause, kinds) == {d \in Scoped(kinds) : KindOf[d] \in clause.every}

\* The owners an ownerless clause inherits.
Inherited(clause, current, kinds) == IF clause.hard THEN UniqueOwner(kinds) ELSE current

\* Fault: all devices a clause names own the clauses that follow.
FollowAll(clause, kinds) == Scoped(kinds) \cap UNION {Owners(g) : g \in ToSet(clause.segments)}

\* The last group a clause names owns the ownerless clauses that follow.
FollowedBy(clause, kinds) == Scoped(kinds) \cap Owners(Last(clause.segments))

\* One turn of the loop over clauses: st.current is current_owner_keys,
\* st.got what each device has been given.
ReadClause(st, clause, kinds) ==
  IF clause.segments # <<>>
  THEN [current |-> FollowedBy(clause, kinds),
        got |-> [d \in Device |-> st.got[d] \cup
                   UNION {Assigned(g, d) : g \in {h \in ToSet(clause.segments) : d \in Owners(h)}}]]
  ELSE LET owners == IF Covered(clause, kinds) # {} THEN Covered(clause, kinds)
                     ELSE Inherited(clause, st.current, kinds)
       IN [current |-> owners,
           got |-> [d \in Device |-> IF d \in owners THEN st.got[d] \cup clause.says ELSE st.got[d]]]

ReadSentence(sentence, kinds) ==
  FoldLeft(LAMBDA st, c : ReadClause(st, c, kinds),
           [current |-> UniqueOwner(kinds), got |-> [d \in Device |-> {}]],
           sentence).got

\* The plan_text of a device's DeviceScope.
ScopeOf(d, kinds) == UNION {ReadSentence(s, kinds)[d] : s \in ToSet(plan)}

-----------------------------------------------------------------------------
(***************************************************************************)
(* Rules.                                                                  *)
(***************************************************************************)

SaidBy(clause) == clause.says \cup UNION {ToSet(g.says) : g \in ToSet(clause.segments)}

Clauses == UNION {ToSet(s) : s \in ToSet(plan)}

\* What the whole plan states.
WholePlan == UNION {SaidBy(c) : c \in Clauses}

\* _instance_failures finds nothing.
AllComplete(kinds, needs) == \A d \in Scoped(kinds) : needs \subseteq ScopeOf(d, kinds)

\* "failed" is a warning of the feedback rule.
Verdict(ok) == IF ok THEN "passed" ELSE "failed"

\* A rule whose check list is given; that on dry running is about pumps that
\* supply water.
CheckListVerdict(r) ==
  LET kinds == CheckList[r]   needs == Needs[r] IN
  IF ~ HasControlled(kinds) \/ (r = "dry_run" /\ ~ WaterSystem) THEN "not_applicable"
  ELSE IF Scoped(kinds) # {} THEN Verdict(AllComplete(kinds, needs))
  ELSE Verdict(needs \subseteq WholePlan)

\* The kinds a clause names, with numbers or without; terms_near_owner and
\* terms_cooccur of a device group.
Speaks(clause, kind) ==
  clause.of = kind \/ \E g \in ToSet(clause.segments) : \E d \in Owners(g) : KindOf[d] = kind

Tells(kind, item) == \E c \in Clauses : Speaks(c, kind) /\ item \in SaidBy(c)

\* FEEDBACK_DEVICE_GROUPS and SAFE_OUTPUT_DEVICE_GROUPS.
FeedbackKinds == Kind \ {"heater", "actuator"}
SafeKinds == Kind \ {"compressor", "actuator"}

FeedbackVerdict ==
  LET groups == {k \in FeedbackKinds : KindControlled(k)} IN
  IF ~ HasControlled(ActuatorKinds) THEN "not_applicable"
  ELSE IF Scoped(ActuatorKinds) # {} THEN Verdict(AllComplete(ActuatorKinds, {FeedbackItem}))
  ELSE IF groups = {} THEN Verdict(FeedbackItem \in WholePlan)
  ELSE Verdict(\A k \in groups : Tells(k, FeedbackItem))

SafeStateVerdict ==
  LET groups == {k \in SafeKinds : KindControlled(k)}
      global == \E c \in Clauses : c.every = Kind /\ SafeItem \in c.says
  IN
  IF ~ HasControlled(ActuatorKinds) THEN "not_applicable"
  ELSE IF Scoped(ActuatorKinds) # {} THEN Verdict(AllComplete(ActuatorKinds, {SafeItem}))
  ELSE IF groups = {} THEN Verdict(SafeItem \in WholePlan)
  ELSE Verdict(global \/ \A k \in groups : Tells(k, SafeItem))

Verdicts ==
  [r \in DOMAIN CheckList |-> CheckListVerdict(r)]
    @@ [feedback |-> FeedbackVerdict, safe_state |-> SafeStateVerdict]

-----------------------------------------------------------------------------
(***************************************************************************)
(* Every request, and every plan for it, clause by clause.                 *)
(***************************************************************************)

Init == said = {} /\ plan = <<>>

Mentioned ==
  /\ plan = <<>> /\ Cardinality(said) < MaxMentions
  /\ \E m \in Mention \ said : said' = said \cup {m}
  /\ UNCHANGED plan

Length == FoldLeft(LAMBDA n, s : n + Len(s), 0, plan)

NewSentence ==
  /\ Length < MaxClauses
  /\ \E c \in Clause : ~ c.hard /\ plan' = Append(plan, <<c>>)
  /\ UNCHANGED said

NewClause ==
  /\ plan # <<>> /\ Length < MaxClauses
  /\ \E c \in Clause : plan' = [plan EXCEPT ![Len(plan)] = Append(@, c)]
  /\ UNCHANGED said

Next == Mentioned \/ NewSentence \/ NewClause

Spec == Init /\ [][Next]_vars

-----------------------------------------------------------------------------
(***************************************************************************)
(* What must hold.                                                         *)
(***************************************************************************)

\* The request mentions, and the plan says, what they may.
TypeOK == said \subseteq Mention /\ plan \in Seq(Seq(Clause) \ {<<>>})

\* The clauses before clause i of a sentence that say who is spoken of, with
\* no hard boundary since.
Antecedents(s, i, kinds) ==
  {j \in 1..(i - 1) : /\ s[j].segments # <<>> \/ Covered(s[j], kinds) # {}
                      /\ \A k \in (j + 1)..i : ~ s[k].hard}

\* Who an ownerless clause speaks of, without the loop: every device of the
\* kinds it says, or else whom the nearest antecedent ends with, or else the
\* only device there is.
SpeaksOf(s, i, kinds) ==
  IF Covered(s[i], kinds) # {} THEN Covered(s[i], kinds)
  ELSE IF Antecedents(s, i, kinds) = {} THEN UniqueOwner(kinds)
  ELSE LET j == CHOOSE m \in Antecedents(s, i, kinds) : \A n \in Antecedents(s, i, kinds) : n <= m
       IN IF s[j].segments # <<>> THEN Scoped(kinds) \cap Owners(Last(s[j].segments))
          ELSE Covered(s[j], kinds)

\* A segment that names device d says an item of it.
SegmentTells(g, d, item) ==
  \E i \in DOMAIN g.owners :
    /\ g.owners[i] = d
    /\ IF g.dealt
         THEN /\ Len(g.owners) = Len(g.says) /\ g.says[i] = item
              /\ \A j \in DOMAIN g.owners : g.owners[j] = d => j <= i
         ELSE item \in ToSet(g.says)

\* A device is given the items that clauses naming it state, and those of the
\* ownerless clauses that speak of it, and no other.
ScopesAreOwned ==
  \A kinds \in {MotorKinds, ActuatorKinds} : \A d \in Scoped(kinds) : \A item \in Item :
    (item \in ScopeOf(d, kinds)) <=>
      \E s \in ToSet(plan) : \E i \in DOMAIN s :
        \/ \E g \in ToSet(s[i].segments) : SegmentTells(g, d, item)
        \/ s[i].segments = <<>> /\ item \in s[i].says /\ d \in SpeaksOf(s, i, kinds)

\* Giving the only device of a request a number changes no verdict of a
\* check list, whatever the plan says of it, unless items are dealt out.
LoneDeviceIsReadWhole ==
  \A r \in DOMAIN CheckList :
    LET kinds == CheckList[r] IN
    /\ Cardinality(Discovered(kinds)) = 1 /\ Cardinality(Scoped(kinds)) = 1
    /\ NamedIn(plan) \subseteq Scoped(kinds)
    /\ \A c \in Clauses : \A g \in ToSet(c.segments) : ~ g.dealt
    /\ CheckListVerdict(r) # "not_applicable"
    => CheckListVerdict(r) = Verdict(Needs[r] \subseteq WholePlan)

\* A check list that judges device by device passes only when, for every kind
\* of device under control, some clause that does not name other kinds of
\* devices by number states each item: "every motor-like device has overload
\* detection, stop and alarm".
EveryDeviceIsJudged ==
  \A r \in DOMAIN CheckList : Scoped(CheckList[r]) # {} /\ Verdicts[r] = "passed" =>
    \A k \in CheckList[r] : KindControlled(k) => \A item \in Needs[r] :
      \E c \in Clauses : item \in SaidBy(c) /\ (c.segments = <<>> \/ Speaks(c, k))
=============================================================================
