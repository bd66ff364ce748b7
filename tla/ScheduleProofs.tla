---------------------------- MODULE ScheduleProofs ----------------------------
(***************************************************************************)
(* Theorems about module Schedule, for any configurations and moments, any *)
(* envelope and cadence, any steps of the OS clock and any length of run.  *)
(***************************************************************************)
EXTENDS Schedule, MomentsProofs, SequenceTheorems, WellFoundedInduction, TLAPS

UiLabels == {"boot", "bind", "wait", "observe", "anchor", "reset", "enabled", "now", "add",
             "active", "frontier", "collect", "post", "compare", "advance"}
OpLabels == {"idle", "armed", "observe", "anchor", "reset"}

\* The pages of tick() on which it has read the trusted clock.
Ticking == {"active", "frontier", "collect", "post", "compare", "advance"}

\* TypeOK in parts, each with what the steps need to keep it.
PortOK ==
    /\ running \in Config \cup {NoConfig}
    /\ slot \in Command \cup {NoCommand}
    /\ taken \in Command \cup {NoCommand}

FlagsOK ==
    /\ force \in BOOLEAN /\ enabled \in BOOLEAN
    /\ outcome \in [Thread -> {"none", "first", "forced", "accepted"}]

\* A baseline was not written in the future, and its second field is never there
\* without the first.
ClockOK ==
    /\ mono \in 0 .. Horizon /\ offset \in Offsets /\ left \in 0 .. Interventions
    /\ baseMono \in Nat \cup {None} /\ baseWall \in Nat \cup {None}
    /\ lastPoll \in Nat \cup {None}
    /\ baseMono # None => baseMono <= mono
    /\ baseWall # None => baseMono # None

\* What the file held at the last save or start is what was kept.
SettingOK ==
    /\ kept \in {"on", "off"}
    /\ stored \in {"missing", "corrupt", "on", "off"}
    /\ Bound \/ pc["ui"] = "bind" => stored \in {"on", "off"}
    /\ stored = "on" <=> kept = "on"

LockOK ==
    /\ pc \in [Thread -> UiLabels \cup OpLabels]
    /\ pc["ui"] \in UiLabels /\ pc["op"] \in OpLabels
    /\ lock \in {"free", "ui", "op"}
    /\ lock # "free" => pc[lock] \in {"observe", "anchor", "reset"}
    /\ \A t \in Thread : pc[t] \in {"anchor", "reset"} => lock = t

\* An observation stays until it is dealt with.
SyncOK ==
    /\ obs \in [Thread -> Nat \cup {None}]
    /\ \A t \in Thread : pc[t] \in {"observe", "anchor"} => obs[t] \in Nat
    /\ \A t \in Thread : pc[t] = "anchor" => baseMono # None
    /\ anchor \in [offset : Int, accepted : Nat]

\* tick() has what it goes on with.
TickOK ==
    /\ frontier \in Nat \cup {None} /\ tnow \in Nat \cup {None}
    /\ active \in Config \cup {NoConfig}
    /\ todo \in Seq(Command) /\ Len(todo) <= 2
    /\ pc["ui"] = "add" => baseWall # None /\ tnow # None
    /\ pc["ui"] \in Ticking => tnow # None
    /\ pc["ui"] = "post" <=> todo # <<>>

TypeInv == PortOK /\ FlagsOK /\ ClockOK /\ SettingOK /\ LockOK /\ SyncOK /\ TickOK

-------------------------------------------------------------------------------
\* The least-number principle, from the library's theorem about well-founded sets.
LEMMA LeastNatural ==
    ASSUME NEW T \in SUBSET Nat, T # {}
    PROVE  \E m \in T : \A n \in T : m <= n
<1> DEFINE Below == {p \in Nat \X Nat : p[1] < p[2]}
<1>1. IsWellFoundedOn(Below, Nat)
  BY NatLessThanWellFounded DEF OpToRel
<1>2. \A x, y \in Nat : y < x => <<y, x>> \in Below
  OBVIOUS
<1> HIDE DEF Below
<1>3. PICK x \in T : \A y \in T : ~ (<<y, x>> \in Below)
  BY <1>1, WFMin
<1>4. ASSUME NEW n \in T
      PROVE  x <= n
  <2>1. x \in Nat /\ n \in Nat /\ ~(n < x)
    BY <1>2, <1>3
  <2> QED
    BY <2>1
<1> QED
  BY <1>3, <1>4

\* The events of a tick are those whose moment falls between the frontier and now.
LEMMA EventsType ==
    ASSUME NEW from \in Nat, NEW to \in Nat, NEW e \in EventsIn(from, to)
    PROVE  /\ e \in [kind : {"start", "end"}, cfg : Config, at : Nat]
           /\ from < e.at /\ e.at <= to
<1>1. PICK p \in Plan : e \in {[kind |-> p.kind, cfg |-> p.cfg, at |-> t] :
                                 t \in FiringsIn(p.moment, from, to)}
  BY DEF EventsIn
<1>2. p.kind \in {"start", "end"} /\ p.cfg \in Config /\ p.moment \in Moment
  BY ScheduleAssumption DEF ScheduleAssumption
<1>3. PICK t \in FiringsIn(p.moment, from, to) :
          e = [kind |-> p.kind, cfg |-> p.cfg, at |-> t]
  BY <1>1
<1>4. t \in (from + 1)..to
  BY <1>2, <1>3, EventsAreFirings
<1> QED
  BY <1>2, <1>3, <1>4

\* _select_start_winner takes the latest instant first and then the first in the list:
\* whatever starts coincide, exactly one comes out, and every other is earlier or at the
\* same instant and further down the user's list.
THEOREM WinnerIsLatestFirst ==
    ASSUME NEW from \in Nat, NEW to \in Nat,
           StartsOf(EventsIn(from, to)) # {}
    PROVE  LET starts == StartsOf(EventsIn(from, to))
               w == Winner(EventsIn(from, to))
           IN  /\ w \in starts
               /\ \A f \in starts \ {w} :
                    f.at < w.at \/ (f.at = w.at /\ Rank[w.cfg] < Rank[f.cfg])
<1> DEFINE events == EventsIn(from, to)
           starts == StartsOf(events)
           first == Contenders(events)
<1>1. \A e \in starts : /\ e \in [kind : {"start"}, cfg : Config, at : Nat]
                        /\ e.at <= to
                        /\ Rank[e.cfg] \in Nat
  <2> TAKE e \in starts
  <2>1. e \in EventsIn(from, to) /\ e.kind = "start"
    BY DEF StartsOf
  <2>2. e \in [kind : {"start", "end"}, cfg : Config, at : Nat] /\ e.at <= to
    BY <2>1, EventsType
  <2> QED
    BY <2>1, <2>2, ScheduleAssumption DEF ScheduleAssumption
<1>2. /\ LatestStart(events) \in {e.at : e \in starts}
      /\ \A f \in starts : f.at <= LatestStart(events)
  <2> DEFINE ages == {to - e.at : e \in starts}
  <2>1. ages \in SUBSET Nat /\ ages # {}
    BY <1>1
  <2>2. PICK m \in ages : \A n \in ages : m <= n
    BY <2>1, LeastNatural
  <2>3. PICK e \in starts : m = to - e.at
    BY <2>2
  <2>4. \A f \in starts : to - e.at <= to - f.at
    BY <2>2, <2>3
  <2>5. \E t \in {g.at : g \in starts} : \A f \in starts : f.at <= t
    BY <1>1, <2>3, <2>4
  <2> QED
    BY <2>5 DEF LatestStart
<1>3. first # {} /\ first \subseteq starts
  BY <1>2 DEF Contenders
<1>4. Winner(events) \in first
      /\ \A f \in first : Rank[Winner(events).cfg] <= Rank[f.cfg]
  <2> DEFINE ranks == {Rank[e.cfg] : e \in first}
  <2>1. ranks \in SUBSET Nat /\ ranks # {}
    BY <1>1, <1>3
  <2>2. PICK m \in ranks : \A n \in ranks : m <= n
    BY <2>1, LeastNatural
  <2>3. PICK e \in first : m = Rank[e.cfg]
    BY <2>2
  <2>4. \E g \in first : \A f \in first : Rank[g.cfg] <= Rank[f.cfg]
    BY <2>2, <2>3
  <2> HIDE DEF first
  <2>5. Winner(events) = CHOOSE g \in first : \A f \in first : Rank[g.cfg] <= Rank[f.cfg]
    BY DEF Winner, first
  <2> QED
    BY <2>4, <2>5
<1> DEFINE w == Winner(events)
<1>5. w \in starts /\ w.at = LatestStart(events)
  BY <1>3, <1>4 DEF Contenders
<1> HIDE DEF w, first
<1>6. ASSUME NEW f \in starts, f # w
      PROVE  f.at < w.at \/ (f.at = w.at /\ Rank[w.cfg] < Rank[f.cfg])
  <2>1. f.at <= w.at /\ f.at \in Nat /\ w.at \in Nat
    BY <1>1, <1>2, <1>5
  <2>2. ASSUME f.at = w.at
        PROVE  Rank[w.cfg] < Rank[f.cfg]
    <3>1. f \in first
      BY <1>5, <2>2 DEF first, Contenders
    <3>2. Rank[w.cfg] <= Rank[f.cfg]
      BY <1>4, <3>1 DEF w
    <3>3. /\ f \in [kind : {"start"}, cfg : Config, at : Nat]
          /\ w \in [kind : {"start"}, cfg : Config, at : Nat]
      BY <1>1, <1>5
    <3>4. f.cfg # w.cfg
      BY <1>6, <2>2, <3>3
    <3>5. Rank[f.cfg] # Rank[w.cfg]
      BY <3>3, <3>4, ScheduleAssumption DEF ScheduleAssumption
    <3>6. Rank[f.cfg] \in Nat /\ Rank[w.cfg] \in Nat
      BY <1>1, <1>5
    <3> QED
      BY <3>2, <3>5, <3>6
  <2> QED
    BY <2>1, <2>2
<1> QED
  BY <1>5, <1>6 DEF w

\* The commands that a tick posts are commands: at most a stop and then a start or a
\* switch to the winner.
LEMMA DecideType ==
    ASSUME NEW from \in Nat, NEW to \in Nat, NEW a
    PROVE  /\ Decide(EventsIn(from, to), a) \in Seq(Command)
           /\ Len(Decide(EventsIn(from, to), a)) <= 2
<1> DEFINE events == EventsIn(from, to)
           w == Winner(events).cfg
           after == IF EndsActive(events, a) THEN NoConfig ELSE a
           stop == IF EndsActive(events, a) THEN <<StopCommand>> ELSE <<>>
           go == CASE StartsOf(events) = {}                      -> <<>>
                   [] StartsOf(events) # {} /\ after = NoConfig  -> <<StartCommand(w)>>
                   [] StartsOf(events) # {} /\ after = w         -> <<>>
                   [] StartsOf(events) # {} /\ after \notin {w, NoConfig}
                        -> <<SwitchCommand(w)>>
<1>1. StartsOf(events) # {} => w \in Config
  BY WinnerIsLatestFirst, EventsType DEF StartsOf
<1>2. /\ StopCommand \in Command
      /\ \A c \in Config : StartCommand(c) \in Command /\ SwitchCommand(c) \in Command
  BY DEF Command, StopCommand, StartCommand, SwitchCommand
<1>3. stop = <<>> \/ \E c \in Command : stop = <<c>>
  BY <1>2
<1>4. go = <<>> \/ \E c \in Command : go = <<c>>
  <2>1. \/ go = <<>>
        \/ w \in Config /\ go = <<StartCommand(w)>>
        \/ w \in Config /\ go = <<SwitchCommand(w)>>
    BY <1>1
  <2> HIDE DEF go, w
  <2> QED
    BY <1>2, <2>1
<1>5. Decide(events, a) = stop \o go
  BY DEF Decide
<1> HIDE DEF stop, go
<1>6. ASSUME NEW s, s = <<>> \/ \E c \in Command : s = <<c>>
      PROVE  s \in Seq(Command) /\ Len(s) <= 1
  <2>1. CASE s = <<>>
    BY <2>1
  <2>2. ASSUME NEW c \in Command, s = <<c>>
        PROVE  s \in Seq(Command) /\ Len(s) <= 1
    BY <2>2
  <2> QED
    BY <1>6, <2>1, <2>2
<1>7. stop \o go \in Seq(Command) /\ Len(stop \o go) <= 2
  BY <1>3, <1>4, <1>6
<1>8. Decide(events, a) \in Seq(Command) /\ Len(Decide(events, a)) <= 2
  BY <1>5, <1>7
<1> QED
  BY <1>8

-------------------------------------------------------------------------------
LEMMA ConstantTypes ==
    /\ BaseTolerance \in Nat /\ Safety \in Nat /\ Horizon \in Nat /\ Interventions \in Nat
    /\ Drift \in Nat \ {0} /\ PollInterval \in Nat \ {0}
    /\ Offsets \subseteq Nat
  BY ScheduleAssumption DEF ScheduleAssumption

LEMMA TypeInvImpliesTypeOK == TypeInv => TypeOK
  BY DEF TypeInv, TypeOK, PortOK, FlagsOK, ClockOK, SettingOK, LockOK, SyncOK, TickOK, Bound,
         UiLabels, OpLabels

LEMMA TypeInit == Init => TypeInv
<1> SUFFICES ASSUME Init PROVE TypeInv
  OBVIOUS
<1> USE DEF Init, Thread
<1>0. FlagsOK
  BY DEF FlagsOK
<1>1. PortOK /\ SettingOK
  BY DEF PortInit, PortOK, SettingOK, Bound
<1>2. ClockOK
  BY ConstantTypes DEF ClockOK, None
<1>3. LockOK /\ SyncOK
  BY DEF LockOK, SyncOK, UiLabels, OpLabels, None
<1>4. TickOK
  BY DEF TickOK, Ticking, None
<1> QED
  BY <1>0, <1>1, <1>2, <1>3, <1>4 DEF TypeInv

\* The commands, through the port and past it.
LEMMA PortTypes ==
    ASSUME TypeInv, [Next]_vars
    PROVE  PortOK'
<1> USE DEF TypeInv, PortOK, port
<1>1. CASE UiStep
  <2>1. CASE PostDecision
    <3>1. Head(todo) \in Command
      BY <2>1 DEF PostDecision, TickOK
    <3> QED
      BY <2>1, <3>1 DEF PostDecision, Post
  <2> QED
    BY <1>1, <2>1
    DEF UiStep, LoadFlag, BindSchedule, SkipPoll, Poll, ReadEnabled, ReadBaseMono,
        ReadBaseWall, ReadActive, Seed, Seeded, TickRaises, Collect, Compare, Advance
<1>2. CASE OpStep
  <2>1. ASSUME NEW c \in Command, UserCommand(c)
        PROVE  PortOK'
    BY <2>1 DEF UserCommand, Direct, Apply, Command
  <2> QED
    BY <1>2, <2>1
    DEF OpStep, SetManualTime, ForceSync, ForcePoll, ToggleSchedule, Restart
<1>3. CASE PortStep
  BY <1>3 DEF PortStep, Take, Execute, Apply, Command
<1>4. ASSUME NEW t \in Thread, SyncStep(t)
      PROVE  PortOK'
  BY <1>4 DEF SyncStep, Observe, Anchor, ResetFrontier
<1>5. CASE TimePasses \/ (\E o \in Offsets : OsClockSteps(o)) \/ UNCHANGED vars
  BY <1>5 DEF TimePasses, OsClockSteps, vars
<1> QED
  BY <1>1, <1>2, <1>3, <1>4, <1>5 DEF Next

\* The clock, the OS and the cadence.
LEMMA ClockTypes ==
    ASSUME TypeInv, [Next]_vars
    PROVE  ClockOK'
<1> USE DEF TypeInv, clock, os
<1>1. CASE UiStep
  <2>1. ASSUME NEW synced \in BOOLEAN, Poll(synced)
        PROVE  ClockOK'
    BY <2>1, ConstantTypes DEF Poll, ClockOK
  <2> QED
    BY <1>1, <2>1
    DEF ClockOK, UiStep, LoadFlag, BindSchedule, SkipPoll, ReadEnabled, ReadBaseMono,
        ReadBaseWall, ReadActive, Seed, Seeded, TickRaises, Collect, PostDecision, Compare,
        Advance
<1>2. CASE OpStep
  <2>1. CASE \E o \in Offsets : SetManualTime(o)
    BY <2>1, ConstantTypes DEF SetManualTime, Intervene, ClockOK
  <2>2. CASE ForceSync
    BY <2>2, ConstantTypes DEF ForceSync, Intervene, ClockOK
  <2>3. CASE \E synced \in BOOLEAN : ForcePoll(synced)
    BY <2>3, ConstantTypes DEF ForcePoll, ClockOK
  <2>4. CASE ToggleSchedule
    BY <2>4, ConstantTypes DEF ToggleSchedule, Intervene, ClockOK
  <2>5. CASE \E c \in Command : UserCommand(c)
    BY <2>5, ConstantTypes DEF UserCommand, Intervene, ClockOK
  <2>6. CASE Restart
    BY <2>6, ConstantTypes DEF Restart, Intervene, ClockOK
  <2> QED
    BY <1>2, <2>1, <2>2, <2>3, <2>4, <2>5, <2>6 DEF OpStep
<1>3. CASE PortStep
  BY <1>3, ConstantTypes DEF PortStep, ClockOK
<1>4. ASSUME NEW t \in Thread, SyncStep(t)
      PROVE  ClockOK'
  <2>1. CASE Observe(t)
    <3>1. /\ baseMono' \in {baseMono, mono}
          /\ UNCHANGED <<mono, offset, left, baseWall, lastPoll>>
      BY <2>1 DEF Observe
    <3> QED
      BY <3>1, ConstantTypes DEF ClockOK, None
  <2>2. CASE Anchor(t)
    <3>1. /\ obs[t] \in Nat /\ baseMono # None /\ baseWall' = obs[t]
          /\ UNCHANGED <<mono, offset, left, baseMono, lastPoll>>
      BY <2>2 DEF Anchor, SyncOK
    <3> QED
      BY <3>1, ConstantTypes DEF ClockOK, None
  <2>3. CASE ResetFrontier(t)
    BY <2>3, ConstantTypes DEF ResetFrontier, ClockOK
  <2> QED
    BY <1>4, <2>1, <2>2, <2>3 DEF SyncStep
<1>5. CASE TimePasses
  BY <1>5, ConstantTypes DEF TimePasses, ClockOK
<1>6. CASE \E o \in Offsets : OsClockSteps(o)
  BY <1>6, ConstantTypes DEF OsClockSteps, Intervene, ClockOK
<1>7. CASE UNCHANGED vars
  BY <1>7, ConstantTypes DEF vars, ClockOK
<1> QED
  BY <1>1, <1>2, <1>3, <1>4, <1>5, <1>6, <1>7 DEF Next

\* The flags.
LEMMA FlagTypes ==
    ASSUME TypeInv, [Next]_vars
    PROVE  FlagsOK'
<1> USE DEF TypeInv, FlagsOK, clock, setting, sync
<1>1. CASE UiStep
  BY <1>1
  DEF UiStep, LoadFlag, BindSchedule, SkipPoll, Poll, ReadEnabled, ReadBaseMono,
      ReadBaseWall, ReadActive, Seed, Seeded, TickRaises, Collect, PostDecision, Compare,
      Advance
<1>2. CASE OpStep
  BY <1>2
  DEF OpStep, SetManualTime, ForceSync, ForcePoll, ToggleSchedule, UserCommand, Restart
<1>3. CASE PortStep \/ TimePasses \/ (\E o \in Offsets : OsClockSteps(o)) \/ UNCHANGED vars
  BY <1>3 DEF PortStep, TimePasses, OsClockSteps, vars
<1>4. ASSUME NEW t \in Thread, SyncStep(t)
      PROVE  FlagsOK'
  <2>1. CASE Observe(t)
    BY <2>1 DEF Observe, Synced
  <2>2. CASE Anchor(t)
    BY <2>2 DEF Anchor, Synced
  <2>3. CASE ResetFrontier(t)
    BY <2>3 DEF ResetFrontier, Synced
  <2> QED
    BY <1>4, <2>1, <2>2, <2>3 DEF SyncStep
<1> QED
  BY <1>1, <1>2, <1>3, <1>4 DEF Next

\* The schedule's switch and its file.
LEMMA SettingTypes ==
    ASSUME TypeInv, [Next]_vars
    PROVE  SettingOK'
<1> USE DEF TypeInv, SettingOK, LockOK, setting, Bound, Thread, UiLabels, OpLabels
<1>1. CASE UiStep
  <2>1. CASE LoadFlag
    BY <2>1 DEF LoadFlag, Goto
  <2>2. CASE BindSchedule
    BY <2>2 DEF BindSchedule, Goto
  <2> QED
    BY <1>1, <2>1, <2>2
    DEF UiStep, SkipPoll, Poll, ReadEnabled, ReadBaseMono,
        ReadBaseWall, ReadActive, Seed, Seeded, TickRaises, Collect, PostDecision, Compare,
        Advance, ForgetFrontier, Return, Goto
<1>2. CASE OpStep
  <2>1. CASE ToggleSchedule
    BY <2>1 DEF ToggleSchedule, Flag
  <2>2. CASE Restart
    BY <2>2 DEF Restart
  <2> QED
    BY <1>2, <2>1, <2>2
    DEF OpStep, SetManualTime, ForceSync, ForcePoll, UserCommand, Goto
<1>3. CASE PortStep \/ TimePasses \/ (\E o \in Offsets : OsClockSteps(o)) \/ UNCHANGED vars
  BY <1>3 DEF PortStep, TimePasses, OsClockSteps, vars
<1>4. ASSUME NEW t \in Thread, SyncStep(t)
      PROVE  SettingOK'
  BY <1>4 DEF SyncStep, Observe, Anchor, ResetFrontier, Synced, Goto
<1> QED
  BY <1>1, <1>2, <1>3, <1>4 DEF Next

\* Where the two threads are, and who has app.lock.
LEMMA LockTypes ==
    ASSUME TypeInv, [Next]_vars
    PROVE  LockOK'
<1> USE DEF TypeInv, LockOK, Thread, UiLabels, OpLabels
<1>1. CASE UiStep
  BY <1>1
  DEF UiStep, LoadFlag, BindSchedule, SkipPoll, Poll, ReadEnabled, ReadBaseMono,
      ReadBaseWall, ReadActive, Seed, Seeded, TickRaises, Collect, PostDecision, Compare,
      Advance, ForgetFrontier, Return, Goto
<1>2. CASE OpStep
  BY <1>2
  DEF OpStep, SetManualTime, ForceSync, ForcePoll, ToggleSchedule, UserCommand, Restart,
      AppLockFree, Goto
<1>3. CASE PortStep \/ TimePasses \/ (\E o \in Offsets : OsClockSteps(o)) \/ UNCHANGED vars
  BY <1>3 DEF PortStep, TimePasses, OsClockSteps, vars
<1>4. ASSUME NEW t \in Thread, SyncStep(t)
      PROVE  LockOK'
  <2>1. CASE Observe(t)
    BY <2>1 DEF Observe, Synced, Goto
  <2>2. CASE Anchor(t)
    BY <2>2 DEF Anchor, Synced, Goto
  <2>3. CASE ResetFrontier(t)
    BY <2>3 DEF ResetFrontier, Synced, Goto
  <2> QED
    BY <1>4, <2>1, <2>2, <2>3 DEF SyncStep
<1> QED
  BY <1>1, <1>2, <1>3, <1>4 DEF Next

\* What the two threads have observed.
LEMMA SyncTypes ==
    ASSUME TypeInv, [Next]_vars
    PROVE  SyncOK'
<1> USE DEF TypeInv, SyncOK, LockOK, Thread, UiLabels, OpLabels, sync, clock
<1>1. CASE UiStep
  <2>1. ASSUME NEW synced \in BOOLEAN, Poll(synced)
        PROVE  SyncOK'
    <3>1. Wall \in Nat
      BY ConstantTypes DEF Wall, ClockOK
    <3> QED
      BY <2>1, <3>1 DEF Poll, Goto
  <2> QED
    BY <1>1, <2>1
    DEF UiStep, LoadFlag, BindSchedule, SkipPoll, ReadEnabled, ReadBaseMono,
        ReadBaseWall, ReadActive, Seed, Seeded, TickRaises, Collect, PostDecision, Compare,
        Advance, ForgetFrontier, Return, Goto
<1>2. CASE OpStep
  <2>1. ASSUME NEW o \in Offsets, SetManualTime(o)
        PROVE  SyncOK'
    <3>1. mono + o \in Nat
      BY ConstantTypes DEF ClockOK
    <3> QED
      BY <2>1, <3>1 DEF SetManualTime, Goto
  <2>2. ASSUME NEW synced \in BOOLEAN, ForcePoll(synced)
        PROVE  SyncOK'
    <3>1. Wall \in Nat
      BY ConstantTypes DEF Wall, ClockOK
    <3> QED
      BY <2>2, <3>1 DEF ForcePoll, Goto
  <2>3. CASE Restart
    BY <2>3 DEF Restart, None
  <2> QED
    BY <1>2, <2>1, <2>2, <2>3 DEF OpStep, ForceSync, ToggleSchedule, UserCommand, Goto
<1>3. CASE PortStep \/ TimePasses \/ (\E o \in Offsets : OsClockSteps(o)) \/ UNCHANGED vars
  BY <1>3 DEF PortStep, TimePasses, OsClockSteps, vars
<1>4. ASSUME NEW t \in Thread, SyncStep(t)
      PROVE  SyncOK'
  <2>1. CASE Observe(t)
    <3>1. mono \in Nat /\ mono # None
      BY ConstantTypes DEF ClockOK, None
    <3> QED
      BY <2>1, <3>1 DEF Observe, Synced, Goto
  <2>2. CASE Anchor(t)
    <3>1. obs[t] - baseMono \in Int
      BY <2>2 DEF Anchor, ClockOK
    <3> QED
      BY <2>2, <3>1 DEF Anchor, Synced, Goto
  <2>3. CASE ResetFrontier(t)
    BY <2>3 DEF ResetFrontier, Synced, Goto
  <2> QED
    BY <1>4, <2>1, <2>2, <2>3 DEF SyncStep
<1> QED
  BY <1>1, <1>2, <1>3, <1>4 DEF Next

\* The locals of tick() and the frontier.
LEMMA TickTypes ==
    ASSUME TypeInv, [Next]_vars
    PROVE  TickOK'
<1> USE DEF TypeInv, TickOK, LockOK, Thread, UiLabels, OpLabels, Ticking, local
<1>1. CASE UiStep
  <2>1. CASE LoadFlag \/ BindSchedule \/ SkipPoll \/ (\E synced \in BOOLEAN : Poll(synced))
             \/ Seeded
    BY <2>1 DEF LoadFlag, BindSchedule, SkipPoll, Poll, Seeded, Goto
  <2>2. CASE ReadEnabled \/ Seed \/ TickRaises \/ Advance
    BY <2>2
    DEF ReadEnabled, Seed, TickRaises, Advance, ForgetFrontier, Return, Goto, None
  <2>3. CASE ReadBaseMono
    <3>1. HasBaseline => mono - baseMono \in Nat /\ mono - baseMono # None
      BY ConstantTypes DEF HasBaseline, ClockOK, None
    <3> QED
      BY <2>3, <3>1 DEF ReadBaseMono, ForgetFrontier, Return, HasBaseline, Goto, clock
  <2>4. CASE ReadBaseWall
    <3>1. baseWall + tnow \in Nat /\ baseWall + tnow # None
      BY <2>4 DEF ReadBaseWall, ClockOK, None
    <3> QED
      BY <2>4, <3>1 DEF ReadBaseWall, Goto
  <2>5. CASE ReadActive
    BY <2>5 DEF ReadActive, Goto, PortOK
  <2>6. CASE Collect
    <3>1. /\ Decide(EventsIn(frontier, tnow), active) \in Seq(Command)
          /\ Len(Decide(EventsIn(frontier, tnow), active)) <= 2
      BY <2>6, DecideType DEF Collect
    <3> QED
      BY <2>6, <3>1 DEF Collect, Goto
  <2>7. CASE PostDecision
    <3>1. Tail(todo) \in Seq(Command) /\ Len(Tail(todo)) <= 2
      BY <2>7 DEF PostDecision
    <3> QED
      BY <2>7, <3>1 DEF PostDecision, Goto
  <2>8. CASE Compare
    BY <2>8 DEF Compare, Return, Goto
  <2> QED
    BY <1>1, <2>1, <2>2, <2>3, <2>4, <2>5, <2>6, <2>7, <2>8 DEF UiStep
<1>2. CASE OpStep
  <2>1. CASE Restart
    BY <2>1 DEF Restart, None
  <2> QED
    BY <1>2, <2>1
    DEF OpStep, SetManualTime, ForceSync, ForcePoll, ToggleSchedule, UserCommand, Goto, clock
<1>3. CASE PortStep \/ TimePasses \/ (\E o \in Offsets : OsClockSteps(o)) \/ UNCHANGED vars
  BY <1>3 DEF PortStep, TimePasses, OsClockSteps, vars, clock
<1>4. ASSUME NEW t \in Thread, SyncStep(t)
      PROVE  TickOK'
  <2>1. CASE Observe(t)
    BY <2>1 DEF Observe, Synced, Goto
  <2>2. CASE Anchor(t)
    BY <2>2 DEF Anchor, Synced, Goto, SyncOK, None
  <2>3. CASE ResetFrontier(t)
    BY <2>3 DEF ResetFrontier, Synced, Goto, clock
  <2> QED
    BY <1>4, <2>1, <2>2, <2>3 DEF SyncStep
<1> QED
  BY <1>1, <1>2, <1>3, <1>4 DEF Next

LEMMA TypeInvariant == Spec => []TypeInv
<1>1. TypeInv /\ [Next]_vars => TypeInv'
  BY PortTypes, FlagTypes, ClockTypes, SettingTypes, LockTypes, SyncTypes, TickTypes
  DEF TypeInv
<1> QED
  BY TypeInit, <1>1, PTL DEF Spec

\* Trusted clock, evaluator, prober and App keep their fields in range, app.lock has one
\* holder, and who waits for it or has it is where the lock is asked for.
THEOREM TypeCorrect == Spec => []TypeOK
  BY TypeInvariant, TypeInvImpliesTypeOK, PTL

\* bind_schedule() brings the schedule up as it was last saved (store.py, load() and
\* save()): no press during start-up and no failed save decides.
THEOREM StartKeepsSwitch == Spec => SwitchKept
<1>1. ASSUME TypeInv, [Next]_vars, pc["ui"] = "bind", pc'["ui"] = "wait"
      PROVE  enabled' = (kept = "on")
  <2> USE <1>1 DEF TypeInv, LockOK, Thread
  <2>1. CASE BindSchedule
    BY <2>1 DEF BindSchedule, SettingOK
  <2>2. CASE UiStep
    BY <2>1, <2>2
    DEF UiStep, LoadFlag, SkipPoll, Poll, ReadEnabled, ReadBaseMono, ReadBaseWall,
        ReadActive, Seed, Seeded, TickRaises, Collect, PostDecision, Compare, Advance
  <2>3. CASE OpStep
    BY <2>3
    DEF OpStep, SetManualTime, ForceSync, ForcePoll, ToggleSchedule, UserCommand, Restart,
        Goto
  <2>4. CASE PortStep \/ TimePasses \/ (\E o \in Offsets : OsClockSteps(o)) \/ UNCHANGED vars
    BY <2>4 DEF PortStep, TimePasses, OsClockSteps, vars
  <2>5. ASSUME NEW t \in Thread, SyncStep(t)
        PROVE  FALSE
    BY <2>5 DEF SyncStep, Observe, Anchor, ResetFrontier, Synced, Goto
  <2> QED
    BY <2>2, <2>3, <2>4, <2>5 DEF Next
<1> QED
  BY <1>1, TypeInvariant, PTL DEF Spec, SwitchKept

-------------------------------------------------------------------------------
\* The steps of a tick that has collected its events and not yet moved the frontier.
Collected == {"post", "compare", "advance"}

\* What has been evaluated since the seed is what the frontier says, but for the tick
\* that has collected its events and not yet moved the frontier; and nothing has been
\* while there is no frontier.
FrontierInv ==
    /\ frontier = None <=> seeded = None
    /\ seeded \in Nat \cup {None}
    /\ frontier = None => done = {}
    /\ frontier # None =>
         /\ seeded <= frontier
         /\ EventsIn(seeded, frontier) \subseteq done
         /\ \A e \in done :
              /\ e.at \in Nat
              /\ e.at <= frontier \/ (pc["ui"] \in Collected /\ e.at <= tnow)
         /\ pc["ui"] \in Collected => EventsIn(frontier, tnow) \subseteq done
         /\ pc["ui"] = "advance" => frontier < tnow

\* Consecutive ticks see together what one tick over both would have seen.
LEMMA EventsJoin ==
    ASSUME NEW a \in Nat, NEW b \in Nat, NEW c \in Nat, a <= b, b <= c
    PROVE  EventsIn(a, c) = EventsIn(a, b) \cup EventsIn(b, c)
<1> DEFINE At(p, from, to) == {[kind |-> p.kind, cfg |-> p.cfg, at |-> t] :
                                 t \in FiringsIn(p.moment, from, to)}
<1>1. ASSUME NEW p \in Plan
      PROVE  At(p, a, c) = At(p, a, b) \cup At(p, b, c)
  <2>1. p.moment \in Moment
    BY ScheduleAssumption DEF ScheduleAssumption
  <2>2. FiringsIn(p.moment, a, c) = FiringsIn(p.moment, a, b) \cup FiringsIn(p.moment, b, c)
    BY <2>1, TicksPartitionFirings
  <2> QED
    BY <2>2
<1>2. /\ EventsIn(a, c) = UNION {At(p, a, c) : p \in Plan}
      /\ EventsIn(a, b) = UNION {At(p, a, b) : p \in Plan}
      /\ EventsIn(b, c) = UNION {At(p, b, c) : p \in Plan}
  BY DEF EventsIn
<1> HIDE DEF At
<1>3. ASSUME NEW e
      PROVE  e \in EventsIn(a, c) <=> e \in EventsIn(a, b) \/ e \in EventsIn(b, c)
  BY <1>1, <1>2
<1> QED
  BY <1>3

\* Nothing falls between an instant and itself, or an earlier one.
LEMMA EventsNone ==
    ASSUME NEW a \in Nat, NEW b \in Nat, b <= a
    PROVE  EventsIn(a, b) = {}
<1>1. ASSUME NEW e \in EventsIn(a, b)
      PROVE  FALSE
  BY EventsType
<1> QED
  BY <1>1

LEMMA FrontierInit == Init => FrontierInv
  BY DEF Init, FrontierInv, None

LEMMA FrontierStep ==
    ASSUME TypeInv, FrontierInv, [Next]_vars
    PROVE  FrontierInv'
<1> USE DEF TypeInv, LockOK, TickOK, Thread, None, Collected
<1>1. ASSUME UNCHANGED <<frontier, seeded, done, tnow>>,
             pc'["ui"] \in Collected => pc'["ui"] = pc["ui"],
             pc["ui"] \in Collected => pc'["ui"] = pc["ui"]
      PROVE  FrontierInv'
  BY <1>1 DEF FrontierInv
<1>2. ASSUME frontier' = None, seeded' = None, done' = {}
      PROVE  FrontierInv'
  BY <1>2 DEF FrontierInv
<1>3. CASE UiStep
  <2>1. CASE LoadFlag \/ BindSchedule \/ SkipPoll \/ (\E synced \in BOOLEAN : Poll(synced))
             \/ ReadActive \/ Seeded
    BY <1>1, <2>1
    DEF LoadFlag, BindSchedule, SkipPoll, Poll, ReadActive, Seeded, Goto, local, history,
        UiLabels
  <2>2. CASE ReadEnabled
    BY <1>1, <1>2, <2>2 DEF ReadEnabled, ForgetFrontier, Goto, local, history
  <2>3. CASE ReadBaseMono \/ ReadBaseWall
    <3>1. \/ frontier' = None /\ seeded' = None /\ done' = {}
          \/ /\ UNCHANGED <<frontier, seeded, done>>
             /\ pc["ui"] \in {"now", "add"} /\ pc'["ui"] \in {"add", "active"}
      BY <2>3 DEF ReadBaseMono, ReadBaseWall, ForgetFrontier, Goto, history
    <3> QED
      BY <1>2, <3>1 DEF FrontierInv
  <2>4. CASE Seed
    <3>1. /\ frontier' = tnow /\ seeded' = tnow /\ done' = {} /\ tnow \in Nat
          /\ pc'["ui"] = "wait"
      BY <2>4 DEF Seed, Return, Goto, Ticking
    <3>2. EventsIn(seeded', frontier') = {}
      BY <3>1, EventsNone
    <3> QED
      BY <3>1, <3>2 DEF FrontierInv
  <2>5. CASE TickRaises
    BY <1>2, <2>5 DEF TickRaises, history, FrontierInv
  <2>6. CASE Collect
    <3> DEFINE due == EventsIn(frontier, tnow)
    <3>1. /\ frontier \in Nat /\ tnow \in Nat /\ done' = done \cup due
          /\ UNCHANGED <<frontier, seeded, tnow>>
          /\ pc["ui"] = "collect" /\ pc'["ui"] \in {"post", "compare"}
      BY <2>6 DEF Collect, Goto, Ticking
    <3>2. \A e \in due : e.at \in Nat /\ e.at <= tnow
      BY <3>1, EventsType
    <3> QED
      BY <3>1, <3>2 DEF FrontierInv
  <2>7. CASE PostDecision
    <3>1. /\ UNCHANGED <<frontier, seeded, done, tnow>>
          /\ pc["ui"] = "post" /\ pc'["ui"] \in {"post", "compare"}
      BY <2>7 DEF PostDecision, Goto, history
    <3> QED
      BY <3>1 DEF FrontierInv
  <2>8. CASE Compare
    <3>1. /\ UNCHANGED <<frontier, seeded, done>>
          /\ frontier \in Nat /\ tnow \in Nat
          /\ pc["ui"] = "compare"
          /\ \/ tnow > frontier /\ pc'["ui"] = "advance" /\ tnow' = tnow
             \/ tnow <= frontier /\ pc'["ui"] = "wait"
      BY <2>8 DEF Compare, Return, Goto, history, local, Ticking
    <3> QED
      BY <3>1 DEF FrontierInv
  <2>9. CASE Advance
    <3>1. /\ frontier' = tnow /\ tnow \in Nat /\ done' = done
          /\ seeded' = IF seeded = None THEN tnow ELSE seeded
          /\ pc["ui"] = "advance" /\ pc'["ui"] = "wait"
      BY <2>9 DEF Advance, Return, Goto, Ticking
    <3>2. CASE frontier = None
      <4>1. EventsIn(tnow, tnow) = {}
        BY <3>1, EventsNone
      <4> QED
        BY <3>1, <3>2, <4>1 DEF FrontierInv
    <3>3. CASE frontier # None
      <4>1. EventsIn(seeded, tnow) = EventsIn(seeded, frontier) \cup EventsIn(frontier, tnow)
        BY <3>1, <3>3, EventsJoin DEF FrontierInv
      <4> QED
        BY <3>1, <3>3, <4>1 DEF FrontierInv
    <3> QED
      BY <3>2, <3>3
  <2> QED
    BY <1>3, <2>1, <2>2, <2>3, <2>4, <2>5, <2>6, <2>7, <2>8, <2>9 DEF UiStep
<1>4. CASE OpStep
  <2>1. CASE Restart
    BY <1>2, <2>1 DEF Restart
  <2> QED
    BY <1>1, <1>4, <2>1
    DEF OpStep, SetManualTime, ForceSync, ForcePoll, ToggleSchedule, UserCommand, Goto,
        local, history
<1>5. CASE PortStep \/ TimePasses \/ (\E o \in Offsets : OsClockSteps(o)) \/ UNCHANGED vars
  BY <1>1, <1>5 DEF PortStep, TimePasses, OsClockSteps, vars, local, history
<1>6. ASSUME NEW t \in Thread, SyncStep(t)
      PROVE  FrontierInv'
  <2>1. CASE Observe(t) \/ Anchor(t)
    BY <1>1, <2>1 DEF Observe, Anchor, Synced, Goto, local, history, UiLabels
  <2>2. CASE ResetFrontier(t)
    BY <1>2, <2>2 DEF ResetFrontier
  <2> QED
    BY <1>6, <2>1, <2>2 DEF SyncStep
<1> QED
  BY <1>3, <1>4, <1>5, <1>6 DEF Next

LEMMA FrontierInvariant == Spec => [](TypeInv /\ FrontierInv)
<1>1. FrontierInv /\ TypeInv /\ [Next]_vars => FrontierInv'
  BY FrontierStep
<1> QED
  BY FrontierInit, TypeInvariant, <1>1, PTL DEF Spec

\* However late the UI loop is, wherever time passes inside a tick and whatever another
\* thread does to the frontier: every start and end between the seed and the frontier
\* has been evaluated.
THEOREM NoEventSkipped == Spec => []NoneSkipped
<1>1. FrontierInv => NoneSkipped
  BY DEF FrontierInv, NoneSkipped
<1> QED
  BY FrontierInvariant, <1>1, PTL

\* A clock that is slewed back, or a frontier that another thread resets in the middle
\* of a tick, has no start or end evaluated a second time.
THEOREM NoEventTwice == Spec => EvaluatedOnce
<1>1. ASSUME TypeInv, FrontierInv, pc["ui"] = "collect"
      PROVE  EventsIn(frontier, tnow) \cap done = {}
  <2>1. CASE frontier = None
    BY <1>1, <2>1 DEF FrontierInv
  <2>2. CASE frontier # None
    <3>1. frontier \in Nat /\ tnow \in Nat
      BY <1>1, <2>2 DEF TypeInv, TickOK, Ticking
    <3>2. \A e \in EventsIn(frontier, tnow) : e.at \in Nat /\ frontier < e.at
      BY <3>1, EventsType
    <3>3. \A e \in done : e.at <= frontier
      BY <1>1, <2>2 DEF FrontierInv, Collected
    <3> QED
      BY <3>1, <3>2, <3>3
  <2> QED
    BY <2>1, <2>2
<1> QED
  BY <1>1, FrontierInvariant, PTL DEF Spec, EvaluatedOnce

-------------------------------------------------------------------------------
\* ClockHeld while a sync is being dealt with: an accepted one has moved the first
\* field of the baseline and not yet the second, and what it will move the clock by is
\* within one more envelope.  A sync that has the lock before its outcome is decided is
\* a forced one.
HeldInv ==
    /\ lock # "free" /\ pc[lock] = "observe" => force
    /\ HasBaseline /\ (\A t \in Thread : pc[t] # "anchor")
         => Abs(baseWall - baseMono - anchor.offset) <= anchor.accepted * Tolerance(Horizon)
    /\ \A t \in Thread : pc[t] = "anchor" /\ outcome[t] = "accepted"
         => /\ HasBaseline
            /\ Abs(obs[t] - baseMono - anchor.offset)
                 <= (anchor.accepted + 1) * Tolerance(Horizon)

\* The envelope widens with the age of the baseline.
LEMMA ToleranceMonotone ==
    ASSUME NEW a \in Nat, NEW b \in Nat, a <= b
    PROVE  Tolerance(a) \in Nat /\ Tolerance(b) \in Nat /\ Tolerance(a) <= Tolerance(b)
<1>1. /\ a \div Drift \in Nat /\ (a \div Drift) * Drift <= a
      /\ b \div Drift \in Nat /\ b < (b \div Drift) * Drift + Drift
  BY ConstantTypes
<1> DEFINE m == a \div Drift
           n == b \div Drift
<1>2. ~(n < m)
  <2> SUFFICES ASSUME n < m PROVE FALSE
    OBVIOUS
  <2>1. PICK k \in Nat : m = n + 1 + k
    <3>1. m - n - 1 \in Nat /\ m = n + 1 + (m - n - 1)
      BY <1>1
    <3> QED
      BY <3>1
  <2> HIDE DEF m, n
  <2>2. m * Drift = n * Drift + Drift + k * Drift
    BY <1>1, <2>1, ConstantTypes DEF m, n
  <2>3. k * Drift >= 0 /\ n * Drift \in Nat /\ m * Drift \in Nat
    BY <1>1, <2>1, ConstantTypes DEF m, n
  <2> QED
    BY <1>1, <2>2, <2>3, ConstantTypes DEF m, n
<1>3. m <= n
  BY <1>1, <1>2
<1> HIDE DEF m, n
<1>4. m \in Nat /\ n \in Nat
  BY <1>1 DEF m, n
<1>5. Tolerance(a) = (IF BaseTolerance >= Safety + m THEN BaseTolerance ELSE Safety + m)
  BY DEF Tolerance, m
<1>6. Tolerance(b) = (IF BaseTolerance >= Safety + n THEN BaseTolerance ELSE Safety + n)
  BY DEF Tolerance, n
<1> QED
  BY <1>3, <1>4, <1>5, <1>6, ConstantTypes

LEMMA HeldInit == Init => HeldInv
  BY DEF Init, HeldInv, HasBaseline, Thread

LEMMA HeldStep ==
    ASSUME TypeInv, HeldInv, [Next]_vars
    PROVE  HeldInv'
<1> USE DEF TypeInv, LockOK, Thread
<1> DEFINE LockForced == lock # "free" /\ pc[lock] = "observe" => force
<1>1. ASSUME UNCHANGED <<baseMono, baseWall, anchor, outcome>>,
             \A t \in Thread : pc'[t] = "anchor" <=> pc[t] = "anchor",
             \A t \in Thread : pc[t] = "anchor" => obs'[t] = obs[t],
             LockForced'
      PROVE  HeldInv'
  <2>1. HasBaseline' <=> HasBaseline
    BY <1>1 DEF HasBaseline
  <2>2. (\A t \in Thread : pc'[t] # "anchor") <=> (\A t \in Thread : pc[t] # "anchor")
    BY <1>1
  <2>3. ASSUME NEW t \in Thread, pc'[t] = "anchor", outcome'[t] = "accepted"
        PROVE  /\ HasBaseline'
               /\ Abs(obs'[t] - baseMono' - anchor'.offset)
                    <= (anchor'.accepted + 1) * Tolerance(Horizon)
    <3>1. pc[t] = "anchor" /\ outcome[t] = "accepted" /\ obs'[t] = obs[t]
      BY <1>1, <2>3
    <3> QED
      BY <1>1, <2>1, <3>1 DEF HeldInv
  <2> QED
    BY <1>1, <2>1, <2>2, <2>3 DEF HeldInv
<1>2. LockForced
  BY DEF HeldInv
<1>3. CASE UiStep
  <2>1. /\ UNCHANGED <<baseMono, baseWall, anchor, outcome, force, lock>>
        /\ pc'["op"] = pc["op"]
        /\ pc["ui"] \notin {"observe", "anchor", "reset"} /\ pc'["ui"] # "anchor"
    BY <1>3
    DEF UiStep, LoadFlag, BindSchedule, SkipPoll, Poll, ReadEnabled, ReadBaseMono,
        ReadBaseWall, ReadActive, Seed, Seeded, TickRaises, Collect, PostDecision, Compare,
        Advance, ForgetFrontier, Return, Goto, clock, sync
  <2>2. obs'["op"] = obs["op"]
    BY <1>3
    DEF UiStep, LoadFlag, BindSchedule, SkipPoll, Poll, ReadEnabled, ReadBaseMono,
        ReadBaseWall, ReadActive, Seed, Seeded, TickRaises, Collect, PostDecision, Compare,
        Advance, SyncOK, sync
  <2> QED
    BY <1>1, <1>2, <2>1, <2>2
<1>4. CASE OpStep
  <2>1. CASE \E o \in Offsets : SetManualTime(o)
    BY <1>1, <2>1 DEF SetManualTime, Goto, SyncOK
  <2>2. CASE ForceSync
    BY <1>1, <1>2, <2>2 DEF ForceSync, Goto, sync
  <2>3. CASE \E synced \in BOOLEAN : ForcePoll(synced)
    BY <1>1, <1>2, <2>3 DEF ForcePoll, Goto, SyncOK, clock
  <2>4. CASE ToggleSchedule \/ \E c \in Command : UserCommand(c)
    BY <1>1, <1>2, <2>4 DEF ToggleSchedule, UserCommand, clock, sync
  <2>5. CASE Restart
    BY <2>5 DEF Restart, HeldInv, HasBaseline
  <2> QED
    BY <1>4, <2>1, <2>2, <2>3, <2>4, <2>5 DEF OpStep
<1>5. CASE PortStep \/ TimePasses \/ (\E o \in Offsets : OsClockSteps(o)) \/ UNCHANGED vars
  BY <1>1, <1>2, <1>5 DEF PortStep, TimePasses, OsClockSteps, vars, clock, sync
<1>6. ASSUME NEW t \in Thread, SyncStep(t)
      PROVE  HeldInv'
  <2> DEFINE width == Tolerance(Horizon)
  <2>1. CASE Observe(t)
    <3>1. pc[t] = "observe" /\ \A u \in Thread : pc[u] # "anchor"
      BY <2>1 DEF Observe
    <3>2. CASE ~Adopts(obs[t])
      <4>1. /\ lock' = "free" /\ UNCHANGED <<baseMono, baseWall, anchor>>
            /\ \A u \in Thread : pc'[u] # "anchor"
        BY <2>1, <3>1, <3>2 DEF Observe, Synced, Goto
      <4> QED
        BY <3>1, <4>1 DEF HeldInv, HasBaseline
    <3>3. CASE Adopts(obs[t])
      <4>1. /\ baseMono' = mono /\ UNCHANGED <<baseWall, anchor, obs>>
            /\ lock' = t /\ pc'[t] = "anchor"
            /\ \A u \in Thread : pc'[u] = "anchor" => u = t
            /\ outcome'[t] # "accepted" <=> force \/ ~HasBaseline
        BY <2>1, <3>1, <3>3 DEF Observe, Goto, FlagsOK
      <4>2. ASSUME ~force, HasBaseline
            PROVE  Abs(obs[t] - mono - anchor.offset) <= (anchor.accepted + 1) * width
        <5>1. Abs(baseWall - baseMono - anchor.offset) <= anchor.accepted * width
          BY <3>1, <4>2 DEF HeldInv
        <5>2. Abs(obs[t] - Predicted) <= Tolerance(mono - baseMono)
          BY <3>3, <4>2 DEF Adopts
        <5>3. mono - baseMono \in Nat /\ mono - baseMono <= Horizon
          BY <4>2, ConstantTypes DEF ClockOK, HasBaseline
        <5>4. width \in Nat /\ Tolerance(mono - baseMono) \in Nat
              /\ Tolerance(mono - baseMono) <= width
          BY <5>3, ToleranceMonotone, ConstantTypes
        <5>5. /\ obs[t] \in Int /\ mono \in Int /\ baseWall \in Int /\ baseMono \in Int
              /\ anchor.offset \in Int /\ anchor.accepted \in Nat
          BY <3>1, <4>2, ConstantTypes DEF ClockOK, SyncOK, HasBaseline
        <5> HIDE DEF width
        <5>6. /\ anchor.accepted * width \in Int
              /\ (anchor.accepted + 1) * width = anchor.accepted * width + width
          BY <5>4, <5>5
        <5> QED
          BY <5>1, <5>2, <5>4, <5>5, <5>6 DEF Abs, Predicted
      <4>3. HasBaseline => HasBaseline'
        BY <4>1, ConstantTypes DEF HasBaseline, ClockOK, None
      <4> QED
        BY <4>1, <4>2, <4>3 DEF HeldInv
    <3> QED
      BY <3>2, <3>3
  <2>2. CASE Anchor(t)
    <3>1. /\ pc[t] = "anchor" /\ baseMono' = baseMono /\ baseWall' = obs[t]
          /\ baseMono \in Int /\ obs[t] \in Int /\ anchor.offset \in Int
          /\ anchor.accepted \in Nat
          /\ \A u \in Thread : pc'[u] # "anchor"
          /\ pc'[t] # "observe"
          /\ lock' \in {"free", t}
      BY <2>2, ConstantTypes DEF Anchor, Synced, Goto, ClockOK, SyncOK
    <3>2. CASE outcome[t] # "accepted"
      <4>1. anchor'.offset = obs[t] - baseMono /\ anchor'.accepted = 0
        BY <2>2, <3>2 DEF Anchor
      <4>2. width \in Nat
        BY ToleranceMonotone, ConstantTypes
      <4> HIDE DEF width
      <4>3. Abs(baseWall' - baseMono' - anchor'.offset) <= anchor'.accepted * width
        BY <3>1, <4>1, <4>2 DEF Abs
      <4> QED
        BY <3>1, <4>3 DEF HeldInv, width
    <3>3. CASE outcome[t] = "accepted"
      <4>1. anchor'.offset = anchor.offset /\ anchor'.accepted = anchor.accepted + 1
        BY <2>2, <3>3 DEF Anchor, SyncOK
      <4> QED
        BY <3>1, <3>3, <4>1 DEF HeldInv
    <3> QED
      BY <3>2, <3>3
  <2>3. CASE ResetFrontier(t)
    <3>1. lock' = "free" /\ UNCHANGED <<baseMono, baseWall, anchor>>
          /\ \A u \in Thread : pc[u] # "anchor" /\ pc'[u] # "anchor"
      BY <2>3 DEF ResetFrontier, Synced, Goto, clock
    <3> QED
      BY <3>1 DEF HeldInv, HasBaseline
  <2> QED
    BY <1>6, <2>1, <2>2, <2>3 DEF SyncStep
<1> QED
  BY <1>3, <1>4, <1>5, <1>6 DEF Next

\* Whatever the OS clock is stepped to: without a first or a forced sync the trusted
\* clock stays where it was anchored, but for an envelope's width for every sync that
\* it has accepted since (trusted_clock.py, on_sync_observed).
THEOREM ClockStaysAnchored == Spec => []ClockHeld
<1>1. HeldInv /\ TypeInv /\ [Next]_vars => HeldInv'
  BY HeldStep
<1>2. TypeInv /\ HeldInv => ClockHeld
  <2>1. TypeInv /\ lock = "free" => \A t \in Thread : pc[t] # "anchor"
    BY DEF TypeInv, LockOK, Thread
  <2> QED
    BY <2>1 DEF HeldInv, ClockHeld
<1> QED
  BY HeldInit, TypeInvariant, <1>1, <1>2, PTL DEF Spec

-------------------------------------------------------------------------------
\* The decision of a tick, executed in its order, brings about what was intended.
LEMMA DecisionIsIntended ==
    ASSUME NEW from \in Nat, NEW to \in Nat, NEW a
    PROVE  AfterAll(a, Decide(EventsIn(from, to), a)) = Intended(EventsIn(from, to), a)
<1> DEFINE events == EventsIn(from, to)
           w == Winner(events).cfg
           ends == EndsActive(events, a)
           remains == IF ends THEN NoConfig ELSE a
<1>1. StartsOf(events) # {} => w \in Config /\ w # NoConfig
  BY WinnerIsLatestFirst, EventsType, PortAssumption DEF StartsOf
<1>2. /\ StopCommand.op = "stop" /\ StopCommand.cfg = NoConfig
      /\ \A c : /\ StartCommand(c).op = "start" /\ StartCommand(c).cfg = c
               /\ SwitchCommand(c).op = "switch" /\ SwitchCommand(c).cfg = c
      /\ NoCommand.op = "none"
  BY DEF StopCommand, StartCommand, SwitchCommand, NoCommand
<1>3. /\ \A r : After(r, StopCommand) = NoConfig
      /\ \A c : After(NoConfig, StartCommand(c)) = c
      /\ \A r, c : r # NoConfig => After(r, SwitchCommand(c)) = c
  BY <1>2 DEF After
<1>4. /\ \A r : AfterAll(r, <<>>) = r
      /\ \A r, c : AfterAll(r, <<c>>) = After(r, c)
      /\ \A r, c, d : AfterAll(r, <<c, d>>) = After(After(r, c), d)
  BY DEF AfterAll
<1>5. Intended(events, a) = IF StartsOf(events) # {} THEN w ELSE remains
  BY DEF Intended
<1> HIDE DEF w, ends
<1>6. CASE StartsOf(events) = {}
  <2>1. Decide(events, a) = IF ends THEN <<StopCommand>> ELSE <<>>
    BY <1>6 DEF Decide, ends
  <2> QED
    BY <1>3, <1>4, <1>5, <1>6, <2>1
<1>7. CASE StartsOf(events) # {} /\ remains = NoConfig
  <2>1. Decide(events, a) = IF ends THEN <<StopCommand, StartCommand(w)>>
                            ELSE <<StartCommand(w)>>
    <3>1. Decide(events, a) = (IF ends THEN <<StopCommand>> ELSE <<>>) \o <<StartCommand(w)>>
      BY <1>1, <1>7 DEF Decide, ends, w
    <3> QED
      BY <3>1
  <2> QED
    BY <1>3, <1>4, <1>5, <1>7, <2>1
<1>8. CASE StartsOf(events) # {} /\ remains # NoConfig
  <2>1. ~ends /\ remains = a
    BY <1>8
  <2>2. Decide(events, a) = IF a = w THEN <<>> ELSE <<SwitchCommand(w)>>
    BY <1>1, <1>8, <2>1 DEF Decide, ends, w
  <2> QED
    BY <1>3, <1>4, <1>5, <1>8, <2>1, <2>2
<1> QED
  BY <1>6, <1>7, <1>8

\* Whatever starts and ends a tick finds between the frontier and now, its decision is
\* right for the engine that it has read (schedule_evaluator.py, tick).  That the engine
\* is still so when the commands arrive is what no theorem says: run schedule_handover.
THEOREM DecisionsSound == Spec => DecisionSound
<1> DEFINE Decided ==
      pc["ui"] = "collect" /\ pc'["ui"] \in {"post", "compare"}
        => AfterAll(active, todo') = Intended(EventsIn(frontier, tnow), active)
<1>1. ASSUME TypeInv, [Next]_vars
      PROVE  Decided
  <2> SUFFICES ASSUME pc["ui"] = "collect", pc'["ui"] \in {"post", "compare"}
               PROVE  AfterAll(active, todo') = Intended(EventsIn(frontier, tnow), active)
    OBVIOUS
  <2>1. Collect
    <3> USE <1>1 DEF TypeInv, LockOK, Thread
    <3>1. CASE UiStep
      BY <3>1
      DEF UiStep, LoadFlag, BindSchedule, SkipPoll, Poll, ReadEnabled, ReadBaseMono,
          ReadBaseWall, ReadActive, Seed, Seeded, TickRaises, PostDecision, Compare,
          Advance, Return, Goto
    <3>2. CASE OpStep
      BY <3>2
      DEF OpStep, SetManualTime, ForceSync, ForcePoll, ToggleSchedule, UserCommand,
          Restart, Goto
    <3>3. CASE PortStep \/ TimePasses \/ (\E o \in Offsets : OsClockSteps(o))
               \/ UNCHANGED vars
      BY <3>3 DEF PortStep, TimePasses, OsClockSteps, vars
    <3>4. ASSUME NEW t \in Thread, SyncStep(t)
          PROVE  FALSE
      BY <3>4 DEF SyncStep, Observe, Anchor, ResetFrontier, Synced, Goto
    <3> QED
      BY <1>1, <3>1, <3>2, <3>3, <3>4 DEF Next
  <2>2. frontier \in Nat /\ tnow \in Nat
    BY <1>1, <2>1 DEF TypeInv, TickOK, Ticking, Collect
  <2>3. todo' = Decide(EventsIn(frontier, tnow), active)
    BY <2>1 DEF Collect
  <2> QED
    BY <2>2, <2>3, DecisionIsIntended
<1>2. TypeInv /\ [Next]_vars => [Decided]_vars
  BY <1>1
<1> QED
  BY TypeInvariant, <1>2, PTL DEF Spec, DecisionSound
===============================================================================
