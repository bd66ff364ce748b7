------------------------------- MODULE Editor -------------------------------
(***************************************************************************)
(* A draft in the edit screen (ui/edit_screen.py): the cursor and the      *)
(* window of rows, the name and its keyboard, the interval, the start and  *)
(* the end and their picker, the Shots row with the snapshot that brings   *)
(* trimmed shots back, the rows of each shot, and the bracket generator    *)
(* (ui/bracket_screen.py, bracket.py), whose ladder replaces the shots.    *)
(*                                                                         *)
(* Exposures are whole numbers on one scale and the light of a shot is     *)
(* their product; EV steps are whole.  Saving and discarding are App's.    *)
(* One visit to the editor is about some of the rows only, a bound.        *)
(***************************************************************************)
EXTENDS Integers, Sequences, SequencesExt, Keyboard, Picker

CONSTANTS
    Shutters,   \* SHUTTER_VALUES, ascending
    Isos,       \* ISO_VALUES, ascending
    Apertures,  \* APERTURE_VALUES, 0 for None
    Steps,      \* EV_STEP_VALUES
    MaxShots,   \* MAX_SHOTS_PER_BRACKET
    Default,    \* the first manual shot; the generator's reference in auto mode
    Visible,    \* _VISIBLE_FIELDS
    Originals,  \* the shots of the configurations the editor is opened on
    Intervals,  \* INTERVALS_S, ascending
    Listed,     \* the names in the list of configurations
    NewName,    \* the name _new_config gives
    Interval,   \* the interval of a configuration, which need not be on the scale
    Moments,    \* the starts of the configurations
    MaxEdits,   \* bound: changes of a shot's values in one session
    MaxLadders, \* bound: openings of the generator in one session
    MaxFields   \* bound: changes of its fields

ASSUME EditorAssumption ==
    /\ MaxShots \in Nat \ {0}
    /\ Visible \in Nat /\ Visible > 5
    /\ {MaxEdits, MaxLadders, MaxFields} \subseteq Nat
    /\ {Shutters, Isos, Intervals} \subseteq Seq(Nat \ {0}) \ {<<>>}
    /\ {Apertures, Steps} \subseteq Seq(Nat) \ {<<>>}
    /\ \A values \in {Shutters, Isos} :
           \A i, j \in DOMAIN values : i < j => values[i] < values[j]
    /\ Interval \in Nat \ {0}
    /\ Moments \subseteq Moment
    /\ \A name \in Listed \cup {NewName} :
           name \in Seq(Chars) /\ Len(name) \in 1..Longest["config_name"]

VARIABLES
    about,      \* the rows the visit is about: "shots", "name" or "moments"; bounds the run
    draft,      \* draft.name, interval_s, start and end, and original.name
    shots,      \* draft.shots, <<>> in auto mode
    snapshot,   \* _manual_shots_snapshot, <<>> for None
    cursor,     \* field_cursor
    scroll,     \* scroll_offset
    gen,        \* the parameters of the generator that is open
    edits,      \* bound the run
    ladders,
    fields,
    base        \* history: what the operator last made of each shot

bounds == <<edits, ladders, fields>>
others == <<about, draft, picker, turns, left, keyboard>>
editor == <<screen, shots, snapshot, cursor, scroll, gen, bounds, base, others>>

Shot == [shutter : Nat \ {0}, iso : Nat \ {0}, aperture : Nat]
Light(s) == s.shutter * s.iso

\* validate_strict, for the shots: as many as may be, and exposures within the range.
Saveable(list) ==
    /\ Len(list) <= MaxShots
    /\ \A i \in DOMAIN list :
         /\ list[i].shutter \in Shutters[1]..Last(Shutters)
         /\ list[i].iso \in Isos[1]..Last(Isos)

ASSUME ShotsAssumption ==
    \A shotList \in Originals \cup {<<Default>>} :
        shotList \in Seq(Shot) /\ Saveable(shotList)

Bound(lo, n, hi) == IF n < lo THEN lo ELSE IF n > hi THEN hi ELSE n
Abs(n) == IF n < 0 THEN -n ELSE n

\* Where a value is in a list or, by _snap_index, where the nearest number is.
Place(v, list) ==
    LET numbers == Range(list) \ {0}
    IN SelectInSeq(list, LAMBDA w :
           IF v \in Range(list) THEN w = v
           ELSE w \in numbers /\ \A u \in numbers : Abs(w - v) <= Abs(u - v))

\* cycle_in_list: the next value, or the previous one, with wrap-around; a value that
\* is not in the list, from an edited file, counts as the nearest that is.
Cycle(v, list, d) == list[((Place(v, list) - 1 + d) % Len(list)) + 1]

NoGen == [ref |-> Default, brightest |-> FALSE, step |-> Steps[1], n |-> 0,
          iso1 |-> Isos[1], iso2 |-> 0]

\* EditScreenInteraction, on a configuration of the list or on a new one
EditorInit ==
    /\ screen = "edit"
    /\ about \in {"shots", "name", "moments"}
    /\ shots \in Originals
    /\ \E name \in Listed \cup {NewName}, start \in Moments :
         draft = [original |-> name, name |-> name, interval |-> Interval,
                  start |-> start, end |-> NoMoment]
    /\ about = "shots" => draft.name = NewName /\ draft.start = NoMoment
    /\ about = "name" => draft.start = NoMoment
    /\ about = "moments" => draft.name = NewName
    /\ about # "shots" => shots = <<>>
    /\ snapshot = shots
    /\ cursor = 0 /\ scroll = 0
    /\ gen = NoGen
    /\ edits = 0 /\ ladders = 0 /\ fields = 0
    /\ base = shots

-------------------------------------------------------------------------------
\* Rows: name, interval, shots, start, end, generate, then three for each shot.
Rows(list) == 6 + 3 * Len(list)
NameRow == 0
IntervalRow == 1
ShotsRow == 2
MomentRows == [row \in {3, 4} |-> IF row = 3 THEN "start" ELSE "end"]
GenerateRow == 5
ShotAt(row) == (row - 6) \div 3 + 1
ParamAt(row) == <<"shutter", "iso", "aperture">>[((row - 6) % 3) + 1]
Values == [shutter |-> Shutters, iso |-> Isos, aperture |-> Apertures]

\* A mistake: the window follows one row late.
MoveCursor_ScrollsLate(d) ==
    /\ screen = "edit"
    /\ cursor' = Bound(0, cursor + d, Rows(shots) - 1)
    /\ scroll' = IF cursor' < scroll THEN cursor'
                 ELSE IF cursor' > scroll + Visible THEN cursor' - Visible + 1
                 ELSE scroll
    /\ UNCHANGED <<screen, shots, snapshot, gen, bounds, base, others>>

MoveCursor(d) ==
    /\ screen = "edit"
    /\ cursor' = Bound(0, cursor + d, Rows(shots) - 1)
    /\ scroll' = IF cursor' < scroll THEN cursor'
                 ELSE IF cursor' >= scroll + Visible THEN cursor' - Visible + 1
                 ELSE scroll
    /\ UNCHANGED <<screen, shots, snapshot, gen, bounds, base, others>>

\* _merge_into_snapshot: the shots the draft has, then those trimmed before.
Merged == shots \o SubSeq(snapshot, Len(shots) + 1, Len(snapshot))

\* _restore_shots: the first n of the snapshot; more of them are like the last.
Restore(snap, n) ==
    IF n <= Len(snap) THEN SubSeq(snap, 1, n)
    ELSE snap \o [i \in 1..(n - Len(snap)) |-> Last(snap)]

\* A mistake: the shots shown are not merged into the snapshot.
CycleShots_Unmerged(d) ==
    LET n == (Len(shots) + d) % (MaxShots + 1)
        snap == IF snapshot = <<>> THEN <<Default>> ELSE snapshot
    IN /\ screen = "edit" /\ about = "shots" /\ cursor = ShotsRow
       /\ shots' = IF n = 0 THEN <<>> ELSE Restore(snap, n)
       /\ snapshot' = snap
       /\ UNCHANGED <<screen, cursor, scroll, gen, bounds, base, others>>

\* _cycle_shots: auto, 1, 2, ... MaxShots, and round again.
CycleShots(d) ==
    LET n == (Len(shots) + d) % (MaxShots + 1)
        snap == IF Merged = <<>> /\ n # 0 THEN <<Default>> ELSE Merged
    IN /\ screen = "edit" /\ about = "shots" /\ cursor = ShotsRow
       /\ shots' = IF n = 0 THEN <<>> ELSE Restore(snap, n)
       /\ snapshot' = snap
       /\ UNCHANGED <<screen, cursor, scroll, gen, bounds, base, others>>

\* _update_shot_param, on one of the rows of a shot
CycleParam(d) ==
    LET i == ShotAt(cursor)
        p == ParamAt(cursor)
    IN /\ screen = "edit" /\ cursor > GenerateRow
       /\ edits < MaxEdits /\ edits' = edits + 1
       /\ shots' = [shots EXCEPT ![i][p] = Cycle(@, Values[p], d)]
       /\ base' = IF Len(base) < Len(shots) THEN shots' ELSE [base EXCEPT ![i] = shots'[i]]
       /\ UNCHANGED <<screen, snapshot, cursor, scroll, gen, ladders, fields, others>>

-------------------------------------------------------------------------------
\* The generator opens on the first shot, with five rungs a step apart.
OpenGenerator ==
    /\ screen = "edit" /\ about = "shots" /\ cursor = GenerateRow
    /\ ladders < MaxLadders /\ ladders' = ladders + 1
    /\ screen' = "bracket_gen"
    /\ LET ref == IF shots = <<>> THEN Default ELSE shots[1]
       IN gen' = [ref |-> ref, brightest |-> FALSE, step |-> Steps[1],
                  n |-> Bound(1, 5, MaxShots), iso1 |-> ref.iso, iso2 |-> 0]
    /\ UNCHANGED <<shots, snapshot, cursor, scroll, edits, fields, base, others>>

\* BracketGenInteraction._cycle, for any of its fields
CycleField(d) ==
    \/ \E p \in {"shutter", "iso", "aperture"} :
         gen' = [gen EXCEPT !.ref[p] = Cycle(@, Values[p], d)]
    \/ gen' = [gen EXCEPT !.brightest = ~@]
    \/ gen' = [gen EXCEPT !.step = Cycle(@, Steps, d)]
    \/ gen' = [gen EXCEPT !.n = Cycle(@, [i \in 1..MaxShots |-> i], d)]
    \/ gen' = [gen EXCEPT !.iso1 = Cycle(@, Isos, d)]
    \/ gen' = [gen EXCEPT !.iso2 = Cycle(@, <<0>> \o Isos, d)]

GeneratorCycles(d) ==
    /\ screen = "bracket_gen"
    /\ fields < MaxFields /\ fields' = fields + 1
    /\ CycleField(d)
    /\ UNCHANGED <<screen, shots, snapshot, cursor, scroll, edits, ladders, base, others>>

\* Rung k needs the light num / den.
Num(g, k) == IF g.brightest THEN Light(g.ref) ELSE Light(g.ref) * 2^(g.step * k)
Den(g, k) == IF g.brightest THEN 2^(g.step * k) ELSE 1

\* _snap_nearest, of num / den; of two that are as near, the shorter.
Snap(num, den) ==
    Shutters[SelectInSeq(Shutters,
        LAMBDA v : \A u \in Range(Shutters) : Abs(v * den - num) <= Abs(u * den - num))]

Eligible(g) == {g.iso1} \cup ({g.iso2} \ {0})

\* A mistake: a rung beyond the end of the scale is clamped to it.
Candidates_Anywhere(g, k) ==
    {[shutter |-> Snap(Num(g, k), Den(g, k) * i), iso |-> i,
      aperture |-> g.ref.aperture] : i \in Eligible(g)}

\* The exposures with the light of rung k that the grid has a shutter for.
Candidates(g, k) ==
    LET den(i) == Den(g, k) * i
        inGrid == {i \in Eligible(g) : /\ Shutters[1] * den(i) <= Num(g, k)
                                       /\ Num(g, k) <= Last(Shutters) * den(i)}
    IN {[shutter |-> Snap(Num(g, k), den(i)), iso |-> i, aperture |-> g.ref.aperture] :
            i \in inGrid}

\* The shortest of them, of two the one with the lower ISO.
Best(S) ==
    CHOOSE s \in S : \A t \in S :
        s.shutter < t.shutter \/ (s.shutter = t.shutter /\ s.iso <= t.iso)

\* generate_bracket: the reference, then the rungs that have a candidate, the brightest
\* first.
Ladder(g) ==
    LET feasible == {k \in 1..(g.n - 1) : Candidates(g, k) # {}}
        nth(j) == CHOOSE k \in feasible : Cardinality({l \in feasible : l <= k}) = j
        rungs == <<g.ref>>
                 \o [j \in 1..Cardinality(feasible) |-> Best(Candidates(g, nth(j)))]
    IN IF g.brightest THEN rungs ELSE Reverse(rungs)

\* _dispatch_bracket_accept
Accept ==
    /\ screen = "bracket_gen"
    /\ screen' = "edit"
    /\ shots' = Ladder(gen)
    /\ base' = shots'
    /\ gen' = NoGen /\ fields' = 0
    /\ UNCHANGED <<snapshot, cursor, scroll, edits, ladders, others>>

Cancel ==
    /\ screen = "bracket_gen"
    /\ screen' = "edit"
    /\ gen' = NoGen /\ fields' = 0
    /\ UNCHANGED <<shots, snapshot, cursor, scroll, edits, ladders, base, others>>

-------------------------------------------------------------------------------
\* _cycle_value, on the interval's row
CycleInterval(d) ==
    /\ screen = "edit" /\ about = "name" /\ cursor = IntervalRow
    /\ draft' = [draft EXCEPT !.interval = Cycle(@, Intervals, d)]
    /\ UNCHANGED <<screen, shots, snapshot, cursor, scroll, gen, bounds, base,
                   about, picker, turns, left, keyboard>>

\* All but the screen, the draft's fields and the dialog that is open.
form == <<shots, snapshot, cursor, scroll, gen, bounds, base, about>>

\* A mistake: the names that are taken are not passed on.
OpenNameKeyboard_AnyName ==
    /\ screen = "edit" /\ about = "name" /\ cursor = NameRow
    /\ keyboard' = Keyboard("config_name", draft.name, {})
    /\ screen' = "name_keyboard"
    /\ UNCHANGED <<form, draft, picker, turns, left>>

\* The names of the list are taken, but for the one the draft has by now.
OpenNameKeyboard ==
    /\ screen = "edit" /\ about = "name" /\ cursor = NameRow
    /\ keyboard' = Keyboard("config_name", draft.name, Listed \ {draft.name})
    /\ screen' = "name_keyboard"
    /\ UNCHANGED <<form, draft, picker, turns, left>>

NameKeyboardEdits ==
    /\ screen = "name_keyboard" /\ KeyboardEdits
    /\ UNCHANGED <<screen, form, draft, picker, turns, left>>

\* _dispatch_name_keyboard_done, and ..._cancel
NameTyped ==
    /\ screen = "name_keyboard"
    /\ \/ KeyboardDone /\ draft' = [draft EXCEPT !.name = keyboard.text]
       \/ UNCHANGED draft
    /\ keyboard' = NoKeyboard
    /\ screen' = "edit"
    /\ UNCHANGED <<form, picker, turns, left>>

OpenMomentPicker ==
    /\ screen = "edit" /\ about = "moments" /\ cursor \in DOMAIN MomentRows
    /\ OpenPicker(MomentRows[cursor], draft[MomentRows[cursor]])
    /\ screen' = "picker"
    /\ UNCHANGED <<form, draft, turns, keyboard>>

EditorNext ==
    \/ \E d \in {-1, 1} :
         \/ MoveCursor(d) \/ CycleShots(d) \/ CycleParam(d) \/ GeneratorCycles(d)
         \/ CycleInterval(d)
    \/ OpenGenerator \/ Accept \/ Cancel
    \/ OpenNameKeyboard \/ NameKeyboardEdits \/ NameTyped \/ OpenMomentPicker

-------------------------------------------------------------------------------
\* The draft, and what cycling may bring back, can be saved at any time: no way through
\* the editor, the generator and the keyboard ends in a save that is refused.
EditorOK ==
    /\ \A list \in {shots, snapshot, base} : list \in Seq(Shot) /\ Saveable(list)
    /\ Len(draft.name) \in 1..Longest["config_name"]
    /\ draft.name \in Listed => draft.name = draft.original
    /\ draft.interval \in Nat \ {0}
    /\ \A m \in {draft.start, draft.end} : m \in Moments \/ m = NoMoment \/ ValidMoment(m)
    /\ gen.ref \in Shot /\ gen.n \in 0..MaxShots
    /\ edits \in 0..MaxEdits /\ ladders \in 0..MaxLadders
    /\ fields \in 0..MaxFields

\* The cursor is on a row that the draft has, and that row is in the window, whatever
\* made the draft shorter.
CursorShown ==
    /\ cursor \in 0..(Rows(shots) - 1)
    /\ cursor \in scroll..(scroll + Visible - 1)

\* Cycling through the numbers of shots, auto mode among them, never costs a shot: those
\* that are there are as the operator last made them.
ShotsKept ==
    \A i \in DOMAIN shots \cap DOMAIN base : shots[i] = base[i]

\* What the generator makes is a ladder: never empty, the reference as it is at its end,
\* and every shot darker than the one before, by what the camera will really be given.
LadderDescends ==
    [][Accept =>
         /\ gen.ref = IF gen.brightest THEN shots'[1] ELSE Last(shots')
         /\ \A i \in 2..Len(shots') : Light(shots'[i]) < Light(shots'[i - 1])]_editor
=============================================================================
