------------------------------- MODULE AppProofs -------------------------------
(***************************************************************************)
(* Theorems about module App, for any number of names and configurations:  *)
(* AppInv, the whole of what the screens, the list, its file and a handler *)
(* that waits know of each other; GestureInv on what a held button may     *)
(* still do; TimersInv on the router's timers.                             *)
(***************************************************************************)
EXTENDS App, SequenceTheorems, TLAPS

-------------------------------------------------------------------------------
\* The list of configurations.

LEMMA ListsAre ==
    \A list : list \in Lists <=> /\ list \in Seq(Name) /\ Len(list) <= MaxConfigs
                                 /\ IsInjective(list)
<1> USE StoreAssumption
<1>1. ASSUME NEW list \in Lists
      PROVE  list \in Seq(Name) /\ Len(list) <= MaxConfigs /\ IsInjective(list)
  <2>1. PICK n \in 0..MaxConfigs : list \in [1..n -> Name]
    BY DEF Lists
  <2>2. list \in Seq(Name) /\ Len(list) = n
    BY <2>1, SeqDef, LenProperties
  <2> QED
    BY <2>2 DEF Lists
<1>2. ASSUME NEW list \in Seq(Name), Len(list) <= MaxConfigs, IsInjective(list)
      PROVE  list \in Lists
  <2>1. list \in [1..Len(list) -> Name] /\ Len(list) \in 0..MaxConfigs
    BY <1>2, LenProperties
  <2> QED
    BY <1>2, <2>1 DEF Lists
<1> QED
  BY <1>1, <1>2

LEMMA NoList == <<>> \in Lists
<1>1. <<>> \in Seq(Name) /\ Len(<<>>) = 0
  BY EmptySeq
<1>2. IsInjective(<<>>)
  BY DEF IsInjective
<1>3. 0 <= MaxConfigs
  BY StoreAssumption
<1> QED
  BY <1>1, <1>2, <1>3, ListsAre, Zenon

\* Two lists end to end: where the elements of each have gone.
LEMMA Joined ==
    ASSUME NEW s \in Seq(Name), NEW t \in Seq(Name)
    PROVE  /\ s \o t \in Seq(Name)
           /\ Len(s) \in Nat /\ Len(t) \in Nat
           /\ DOMAIN (s \o t) = 1..(Len(s) + Len(t))
           /\ \A j \in 1..Len(s) : (s \o t)[j] = s[j]
           /\ \A j \in 1..Len(t) : (s \o t)[Len(s) + j] = t[j]
<1>1. /\ Len(s) \in Nat /\ Len(t) \in Nat
      /\ s \o t \in Seq(Name) /\ Len(s \o t) = Len(s) + Len(t)
      /\ \A i \in 1..Len(s) + Len(t) :
           (s \o t)[i] = IF i <= Len(s) THEN s[i] ELSE t[i - Len(s)]
  BY ConcatProperties, LenProperties, Zenon
<1>2. DOMAIN (s \o t) = 1..(Len(s) + Len(t))
  BY <1>1, LenProperties, Zenon
<1> DEFINE c == s \o t
           m == Len(s)
           n == Len(t)
<1>3. m \in Nat /\ n \in Nat
      /\ \A i \in 1..m + n : c[i] = IF i <= m THEN s[i] ELSE t[i - m]
  BY <1>1
<1> HIDE DEF c, m, n
<1>4. \A j \in 1..m : c[j] = s[j]
  BY <1>3
<1>5. ASSUME NEW j \in 1..n
      PROVE  c[m + j] = t[j]
  <2>1. m + j \in 1..m + n /\ ~(m + j <= m) /\ (m + j) - m = j
    BY <1>3
  <2> QED
    BY <1>3, <2>1
<1> QED
  BY <1>1, <1>2, <1>4, <1>5 DEF c, m, n

LEMMA PositionFound ==
    ASSUME NEW list \in Seq(Name), NEW n \in Range(list)
    PROVE  Position(list, n) \in 1..Len(list) /\ list[Position(list, n)] = n
<1>1. \E i \in DOMAIN list : list[i] = n
  BY DEF Range
<1>2. Position(list, n) \in DOMAIN list /\ list[Position(list, n)] = n
  BY <1>1, Zenon DEF Position
<1> QED
  BY <1>2, LenProperties

\* A copy goes in after its original.
LEMMA Inserted ==
    ASSUME NEW list \in Seq(Name), NEW n \in Range(list), NEW copy \in Name
    PROVE  LET longer == InsertAt(list, Position(list, n) + 1, copy)
           IN  longer \in Seq(Name) /\ copy \in Range(longer)
<1> DEFINE i == Position(list, n) + 1
           front == SubSeq(list, 1, i - 1)
           back == SubSeq(list, i, Len(list))
<1>1. Len(list) \in Nat /\ \A j \in 1..Len(list) : list[j] \in Name
  BY LenProperties
<1>2. i \in 2..(Len(list) + 1)
  BY <1>1, PositionFound
<1>3. front \in Seq(Name) /\ Len(front) = i - 1 /\ back \in Seq(Name)
  BY <1>1, <1>2, SubSeqProperties
<1>4. <<copy>> \in Seq(Name) /\ Len(<<copy>>) = 1 /\ <<copy>>[1] = copy
  OBVIOUS
<1> DEFINE shorter == front \o <<copy>>
           longer == shorter \o back
<1>5. longer = InsertAt(list, Position(list, n) + 1, copy)
  BY DEF InsertAt
<1> HIDE DEF i, front, back
<1>6. shorter \in Seq(Name) /\ i \in DOMAIN shorter /\ shorter[i] = copy
  <2>1. /\ shorter \in Seq(Name)
        /\ DOMAIN shorter = 1..(Len(front) + Len(<<copy>>))
        /\ \A j \in 1..Len(<<copy>>) : shorter[Len(front) + j] = <<copy>>[j]
    BY <1>3, <1>4, Joined, Zenon
  <2>2. DOMAIN shorter = 1..(i - 1 + 1) /\ \A j \in 1..1 : shorter[i - 1 + j] = <<copy>>[j]
    BY <1>3, <1>4, <2>1, Zenon
  <2>3. 1 \in 1..1 /\ i - 1 + 1 = i /\ i \in 1..(i - 1 + 1)
    BY <1>1, <1>2
  <2>4. shorter[i - 1 + 1] = <<copy>>[1]
    BY <2>2, <2>3, Zenon
  <2> QED
    BY <1>4, <2>1, <2>2, <2>3, <2>4, Zenon
<1> HIDE DEF shorter
<1>7. longer \in Seq(Name) /\ i \in DOMAIN longer /\ longer[i] = copy
  <2>1. /\ longer \in Seq(Name)
        /\ Len(shorter) \in Nat /\ Len(back) \in Nat
        /\ DOMAIN longer = 1..(Len(shorter) + Len(back))
        /\ \A j \in 1..Len(shorter) : longer[j] = shorter[j]
    BY <1>3, <1>6, Joined, Zenon
  <2>2. i \in 1..Len(shorter)
    BY <1>6, LenProperties, Zenon
  <2>3. i \in 1..(Len(shorter) + Len(back))
    BY <2>1, <2>2
  <2> QED
    BY <1>6, <2>1, <2>2, <2>3, Zenon
<1> HIDE DEF longer
<1> QED
  BY <1>5, <1>7, Zenon DEF Range

\* The draft takes the place of its original, or comes last; the others stay.
LEMMA Edited ==
    ASSUME configs \in Seq(Name), ui.edit.name \in Name
    PROVE  /\ EditedList \in Seq(Name)
           /\ ui.edit.name \in Range(EditedList)
           /\ Len(configs) <= Len(EditedList)
<1> DEFINE n == ui.edit.name
           i == Position(configs, ui.edit.original)
<1>1. Len(configs) \in Nat /\ configs \in [1..Len(configs) -> Name]
  BY LenProperties
<1>2. CASE Listed(ui.edit.original)
  <2>1. i \in 1..Len(configs)
    BY <1>2, PositionFound DEF Listed
  <2>2. EditedList = [configs EXCEPT ![i] = n]
    BY <1>2 DEF EditedList
  <2>3. /\ EditedList \in [1..Len(configs) -> Name]
        /\ DOMAIN EditedList = 1..Len(configs) /\ EditedList[i] = n
    BY <1>1, <2>1, <2>2
  <2>4. EditedList \in Seq(Name) /\ Len(EditedList) = Len(configs)
    BY <1>1, <2>3, SeqDef, LenProperties
  <2> QED
    BY <1>1, <2>1, <2>3, <2>4 DEF Range
<1>3. CASE ~Listed(ui.edit.original)
  <2>1. EditedList = Append(configs, n)
    BY <1>3 DEF EditedList
  <2>2. /\ EditedList \in Seq(Name) /\ Len(EditedList) = Len(configs) + 1
        /\ EditedList[Len(configs) + 1] = n
    BY <2>1, AppendProperties
  <2>3. Len(configs) + 1 \in DOMAIN EditedList
    BY <1>1, <2>2, LenProperties
  <2> QED
    BY <1>1, <2>2, <2>3 DEF Range
<1> QED
  BY <1>2, <1>3

\* One name is left out at most, and no other.
LEMMA LeftOut ==
    ASSUME configs \in Seq(Name), NEW n
    PROVE  /\ Without(n) \in Seq(Name)
           /\ \A m \in Range(configs) : m # n => m \in Range(Without(n))
<1>1. Len(configs) \in Nat /\ DOMAIN configs = 1..Len(configs)
      /\ \A j \in 1..Len(configs) : configs[j] \in Name
  BY LenProperties
<1>2. CASE ~Listed(n)
  BY <1>2 DEF Without
<1>3. CASE Listed(n)
  <2> DEFINE i == Position(configs, n)
             front == SubSeq(configs, 1, i - 1)
             back == SubSeq(configs, i + 1, Len(configs))
  <2>1. i \in 1..Len(configs) /\ configs[i] = n
    BY <1>3, PositionFound DEF Listed
  <2> HIDE DEF i
  <2>2. /\ front \in Seq(Name) /\ Len(front) = i - 1
        /\ \A j \in 1..(i - 1) : front[j] = configs[j]
    BY <1>1, <2>1, SubSeqProperties
  <2>3. /\ back \in Seq(Name) /\ Len(back) = Len(configs) - i
        /\ \A j \in 1..(Len(configs) - i) : back[j] = configs[i + j]
    <3>1. /\ i + 1 \in Int /\ Len(configs) \in Int
          /\ \A j \in (i + 1)..Len(configs) : configs[j] \in Name
      BY <1>1, <2>1
    <3>2. /\ back \in Seq(Name)
          /\ Len(back) = IF i + 1 <= Len(configs) THEN Len(configs) - (i + 1) + 1 ELSE 0
          /\ \A j \in 1..Len(configs) - (i + 1) + 1 : back[j] = configs[(i + 1) + j - 1]
      BY <3>1, SubSeqProperties
    <3> HIDE DEF back
    <3>3. Len(back) = Len(configs) - i
      <4> DEFINE m == Len(configs)
      <4>1. m \in Nat /\ i \in 1..m
        BY <1>1, <2>1
      <4>2. Len(back) = IF i + 1 <= m THEN m - (i + 1) + 1 ELSE 0
        BY <3>2
      <4> HIDE DEF m
      <4>3. Len(back) = m - i
        BY <4>1, <4>2
      <4> QED
        BY <4>3 DEF m
    <3>4. ASSUME NEW j \in 1..(Len(configs) - i)
          PROVE  back[j] = configs[i + j]
      <4>1. j \in 1..Len(configs) - (i + 1) + 1 /\ (i + 1) + j - 1 = i + j
        BY <1>1, <2>1
      <4> QED
        BY <3>2, <4>1, Zenon
    <3> QED
      BY <3>2, <3>3, <3>4
  <2>4. Without(n) = front \o back
    BY <1>3 DEF Without, RemoveAt, i
  <2> HIDE DEF front, back
  <2> DEFINE rest == front \o back
  <2>5. /\ rest \in Seq(Name)
        /\ DOMAIN rest = 1..((i - 1) + (Len(configs) - i))
        /\ \A j \in 1..(i - 1) : rest[j] = front[j]
        /\ \A j \in 1..(Len(configs) - i) : rest[(i - 1) + j] = back[j]
    <3>1. /\ rest \in Seq(Name)
          /\ DOMAIN rest = 1..(Len(front) + Len(back))
          /\ \A j \in 1..Len(front) : rest[j] = front[j]
          /\ \A j \in 1..Len(back) : rest[Len(front) + j] = back[j]
      BY <2>2, <2>3, Joined, Zenon
    <3> QED
      BY <2>2, <2>3, <3>1, Zenon
  <2> HIDE DEF rest
  <2>6. ASSUME NEW j \in 1..Len(configs), configs[j] # n
        PROVE  \E k \in DOMAIN rest : rest[k] = configs[j]
    <3>1. CASE j < i
      <4>1. j \in 1..(i - 1) /\ j \in 1..((i - 1) + (Len(configs) - i))
        BY <1>1, <2>1, <3>1
      <4> QED
        BY <2>2, <2>5, <4>1, Zenon
    <3>2. CASE j > i
      <4> DEFINE m == Len(configs)
      <4>0. i \in Nat /\ i >= 1 /\ m \in Nat /\ j \in Nat /\ j <= m
        BY <1>1, <2>1
      <4> HIDE DEF m
      <4>2. /\ (i - 1) + (j - i) \in 1..((i - 1) + (m - i))
            /\ j - i \in 1..(m - i)
            /\ i + (j - i) = j
        BY <4>0, <3>2
      <4>1. /\ (i - 1) + (j - i) \in 1..((i - 1) + (Len(configs) - i))
            /\ j - i \in 1..(Len(configs) - i)
            /\ i + (j - i) = j
        BY <4>2 DEF m
      <4>3. (i - 1) + (j - i) \in DOMAIN rest
        BY <2>5, <4>1, Zenon
      <4>4. rest[(i - 1) + (j - i)] = back[j - i]
        BY <2>5, <4>1, Zenon
      <4>5. back[j - i] = configs[i + (j - i)]
        BY <2>3, <4>1, Zenon
      <4>6. rest[(i - 1) + (j - i)] = configs[j]
        BY <4>1, <4>4, <4>5, Zenon
      <4> QED
        BY <4>3, <4>6, Zenon
    <3>3. j < i \/ j > i
      BY <1>1, <2>1, <2>6
    <3> QED
      BY <3>1, <3>2, <3>3
  <2>7. \A m \in Range(configs) : m # n => m \in Range(rest)
    BY <1>1, <2>6, Zenon DEF Range
  <2> QED
    BY <2>4, <2>5, <2>7 DEF rest
<1> QED
  BY <1>2, <1>3

FlagValue == {"up", "down", "long"}
Objects == {"time_setup", "bracket_gen", "wifi_list", "wifi_status"}
Pickers == {"none", "moment", "system_clock"}
Keyboards == {"none", "ssid", "password", "config_name"}
Edits == [original : Name \cup {NoName}, name : Name \cup {NoName}, touched : BOOLEAN]
Uis ==
    [screen : Screens, prev : Screens \cup {"none"}, cursor : Nat,
     target : Name \cup {NoName}, edit : Edits, open : SUBSET Objects,
     picker : Pickers, keyboard : Keyboards, flag : [Flags -> FlagValue]]

MainFlag == ui.flag[<<"main", "OK">>]

\* A screen that is shown has its objects; a draft is being edited and a flag of the main
\* screen set only where they are of use, or under the shutdown screens.
Fits(s) ==
    /\ Backed(s)
    /\ ui.edit # NoEdit
         => s \in EditScreens \cup {"picker", "overlay_poweroff", "shutting_down"}
    /\ s = "picker" => (ui.picker = "moment" <=> ui.edit # NoEdit)
    /\ MainFlag # "up" => s \in {"main", "overlay_stop", "overlay_poweroff", "shutting_down"}

DraftOK ==
    ui.edit # NoEdit =>
        /\ ui.edit.name \in Name /\ ui.edit.original \in Name
        /\ ui.edit.name \notin Range(configs) \/ ui.edit.name = ui.edit.original

WorkersOK ==
    /\ syncing \in BOOLEAN
    /\ wifi \in {"no", "scan", "connect"}
    /\ wifi # "no" => ~syncing /\ "wifi_list" \in ui.open /\ ui.edit = NoEdit
    /\ MainFlag # "up" => wifi = "no" /\ ~syncing
    /\ OperatorWaits

UiInv ==
    /\ ui \in Uis
    /\ ui.cursor <= Len(configs)
    /\ ui.screen = "overlay_poweroff"
         => ui.prev \notin {"none", "overlay_poweroff", "shutting_down"}
    /\ \A s \in Shown : Fits(s)
    /\ DraftOK
    /\ WorkersOK

\* What a move to another screen must bring along, when no worker is about.
LEMMA Moved ==
    ASSUME UiInv, UNCHANGED <<configs, wifi, syncing>>, wifi = "no", ~syncing,
           ui' \in Uis, ui'.cursor = ui.cursor, ui'.screen # "overlay_poweroff",
           Fits(ui.screen)', DraftOK'
    PROVE  UiInv'
<1>1. WorkersOK'
  BY DEF UiInv, WorkersOK, OperatorWaits
<1>2. Shown' = {ui.screen}'
  BY DEF Shown
<1> QED
  BY <1>1, <1>2 DEF UiInv

LEMMA GoFields ==
    ASSUME ui \in Uis, NEW s \in Screens, ui' = Go(s)
    PROVE  /\ ui' \in Uis /\ ui'.screen = s /\ ui'.prev = "none"
           /\ ui'.cursor = ui.cursor /\ ui'.target = ui.target /\ ui'.edit = ui.edit
           /\ ui'.open = ui.open /\ ui'.picker = ui.picker
           /\ ui'.keyboard = ui.keyboard /\ ui'.flag = ui.flag
  BY DEF Uis, Go

LEMMA Gone ==
    ASSUME UiInv, UNCHANGED <<configs, wifi, syncing>>, wifi = "no", ~syncing,
           NEW s \in Screens \ {"overlay_poweroff"}, Fits(s), ui' = Go(s)
    PROVE  UiInv'
<1>1. /\ ui' \in Uis /\ ui'.screen = s /\ ui'.cursor = ui.cursor
      /\ ui'.target = ui.target /\ ui'.edit = ui.edit
      /\ ui'.open = ui.open /\ ui'.picker = ui.picker
      /\ ui'.keyboard = ui.keyboard /\ ui'.flag = ui.flag
  BY GoFields DEF UiInv
<1>2. Fits(ui.screen)'
  BY <1>1 DEF Fits, Backed, MainFlag, Listed
<1>3. DraftOK'
  BY <1>1 DEF UiInv, DraftOK
<1> QED
  BY <1>1, <1>2, <1>3, Moved

\* No worker is about but on its own screen.
LEMMA Free ==
    ASSUME UiInv, ui.screen \notin {"shutting_down", "overlay_poweroff"},
           ui.screen = "time_setup" => ~syncing,
           ui.screen \in {"wifi_list", "wifi_status"} => wifi = "no"
    PROVE  wifi = "no" /\ ~syncing
  BY DEF UiInv, WorkersOK, OperatorWaits, Shown

LEMMA Still ==
    ASSUME UiInv, UNCHANGED <<ui, configs, wifi, syncing>>
    PROVE  UiInv'
  BY DEF UiInv, Shown, Fits, Backed, Listed, MainFlag, DraftOK, WorkersOK, OperatorWaits

LEMMA FlagFields ==
    ASSUME ui \in Uis, NEW f \in Flags, NEW v \in FlagValue,
           ui' = [ui EXCEPT !.flag[f] = v]
    PROVE  /\ ui' \in Uis /\ ui'.screen = ui.screen /\ ui'.prev = ui.prev
           /\ ui'.cursor = ui.cursor /\ ui'.target = ui.target /\ ui'.edit = ui.edit
           /\ ui'.open = ui.open /\ ui'.picker = ui.picker
           /\ ui'.keyboard = ui.keyboard /\ ui'.flag = [ui.flag EXCEPT ![f] = v]
<1>1. [ui.flag EXCEPT ![f] = v] \in [Flags -> FlagValue]
  BY DEF Uis
<1>2. ui' = [ui EXCEPT !.flag = [ui.flag EXCEPT ![f] = v]]
  BY DEF Uis
<1> QED
  BY <1>1, <1>2 DEF Uis

LEMMA ResetFields ==
    ASSUME ui \in Uis, NEW s \in {"main", "wifi_list"}
    PROVE  /\ ResetInput(s) \in [Flags -> FlagValue]
           /\ ResetInput("main")[<<"main", "OK">>] = "up"
           /\ ResetInput("wifi_list")[<<"main", "OK">>] = MainFlag
           /\ \A b \in Hold : ResetInput("wifi_list")[<<"wifi_list", b>>] = "up"
  BY DEF Uis, ResetInput, Flags, FlagValue, MainFlag, Hold

LEMMA MainMoves ==
    ASSUME UiInv, UNCHANGED <<configs, wifi, syncing>>, wifi = "no", ~syncing,
           \/ ui.edit = NoEdit /\ ui' = ToMain
           \/ ui' = DropDraft("main")
    PROVE  UiInv'
<1>1. /\ ui' \in Uis /\ ui'.screen = "main" /\ ui'.cursor = ui.cursor
      /\ ui'.edit = NoEdit
  <2>1. CASE ui.edit = NoEdit /\ ui' = ToMain
    BY <2>1 DEF UiInv, Uis, ToMain, Screens
  <2>2. CASE ui' = DropDraft("main")
    BY <2>2 DEF UiInv, Uis, DropDraft, NoEdit, Edits, Screens
  <2> QED
    BY <2>1, <2>2
<1>2. Fits(ui.screen)' /\ DraftOK'
  BY <1>1 DEF Fits, Backed, DraftOK, EditScreens
<1> QED
  BY <1>1, <1>2, Moved

LEMMA ListMoves ==
    ASSUME UiInv, UNCHANGED <<configs, wifi, syncing>>, wifi = "no", ~syncing,
           ui.edit = NoEdit, MainFlag = "up",
           ui'.open \in {ui.open, ui.open \ {"wifi_status"},
                        (ui.open \ {"time_setup"}) \cup {"wifi_list"}},
           "wifi_list" \in ui'.open,
           NEW k \in {ui.keyboard, "none"},
           ui' = [BackToList EXCEPT !.open = ui'.open, !.keyboard = k]
    PROVE  UiInv'
<1>1. ui \in Uis
  BY DEF UiInv
<1>2. /\ ResetInput("wifi_list") \in [Flags -> FlagValue]
      /\ ResetInput("wifi_list")[<<"main", "OK">>] = "up"
  BY <1>1, ResetFields
<1>3. ui'.open \in SUBSET Objects
  BY <1>1 DEF Uis, Objects
<1>4. ui.keyboard \in Keyboards /\ k \in Keyboards
  BY <1>1 DEF Uis, Keyboards
<1>5. /\ ui' \in Uis /\ ui'.screen = "wifi_list" /\ ui'.cursor = ui.cursor
      /\ ui'.edit = NoEdit /\ MainFlag' = "up"
  BY <1>1, <1>2, <1>3, <1>4 DEF Uis, Screens, MainFlag, BackToList, Go
<1> QED
  BY <1>5, Moved DEF Fits, Backed, DraftOK, EditScreens

\* The Wi-Fi worker starts and its status is shown.
LEMMA ConnectMoves ==
    ASSUME UiInv, UNCHANGED <<configs, syncing>>, wifi = "no", ~syncing,
           ui.edit = NoEdit, MainFlag = "up", "wifi_list" \in ui.open,
           NEW next \in Uis, next.cursor = ui.cursor, next.edit = ui.edit,
           next.open = ui.open, next.flag[<<"main", "OK">>] = "up",
           StartConnect(next)
    PROVE  UiInv'
<1>1. next.open \cup {"wifi_status"} \in SUBSET Objects
  BY DEF Uis, Objects
<1>2. /\ ui' \in Uis /\ ui'.screen = "wifi_status" /\ ui'.cursor = ui.cursor
      /\ ui'.edit = NoEdit /\ MainFlag' = "up" /\ "wifi_list" \in ui'.open
      /\ wifi' = "connect"
  BY <1>1 DEF StartConnect, Uis, Screens, Keyboards, MainFlag
<1>3. Shown' = {"wifi_status"}
  BY <1>2 DEF Shown
<1> QED
  BY <1>2, <1>3 DEF UiInv, Fits, Backed, DraftOK, WorkersOK, OperatorWaits, EditScreens

\* A change of a value leaves the draft a draft.
LEMMA TouchedStays ==
    ASSUME UiInv, UNCHANGED configs, ui.edit # NoEdit, NEW t \in BOOLEAN,
           ui'.edit = [ui.edit EXCEPT !.touched = t]
    PROVE  ui'.edit # NoEdit /\ DraftOK'
<1>1. ui.edit \in Edits /\ ui.edit.name \in Name /\ DraftOK
  BY DEF UiInv, DraftOK, Uis
<1>2. ui'.edit.name = ui.edit.name /\ ui'.edit.original = ui.edit.original
  BY <1>1 DEF Edits
<1>3. ui'.edit # NoEdit
  BY <1>1, <1>2, AppAssumption DEF NoEdit
<1> QED
  BY <1>1, <1>2, <1>3 DEF DraftOK

\* The press of a held button on the screens that show the list or a draft.
LEMMA MenuPress ==
    ASSUME UiInv, configs \in Seq(Name), UNCHANGED configs, NEW b \in Hold,
           \/ MainPress(b) \/ EditPress(b) \/ ManagePress(b) \/ StopPress(b)
           \/ SavePress(b) \/ DiscardPress(b) \/ DeletePress(b)
    PROVE  UiInv'
<1> USE DEF Show, workers
<1>0. ui.screen \in Shown /\ Fits(ui.screen) /\ ui \in Uis
  BY DEF Shown, UiInv
<1>1. ASSUME MainPress(b) PROVE UiInv'
  <2>1. ui.screen = "main" /\ wifi = "no" /\ ~syncing
    BY <1>1, Free DEF MainPress
  <2>2. ui.edit = NoEdit
    BY <1>0, <2>1 DEF Fits, EditScreens
  <2>3. CASE ui' = [ui EXCEPT !.flag[<<"main", "OK">>] = "down"]
    <3>1. <<"main", "OK">> \in Flags /\ "down" \in FlagValue
      BY DEF Flags, FlagValue
    <3>2. /\ ui' \in Uis /\ ui'.screen = "main" /\ ui'.cursor = ui.cursor /\ ui'.edit = ui.edit
      BY <1>0, <2>1, <2>3, <3>1, FlagFields
    <3> QED
      BY <1>1, <2>1, <2>2, <3>2, Moved DEF MainPress, Fits, Backed, DraftOK, EditScreens
  <2>4. CASE ui' = Go("overlay_stop")
    <3>1. Fits("overlay_stop")
      BY <1>0, <2>1, <2>2 DEF Fits, Backed, EditScreens
    <3> QED
      BY <1>1, <2>1, <2>4, <3>1, Gone DEF MainPress, Screens
  <2> QED
    BY <1>1, <2>3, <2>4, Still DEF MainPress
<1>2. ASSUME EditPress(b) PROVE UiInv'
  <2>1. ui.screen = "edit" /\ wifi = "no" /\ ~syncing
    BY <1>2, Free DEF EditPress
  <2>2. Fits("overlay_save") /\ Fits("overlay_discard")
    BY <1>0, <2>1 DEF Fits, Backed, EditScreens
  <2> QED
    BY <1>2, <2>1, <2>2, Gone, MainMoves DEF EditPress, Screens
<1>3. ASSUME DiscardPress(b) PROVE UiInv'
  <2>1. ui.screen = "overlay_discard" /\ wifi = "no" /\ ~syncing
    BY <1>3, Free DEF DiscardPress
  <2>2. Fits("edit")
    BY <1>0, <2>1 DEF Fits, Backed, EditScreens
  <2> QED
    BY <1>3, <2>1, <2>2, Gone, MainMoves DEF DiscardPress, Screens
<1>4. ASSUME StopPress(b) PROVE UiInv'
  <2>1. ui.screen = "overlay_stop" /\ wifi = "no" /\ ~syncing
    BY <1>4, Free DEF StopPress
  <2>2. ui.edit = NoEdit
    BY <1>0, <2>1 DEF Fits, EditScreens
  <2> QED
    BY <1>4, <2>1, <2>2, Still, MainMoves DEF StopPress, Call
<1>5. ASSUME SavePress(b) PROVE UiInv'
  <2>1. ui.screen = "overlay_save" /\ wifi = "no" /\ ~syncing
    BY <1>5, Free DEF SavePress
  <2>2. Fits("edit")
    BY <1>0, <2>1 DEF Fits, Backed, EditScreens
  <2>3. /\ UNCHANGED <<wifi, syncing>>
        /\ ui' = ui \/ ui' = DropDraft("main") \/ ui' = Go("edit")
    BY <1>5 DEF SavePress, SaveList
  <2> QED
    BY <2>1, <2>2, <2>3, Still, Gone, MainMoves DEF Screens
<1>6. ASSUME DeletePress(b) PROVE UiInv'
  <2>1. ui.screen = "overlay_delete" /\ wifi = "no" /\ ~syncing
    BY <1>6, Free DEF DeletePress
  <2>2. Fits("manage") /\ ui.edit = NoEdit
    BY <1>0, <2>1 DEF Fits, Backed, EditScreens
  <2>3. /\ UNCHANGED <<wifi, syncing>>
        /\ ui' = ui \/ ui' = ToMain \/ ui' = Go("manage")
    BY <1>6 DEF DeletePress, Delete, SaveList, Call
  <2> QED
    BY <2>1, <2>2, <2>3, Still, Gone, MainMoves DEF Screens
<1>7. ASSUME ManagePress(b) PROVE UiInv'
  <2>1. ui.screen = "manage" /\ wifi = "no" /\ ~syncing
    BY <1>7, Free DEF ManagePress
  <2>2. Listed(ui.target) /\ ui.edit = NoEdit /\ MainFlag = "up"
    BY <1>0, <2>1 DEF Fits, Backed, EditScreens
  <2>5. UNCHANGED <<wifi, syncing>>
    BY <1>7 DEF ManagePress, Duplicate
  <2>3. CASE ui' = [Go("edit") EXCEPT !.edit = NewEdit(ui.target), !.target = NoName]
    <3>0. ui.target \in Name
      BY <2>2, LenProperties DEF Listed, Range
    <3>1. /\ ui' \in Uis /\ ui'.screen = "edit" /\ ui'.cursor = ui.cursor
          /\ ui'.edit = NewEdit(ui.target) /\ ui'.flag = ui.flag
      BY <1>0, <2>3, <3>0 DEF Uis, Go, NewEdit, Edits, Screens
    <3>2. Fits(ui.screen)' /\ DraftOK'
      BY <2>2, <3>0, <3>1, AppAssumption
      DEF Fits, Backed, DraftOK, NewEdit, NoEdit, MainFlag, EditScreens
    <3> QED
      BY <2>1, <2>5, <3>1, <3>2, Moved
  <2>4. CASE ui' = Go("overlay_delete")
    <3>1. Fits("overlay_delete")
      BY <2>2 DEF Fits, Backed, EditScreens
    <3> QED
      BY <1>7, <2>1, <2>4, <3>1, Gone DEF ManagePress, Duplicate, Screens
  <2>6. \/ ui' = ui \/ ui' = ToMain \/ ui' = Go("overlay_delete")
        \/ ui' = [Go("edit") EXCEPT !.edit = NewEdit(ui.target), !.target = NoName]
    BY <1>7 DEF ManagePress, Duplicate, SaveList
  <2> QED
    BY <2>1, <2>2, <2>3, <2>4, <2>5, <2>6, Still, MainMoves
<1> QED
  BY <1>1, <1>2, <1>3, <1>4, <1>5, <1>6, <1>7

\* The press of a held button on the screens with an object of their own.
LEMMA ObjectPress ==
    ASSUME UiInv, NEW b \in Hold, UNCHANGED configs,
           \/ TimeSetupPress(b) \/ PickerPress(b) \/ BracketPress(b) \/ NameKeyboardPress(b)
           \/ WifiListPress(b) \/ WifiKeyboardPress(b) \/ WifiStatusPress(b)
           \/ WifiForgetPress(b)
    PROVE  UiInv'
<1> USE DEF Show, workers
<1>0. ui.screen \in Shown /\ Fits(ui.screen) /\ ui \in Uis
  BY DEF Shown, UiInv
<1>1. ASSUME TimeSetupPress(b), ~syncing
      PROVE  UiInv'
  <2>1. ui.screen = "time_setup" /\ wifi = "no" /\ ~syncing
    BY <1>1, Free DEF TimeSetupPress
  <2>2. ui.edit = NoEdit /\ MainFlag = "up"
    BY <1>0, <2>1 DEF Fits, EditScreens
  <2>3. CASE ui' = Leave("main", "time_setup") /\ UNCHANGED <<wifi, syncing>>
    <3>1. /\ ui' \in Uis /\ ui'.screen = "main" /\ ui'.cursor = ui.cursor
          /\ ui'.edit = ui.edit
      BY <1>0, <2>3 DEF Uis, Leave, Screens
    <3> QED
      BY <2>1, <2>2, <2>3, <3>1, Moved DEF Fits, Backed, DraftOK, EditScreens
  <2>4. CASE ui' = ui /\ syncing' = TRUE /\ UNCHANGED wifi
    BY <1>1, <2>1, <2>2, <2>4
    DEF UiInv, Shown, Fits, Backed, Listed, MainFlag, DraftOK, WorkersOK, OperatorWaits
  <2>5. CASE /\ ui' = [Leave("picker", "time_setup") EXCEPT !.picker = "system_clock"]
             /\ UNCHANGED <<wifi, syncing>>
    <3>1. /\ ui' \in Uis /\ ui'.screen = "picker" /\ ui'.cursor = ui.cursor
          /\ ui'.edit = ui.edit /\ ui'.picker = "system_clock" /\ ui'.flag = ui.flag
      BY <1>0, <2>5 DEF Uis, Leave, Screens, Pickers
    <3> QED
      BY <2>1, <2>2, <2>5, <3>1, Moved DEF Fits, Backed, DraftOK, EditScreens, MainFlag
  <2>6. CASE /\ ui' = [BackToList EXCEPT !.open = (@ \ {"time_setup"}) \cup {"wifi_list"}]
             /\ UNCHANGED <<wifi, syncing>>
    <3>1. /\ ui'.open = (ui.open \ {"time_setup"}) \cup {"wifi_list"}
          /\ ui' = [BackToList EXCEPT !.open = ui'.open, !.keyboard = ui.keyboard]
      BY <1>0, <2>6 DEF Uis, BackToList, Go
    <3> QED
      BY <2>1, <2>2, <2>6, <3>1, ListMoves
  <2> QED
    BY <1>1, <2>3, <2>4, <2>5, <2>6 DEF TimeSetupPress, TimeSetupChoice
<1>2. ASSUME TimeSetupPress(b), syncing
      PROVE  UiInv'
  BY <1>2, Still DEF TimeSetupPress
<1>3. ASSUME PickerPress(b)
      PROVE  UiInv'
  <2>1. ui.screen = "picker" /\ wifi = "no" /\ ~syncing /\ UNCHANGED <<wifi, syncing>>
    BY <1>3, Free DEF PickerPress
  <2>2. MainFlag = "up" /\ (ui.picker = "moment" <=> ui.edit # NoEdit)
    BY <1>0, <2>1 DEF Fits, Backed
  <2>3. CASE ui' = [Go("main") EXCEPT !.picker = "none"] /\ ui.picker = "system_clock"
    <3>1. /\ ui' \in Uis /\ ui'.screen = "main" /\ ui'.cursor = ui.cursor
          /\ ui'.edit = NoEdit
      BY <1>0, <2>2, <2>3 DEF Uis, Go, Screens, Pickers
    <3> QED
      BY <2>1, <3>1, Moved DEF Fits, Backed, DraftOK, EditScreens
  <2>4. CASE ui' = [Go("edit") EXCEPT !.picker = "none"] /\ ui.picker = "moment"
    <3>1. /\ ui' \in Uis /\ ui'.screen = "edit" /\ ui'.cursor = ui.cursor
          /\ ui'.edit = ui.edit /\ ui'.flag = ui.flag
      BY <1>0, <2>4 DEF Uis, Go, Screens, Pickers
    <3> QED
      BY <2>1, <2>2, <2>4, <3>1, Moved
      DEF UiInv, Fits, Backed, DraftOK, EditScreens, MainFlag
  <2>5. ASSUME NEW t \in BOOLEAN, ui.picker = "moment",
               ui' = [Go("edit") EXCEPT !.picker = "none", !.edit.touched = t]
        PROVE  UiInv'
    <3>0. [ui.edit EXCEPT !.touched = t] \in Edits
      BY <1>0, <2>5 DEF Uis, Edits
    <3>1. /\ ui' \in Uis /\ ui'.screen = "edit" /\ ui'.cursor = ui.cursor
          /\ ui'.edit = [ui.edit EXCEPT !.touched = t] /\ ui'.flag = ui.flag
      <4>1. ui' = [ui EXCEPT !.screen = "edit", !.prev = "none", !.picker = "none",
                             !.edit = [ui.edit EXCEPT !.touched = t]]
        BY <1>0, <2>5 DEF Uis, Go
      <4> QED
        BY <1>0, <3>0, <4>1 DEF Uis, Screens, Pickers
    <3>2. ui'.edit # NoEdit /\ DraftOK'
      BY <1>0, <2>2, <2>5, <3>1, TouchedStays
    <3>3. Fits(ui.screen)'
      BY <2>2, <3>1, <3>2 DEF Fits, Backed, EditScreens, MainFlag
    <3> QED
      BY <2>1, <3>1, <3>2, <3>3, Moved
  <2> QED
    BY <1>3, <2>3, <2>4, <2>5, Still DEF PickerPress
<1>4. ASSUME BracketPress(b)
      PROVE  UiInv'
  <2>1. ui.screen = "bracket_gen" /\ wifi = "no" /\ ~syncing /\ UNCHANGED <<wifi, syncing>>
    BY <1>4, Free DEF BracketPress
  <2>2. MainFlag = "up" /\ ui.edit # NoEdit
    BY <1>0, <2>1 DEF Fits, Backed, EditScreens
  <2>3. CASE ui' = Leave("edit", "bracket_gen")
    <3>1. /\ ui' \in Uis /\ ui'.screen = "edit" /\ ui'.cursor = ui.cursor
          /\ ui'.edit = ui.edit /\ ui'.flag = ui.flag
      BY <1>0, <2>3 DEF Uis, Leave, Screens
    <3> QED
      BY <2>1, <2>2, <3>1, Moved DEF UiInv, Fits, Backed, DraftOK, EditScreens, MainFlag
  <2>4. ASSUME NEW t \in BOOLEAN,
               ui' = [Leave("edit", "bracket_gen") EXCEPT !.edit.touched = t]
        PROVE  UiInv'
    <3>1. /\ ui' \in Uis /\ ui'.screen = "edit" /\ ui'.cursor = ui.cursor
          /\ ui'.edit = [ui.edit EXCEPT !.touched = t] /\ ui'.flag = ui.flag
      BY <1>0, <2>4 DEF Uis, Leave, Screens, Edits
    <3>2. ui'.edit # NoEdit /\ DraftOK'
      BY <1>0, <2>2, <3>1, TouchedStays
    <3>3. Fits(ui.screen)'
      BY <2>2, <3>1, <3>2 DEF Fits, Backed, EditScreens, MainFlag
    <3> QED
      BY <2>1, <3>1, <3>2, <3>3, Moved
  <2> QED
    BY <1>4, <2>3, <2>4 DEF BracketPress
<1>5. ASSUME NameKeyboardPress(b)
      PROVE  UiInv'
  <2>1. /\ ui.screen = "name_keyboard" /\ wifi = "no" /\ ~syncing
        /\ UNCHANGED <<wifi, syncing>>
    BY <1>5, Free DEF NameKeyboardPress
  <2>2. MainFlag = "up" /\ ui.edit # NoEdit /\ DraftOK
    BY <1>0, <2>1 DEF UiInv, Fits, Backed, EditScreens
  <2>3. CASE ui' = [Go("edit") EXCEPT !.keyboard = "none"]
    <3>1. /\ ui' \in Uis /\ ui'.screen = "edit" /\ ui'.cursor = ui.cursor
          /\ ui'.edit = ui.edit /\ ui'.flag = ui.flag
      BY <1>0, <2>3 DEF Uis, Go, Screens, Keyboards
    <3> QED
      BY <2>1, <2>2, <3>1, Moved DEF Fits, Backed, DraftOK, EditScreens, MainFlag
  <2>4. ASSUME NEW n \in FreeNames,
               ui' = [Go("edit") EXCEPT !.keyboard = "none", !.edit.name = n]
        PROVE  UiInv'
    <3>1. n \in Name /\ (n \notin Range(configs) \/ n = ui.edit.name)
      BY <2>2 DEF FreeNames, DraftOK
    <3>2. /\ ui' \in Uis /\ ui'.screen = "edit" /\ ui'.cursor = ui.cursor
          /\ ui'.edit = [ui.edit EXCEPT !.name = n] /\ ui'.flag = ui.flag
      <4>1. ui.edit \in Edits /\ [ui.edit EXCEPT !.name = n] \in Edits
        BY <1>0, <3>1 DEF Uis, Edits
      <4>2. /\ ui'.edit = [ui.edit EXCEPT !.name = n] /\ ui'.flag = ui.flag
            /\ ui'.screen = "edit" /\ ui'.cursor = ui.cursor
        BY <1>0, <2>4 DEF Uis, Go
      <4>3. ui' = [Go("edit") EXCEPT !.keyboard = "none", !.edit = [ui.edit EXCEPT !.name = n]]
        BY <1>0, <2>4 DEF Uis, Go
      <4> QED
        BY <1>0, <4>1, <4>2, <4>3 DEF Uis, Go, Screens, Keyboards
    <3>3. ui'.edit.name = n /\ ui'.edit.original = ui.edit.original
      BY <1>0, <3>2 DEF Uis, Edits
    <3>4. ui'.edit # NoEdit
      BY <3>1, <3>3, AppAssumption DEF NoEdit
    <3>5. Fits(ui.screen)' /\ DraftOK'
      BY <2>2, <3>1, <3>2, <3>3, <3>4 DEF Fits, Backed, DraftOK, EditScreens, MainFlag
    <3> QED
      BY <2>1, <3>2, <3>5, Moved
  <2> QED
    BY <1>5, <2>3, <2>4, Still DEF NameKeyboardPress
<1>6. ASSUME WifiListPress(b)
      PROVE  UiInv'
  <2>1. ui.screen = "wifi_list" /\ UNCHANGED <<wifi, syncing>>
    BY <1>6 DEF WifiListPress
  <2>2. MainFlag = "up" /\ ui.edit = NoEdit /\ "wifi_list" \in ui.open
    BY <1>0, <2>1 DEF Fits, Backed, EditScreens
  <2>3. CASE wifi = "no" /\ ui' = [ui EXCEPT !.flag[<<"wifi_list", b>>] = "down"]
    <3>1. <<"wifi_list", b>> \in Flags /\ "down" \in FlagValue /\ wifi = "no" /\ ~syncing
      BY <2>1, <2>3, Free DEF Flags, FlagValue, Hold
    <3>2. /\ ui' \in Uis /\ ui'.screen = "wifi_list" /\ ui'.cursor = ui.cursor
          /\ ui'.edit = ui.edit /\ ui'.open = ui.open
          /\ ui'.flag = [ui.flag EXCEPT ![<<"wifi_list", b>>] = "down"]
      BY <1>0, <2>1, <2>3, <3>1, FlagFields
    <3>3. MainFlag' = "up"
      BY <1>0, <2>2, <3>2 DEF MainFlag, Uis, Flags
    <3> QED
      BY <2>1, <2>2, <3>1, <3>2, <3>3, Moved DEF Fits, Backed, DraftOK, EditScreens
  <2> QED
    BY <1>6, <2>1, <2>3, Still DEF WifiListPress
<1>7. ASSUME WifiKeyboardPress(b)
      PROVE  UiInv'
  <2>1. ui.screen = "wifi_keyboard" /\ wifi = "no" /\ ~syncing
    BY <1>7, Free DEF WifiKeyboardPress
  <2>2. MainFlag = "up" /\ ui.edit = NoEdit /\ "wifi_list" \in ui.open
    BY <1>0, <2>1 DEF Fits, Backed, EditScreens
  <2>3. CASE ui' = [BackToList EXCEPT !.keyboard = "none"] /\ UNCHANGED <<wifi, syncing>>
    <3>1. /\ ui' = [BackToList EXCEPT !.open = ui'.open, !.keyboard = "none"]
          /\ ui'.open = ui.open
      BY <1>0, <2>3 DEF Uis, BackToList, Go
    <3> QED
      BY <2>1, <2>2, <2>3, <3>1, ListMoves
  <2>4. CASE ui' = [ui EXCEPT !.keyboard = "password"] /\ UNCHANGED <<wifi, syncing>>
    <3>1. /\ ui' \in Uis /\ ui'.screen = "wifi_keyboard" /\ ui'.cursor = ui.cursor
          /\ ui'.edit = ui.edit /\ ui'.open = ui.open /\ ui'.keyboard = "password"
          /\ ui'.flag = ui.flag
      BY <1>0, <2>1, <2>4 DEF Uis, Keyboards
    <3> QED
      BY <2>1, <2>2, <2>4, <3>1, Moved DEF Fits, Backed, DraftOK, EditScreens, MainFlag
  <2>5. CASE StartConnect(ui)
    <3>1. UNCHANGED syncing
      BY <2>5 DEF StartConnect
    <3> QED
      BY <1>0, <2>1, <2>2, <2>5, <3>1, ConnectMoves DEF MainFlag
  <2> QED
    BY <1>7, <2>3, <2>4, <2>5, Still DEF WifiKeyboardPress
<1>8. ASSUME WifiStatusPress(b) \/ WifiForgetPress(b)
      PROVE  UiInv'
  <2>1. /\ ui.screen \in {"wifi_status", "overlay_wifi_forget"}
        /\ UNCHANGED <<wifi, syncing>>
    BY <1>8 DEF WifiStatusPress, WifiForgetPress
  <2>2. MainFlag = "up" /\ ui.edit = NoEdit /\ "wifi_list" \in ui.open
    BY <1>0, <2>1 DEF Fits, Backed, EditScreens
  <2>3. CASE wifi = "no" /\ ui' = [BackToList EXCEPT !.open = @ \ {"wifi_status"}]
    <3>1. /\ ui' = [BackToList EXCEPT !.open = ui'.open, !.keyboard = ui.keyboard]
          /\ ui'.open = ui.open \ {"wifi_status"} /\ "wifi_list" \in ui'.open
      BY <1>0, <2>2, <2>3 DEF Uis, BackToList, Go
    <3> QED
      BY <2>1, <2>2, <2>3, <3>1, Free, ListMoves
  <2>4. CASE ui' = BackToList /\ ui.screen = "overlay_wifi_forget"
    <3>1. /\ ui' = [BackToList EXCEPT !.open = ui'.open, !.keyboard = ui.keyboard]
          /\ ui'.open = ui.open
      BY <1>0, <2>2, <2>4 DEF Uis, BackToList, Go
    <3>2. wifi = "no" /\ ~syncing
      BY <2>4, Free
    <3> QED
      BY <2>1, <2>2, <3>1, <3>2, ListMoves
  <2> QED
    BY <1>8, <2>1, <2>3, <2>4, Still DEF WifiStatusPress, WifiForgetPress
<1> QED
  BY <1>1, <1>2, <1>3, <1>4, <1>5, <1>6, <1>7, <1>8

\* The shutdown overlay, and the screen it leads to.
LEMMA ShutdownPress ==
    ASSUME UiInv, NEW b \in Hold, UNCHANGED configs,
           PowerOffPress(b) \/ ShuttingDownPress(b) \/ (OnChord /\ UNCHANGED workers)
    PROVE  UiInv'
<1> USE DEF Show, workers
<1>0. ui \in Uis /\ UNCHANGED <<wifi, syncing>> /\ WorkersOK /\ DraftOK
  BY DEF UiInv, PowerOffPress, ShuttingDownPress, OnChord
<1>1. CASE ui' = Go("shutting_down")
  <2>1. /\ ui' \in Uis /\ ui'.screen = "shutting_down" /\ ui'.cursor = ui.cursor
        /\ ui'.edit = ui.edit /\ ui'.flag = ui.flag /\ ui'.open = ui.open
    BY <1>0, <1>1, GoFields DEF Screens
  <2>2. Shown' = {"shutting_down"}
    BY <2>1 DEF Shown
  <2>3. Fits("shutting_down")'
    BY DEF Fits, Backed, EditScreens
  <2>4. WorkersOK' /\ DraftOK'
    BY <1>0, <2>1 DEF WorkersOK, OperatorWaits, DraftOK, MainFlag
  <2> QED
    BY <2>1, <2>2, <2>3, <2>4 DEF UiInv
<1>2. CASE /\ ui.screen = "overlay_poweroff"
           /\ ui' = Go(IF ui.prev = "none" THEN "main" ELSE ui.prev)
  <2>1. /\ ui.prev \in Screens \ {"overlay_poweroff", "shutting_down"}
        /\ ui' = Go(ui.prev) /\ Shown = {"overlay_poweroff", ui.prev} /\ Fits(ui.prev)
    BY <1>2 DEF UiInv, Uis, Shown
  <2>2. /\ ui' \in Uis /\ ui'.screen = ui.prev /\ ui'.cursor = ui.cursor
        /\ ui'.target = ui.target /\ ui'.edit = ui.edit /\ ui'.flag = ui.flag
        /\ ui'.open = ui.open /\ ui'.picker = ui.picker /\ ui'.keyboard = ui.keyboard
    BY <1>0, <2>1, GoFields
  <2>3. Shown' = {ui.prev}
    BY <2>1, <2>2 DEF Shown
  <2>4. Fits(ui.prev) /\ Fits(ui.screen)'
    BY <2>1, <2>2 DEF Fits, Backed, Listed, MainFlag
  <2>5. WorkersOK' /\ DraftOK'
    BY <1>0, <1>2, <2>1, <2>2, <2>3 DEF WorkersOK, OperatorWaits, DraftOK, MainFlag
  <2> QED
    BY <2>1, <2>2, <2>3, <2>4, <2>5 DEF UiInv
<1>3. CASE /\ ui.screen \notin {"overlay_poweroff", "shutting_down"}
           /\ ui' = [Go("overlay_poweroff") EXCEPT !.prev = ui.screen]
  <2>1. /\ ui' \in Uis /\ ui'.screen = "overlay_poweroff" /\ ui'.prev = ui.screen
        /\ ui'.cursor = ui.cursor /\ ui'.target = ui.target
        /\ ui'.edit = ui.edit /\ ui'.flag = ui.flag
        /\ ui'.open = ui.open /\ ui'.picker = ui.picker /\ ui'.keyboard = ui.keyboard
    BY <1>0, <1>3 DEF Uis, Go, Screens
  <2>2. Shown = {ui.screen} /\ Shown' = {"overlay_poweroff", ui.screen}
    BY <1>3, <2>1 DEF Shown
  <2>3. Fits(ui.screen) /\ ui.screen \in Screens
    BY <2>2 DEF UiInv, Uis
  <2>4. \A s \in Shown' : Fits(s)'
    BY <2>1, <2>2, <2>3 DEF Fits, Backed, Listed, MainFlag, EditScreens
  <2>5. WorkersOK' /\ DraftOK'
    BY <1>0, <1>3, <2>1, <2>2 DEF WorkersOK, OperatorWaits, DraftOK, MainFlag
  <2>6. ui'.prev \notin {"none", "overlay_poweroff", "shutting_down"}
    BY <1>3, <2>1, <2>3 DEF Screens
  <2> QED
    BY <2>1, <2>4, <2>5, <2>6 DEF UiInv
<1> QED
  BY <1>0, <1>1, <1>2, <1>3, Still DEF PowerOffPress, ShuttingDownPress, OnChord

\* The release or the long press of a button that was pressed on main.
LEMMA MainHeld ==
    ASSUME UiInv, configs \in Seq(Name), UNCHANGED configs, ui.screen = "main",
           MainRelease \/ MainLong
    PROVE  UiInv'
<1> USE DEF Show, workers
<1>0. ui.screen \in Shown /\ Fits(ui.screen) /\ ui \in Uis
  BY DEF Shown, UiInv
<1>1. /\ wifi = "no" /\ ~syncing /\ UNCHANGED <<wifi, syncing>>
      /\ ui.edit = NoEdit
  BY <1>0, Free DEF Fits, EditScreens, MainRelease, MainLong, OpenEditNew, Call
<1>2. ASSUME NEW v \in FlagValue, ui' = [ui EXCEPT !.flag[<<"main", "OK">>] = v]
      PROVE  UiInv'
  <2>1. <<"main", "OK">> \in Flags
    BY DEF Flags
  <2>2. /\ ui' \in Uis /\ ui'.screen = "main" /\ ui'.cursor = ui.cursor /\ ui'.edit = ui.edit
    BY <1>0, <1>2, <2>1, FlagFields
  <2> QED
    BY <1>1, <2>2, Moved DEF Fits, Backed, DraftOK, EditScreens
<1>3. ASSUME NEW n \in Name \ Range(configs),
             ui' = [Go("edit") EXCEPT !.edit = NewEdit(n), !.flag = ResetInput("main")]
      PROVE  UiInv'
  <2>1. /\ ResetInput("main") \in [Flags -> FlagValue]
        /\ ResetInput("main")[<<"main", "OK">>] = "up"
    BY <1>0, ResetFields
  <2>2. /\ ui' \in Uis /\ ui'.screen = "edit" /\ ui'.cursor = ui.cursor
        /\ ui'.edit = NewEdit(n) /\ MainFlag' = "up"
    BY <1>0, <1>3, <2>1 DEF Uis, Go, NewEdit, Edits, Screens, MainFlag
  <2>3. Fits(ui.screen)' /\ DraftOK'
    BY <2>2, AppAssumption DEF Fits, Backed, DraftOK, NewEdit, NoEdit, EditScreens
  <2> QED
    BY <1>1, <2>2, <2>3, Moved
<1>4. CASE /\ ui.cursor < Len(configs)
           /\ ui' = [ui EXCEPT !.screen = "manage", !.target = configs[ui.cursor + 1],
                               !.flag = ResetInput("main")]
  <2>1. /\ ResetInput("main") \in [Flags -> FlagValue]
        /\ ResetInput("main")[<<"main", "OK">>] = "up"
    BY <1>0, ResetFields
  <2>2. Len(configs) \in Nat /\ configs \in [1..Len(configs) -> Name]
    BY LenProperties
  <2>3. ui.cursor + 1 \in DOMAIN configs /\ configs[ui.cursor + 1] \in Name
    BY <1>0, <1>4, <2>2 DEF Uis
  <2>4. configs[ui.cursor + 1] \in Range(configs)
    BY <2>3 DEF Range
  <2>5. /\ ui' \in Uis /\ ui'.screen = "manage" /\ ui'.cursor = ui.cursor
        /\ ui'.edit = NoEdit /\ MainFlag' = "up" /\ ui'.target = configs[ui.cursor + 1]
    BY <1>0, <1>1, <1>4, <2>1, <2>3 DEF Uis, Screens, MainFlag
  <2>6. Fits(ui.screen)' /\ DraftOK'
    BY <2>4, <2>5 DEF Fits, Backed, DraftOK, EditScreens, Listed
  <2> QED
    BY <1>1, <2>5, <2>6, Moved
<1>5. {"up", "long"} \subseteq FlagValue
  BY DEF FlagValue
<1>6. CASE MainRelease
  BY <1>2, <1>3, <1>5, <1>6 DEF MainRelease, OpenEditNew
<1>7. CASE MainLong
  BY <1>2, <1>4, <1>5, <1>7 DEF MainLong
<1> QED
  BY <1>6, <1>7

\* The release or the long press of a button that was pressed on the Wi-Fi list.
LEMMA WifiHeld ==
    ASSUME UiInv, UNCHANGED configs, NEW b \in Hold, ui.screen = "wifi_list",
           WifiRelease(b) \/ WifiLong(b)
    PROVE  UiInv'
<1> USE DEF Show, workers
<1>0. ui.screen \in Shown /\ Fits(ui.screen) /\ ui \in Uis
  BY DEF Shown, UiInv
<1>1. MainFlag = "up" /\ ui.edit = NoEdit /\ "wifi_list" \in ui.open
  BY <1>0 DEF Fits, Backed, EditScreens
<1>2. CASE wifi # "no"
  BY <1>2, Still DEF WifiRelease, WifiLong
<1>3. CASE wifi = "no"
  <2>1. ~syncing
    BY <1>3, Free
  <2>2. <<"wifi_list", b>> \in Flags
    BY DEF Flags, Hold
  <2> DEFINE with(v) == [ui EXCEPT !.flag[<<"wifi_list", b>>] = v]
  <2>3. ASSUME NEW v \in FlagValue
        PROVE  /\ with(v) \in Uis /\ with(v).screen = "wifi_list" /\ with(v).cursor = ui.cursor
               /\ with(v).edit = NoEdit /\ with(v).open = ui.open
               /\ with(v).flag[<<"main", "OK">>] = "up"
    <3>1. [ui.flag EXCEPT ![<<"wifi_list", b>>] = v] \in [Flags -> FlagValue]
      BY <1>0, <2>2 DEF Uis
    <3>2. [ui.flag EXCEPT ![<<"wifi_list", b>>] = v][<<"main", "OK">>] = "up"
      BY <1>0, <1>1 DEF Uis, MainFlag, Flags
    <3>3. with(v) = [ui EXCEPT !.flag = [ui.flag EXCEPT ![<<"wifi_list", b>>] = v]]
      BY <1>0 DEF Uis
    <3> HIDE DEF with
    <3> QED
      BY <1>0, <1>1, <3>1, <3>2, <3>3 DEF Uis
  <2>4. {"up", "long"} \subseteq FlagValue
    BY DEF FlagValue
  <2> HIDE DEF with
  <2>5. ASSUME NEW v \in {"up", "long"}, ui' = with(v), wifi' \in {"no", "scan"},
               UNCHANGED syncing
        PROVE  UiInv'
    <3>1. /\ ui' \in Uis /\ ui'.screen = "wifi_list" /\ ui'.cursor = ui.cursor
          /\ ui'.edit = NoEdit /\ ui'.open = ui.open /\ MainFlag' = "up"
      BY <2>3, <2>4, <2>5 DEF MainFlag
    <3>2. Shown' = {"wifi_list"}
      BY <3>1 DEF Shown
    <3>3. WorkersOK'
      BY <1>1, <2>1, <2>5, <3>1, <3>2 DEF UiInv, WorkersOK, OperatorWaits
    <3> QED
      BY <1>1, <3>1, <3>2, <3>3 DEF UiInv, Fits, Backed, DraftOK, EditScreens
  <2>6. ASSUME NEW v \in {"up", "long"}, NEW k \in {"password", "ssid"},
               ui' = [with(v) EXCEPT !.screen = "wifi_keyboard", !.keyboard = k],
               UNCHANGED <<wifi, syncing>>
        PROVE  UiInv'
    <3>1. /\ ui' \in Uis /\ ui'.screen = "wifi_keyboard" /\ ui'.cursor = ui.cursor
          /\ ui'.edit = NoEdit /\ ui'.open = ui.open /\ MainFlag' = "up" /\ ui'.keyboard = k
      <4>1. /\ with(v) \in Uis /\ with(v).cursor = ui.cursor /\ with(v).edit = NoEdit
            /\ with(v).open = ui.open /\ with(v).flag[<<"main", "OK">>] = "up"
        BY <2>3, <2>4
      <4>2. k \in Keyboards
        BY DEF Keyboards
      <4> QED
        BY <2>6, <4>1, <4>2 DEF MainFlag, Uis, Screens
    <3> QED
      BY <1>1, <1>3, <2>1, <2>6, <3>1, Moved DEF Fits, Backed, DraftOK, EditScreens
  <2>7. CASE /\ ui' = [with("long") EXCEPT !.screen = "overlay_wifi_forget"]
             /\ UNCHANGED <<wifi, syncing>>
    <3>1. /\ ui' \in Uis /\ ui'.screen = "overlay_wifi_forget" /\ ui'.cursor = ui.cursor
          /\ ui'.edit = NoEdit /\ ui'.open = ui.open /\ MainFlag' = "up"
      BY <2>3, <2>4, <2>7 DEF MainFlag, Uis, Screens
    <3> QED
      BY <1>1, <1>3, <2>1, <2>7, <3>1, Moved DEF Fits, Backed, DraftOK, EditScreens
  <2>8. CASE StartConnect(with("up"))
    <3>1. UNCHANGED syncing
      BY <2>8 DEF StartConnect
    <3> QED
      BY <1>1, <1>3, <2>1, <2>3, <2>4, <2>8, <3>1, ConnectMoves
  <2>9. CASE /\ ui' = [ui EXCEPT !.screen = "time_setup", !.flag = ResetInput("wifi_list"),
                                 !.open = (@ \ {"wifi_list"}) \cup {"time_setup"}]
             /\ UNCHANGED <<wifi, syncing>>
    <3>1. /\ ResetInput("wifi_list") \in [Flags -> FlagValue]
          /\ ResetInput("wifi_list")[<<"main", "OK">>] = "up"
      BY <1>0, <1>1, ResetFields
    <3>2. (ui.open \ {"wifi_list"}) \cup {"time_setup"} \in SUBSET Objects
      BY <1>0 DEF Uis, Objects
    <3>3. /\ ui' \in Uis /\ ui'.screen = "time_setup" /\ ui'.cursor = ui.cursor
          /\ ui'.edit = NoEdit /\ "time_setup" \in ui'.open /\ MainFlag' = "up"
      BY <1>0, <1>1, <2>9, <3>1, <3>2 DEF MainFlag, Uis, Screens
    <3> QED
      BY <1>3, <2>1, <2>9, <3>3, Moved DEF Fits, Backed, DraftOK, EditScreens
  <2>10. CASE WifiRelease(b)
    BY <1>3, <2>5, <2>6, <2>8, <2>9, <2>10 DEF WifiRelease, with
  <2>11. CASE WifiLong(b)
    BY <1>3, <2>5, <2>6, <2>7, <2>11 DEF WifiLong, with
  <2> QED
    BY <2>10, <2>11
<1> QED
  BY <1>2, <1>3

\* The four other buttons.
LEMMA ArrowMoves ==
    ASSUME UiInv, configs \in Seq(Name), UNCHANGED configs,
           MoveCursor \/ OpenSettings \/ ChangeField
    PROVE  UiInv'
<1> USE DEF Show, workers
<1>0. ui.screen \in Shown /\ Fits(ui.screen) /\ ui \in Uis
  BY DEF Shown, UiInv
<1>1. /\ UNCHANGED <<wifi, syncing>> /\ ui.screen \in {"main", "edit"}
      /\ wifi = "no" /\ ~syncing
  BY Free DEF MoveCursor, OpenSettings, ChangeField
<1>2. CASE MoveCursor
  <2>1. PICK c \in 0..Len(configs) : ui' = [ui EXCEPT !.cursor = c]
    BY <1>2 DEF MoveCursor
  <2>2. c \in Nat /\ c <= Len(configs)
    BY LenProperties
  <2>3. /\ ui' \in Uis /\ ui'.screen = "main" /\ ui'.cursor = c /\ ui'.edit = ui.edit
        /\ ui'.flag = ui.flag
    BY <1>0, <1>2, <2>1, <2>2 DEF Uis, MoveCursor
  <2>4. Fits(ui.screen)' /\ DraftOK'
    BY <1>0, <1>2, <2>3 DEF UiInv, Fits, Backed, DraftOK, EditScreens, MainFlag, MoveCursor
  <2>5. Shown' = {"main"} /\ WorkersOK'
    BY <1>1, <2>3 DEF UiInv, Shown, WorkersOK, OperatorWaits
  <2> QED
    BY <2>2, <2>3, <2>4, <2>5 DEF UiInv
<1>3. CASE OpenSettings
  <2>1. /\ ResetInput("main") \in [Flags -> FlagValue]
        /\ ResetInput("main")[<<"main", "OK">>] = "up"
    BY <1>0, ResetFields
  <2>2. ui.open \cup {"time_setup"} \in SUBSET Objects
    BY <1>0 DEF Uis, Objects
  <2>3. /\ ui' \in Uis /\ ui'.screen = "time_setup" /\ ui'.cursor = ui.cursor
        /\ ui'.edit = ui.edit /\ "time_setup" \in ui'.open /\ MainFlag' = "up"
    BY <1>0, <1>3, <2>1, <2>2 DEF OpenSettings, Enter, MainFlag, Uis, Screens
  <2>4. Fits(ui.screen)' /\ DraftOK'
    BY <1>0, <1>3, <2>3 DEF Fits, Backed, DraftOK, EditScreens, OpenSettings
  <2> QED
    BY <1>1, <2>3, <2>4, Moved
<1>4. CASE ChangeField
  <2>1. ui.screen = "edit" /\ ui.edit # NoEdit /\ MainFlag = "up" /\ DraftOK
    BY <1>0, <1>4 DEF ChangeField, Fits, Backed, EditScreens, UiInv
  <2>2. ASSUME NEW t \in BOOLEAN, ui' = [ui EXCEPT !.edit.touched = t]
        PROVE  UiInv'
    <3>1. /\ ui' \in Uis /\ ui'.screen = "edit" /\ ui'.cursor = ui.cursor
          /\ ui'.edit = [ui.edit EXCEPT !.touched = t] /\ ui'.flag = ui.flag
      BY <1>0, <2>1, <2>2 DEF Uis, Edits
    <3>2. ui'.edit # NoEdit /\ DraftOK'
      BY <2>1, <3>1, TouchedStays
    <3>3. Fits(ui.screen)'
      BY <2>1, <3>1, <3>2 DEF Fits, Backed, EditScreens, MainFlag
    <3> QED
      BY <1>1, <3>1, <3>2, <3>3, Moved
  <2>3. CASE ui' = [Go("name_keyboard") EXCEPT !.keyboard = "config_name"]
    <3>1. /\ ui' \in Uis /\ ui'.screen = "name_keyboard" /\ ui'.cursor = ui.cursor
          /\ ui'.edit = ui.edit /\ ui'.keyboard = "config_name" /\ ui'.flag = ui.flag
      BY <1>0, <2>3 DEF Uis, Go, Screens, Keyboards
    <3> QED
      BY <1>1, <2>1, <3>1, Moved DEF Fits, Backed, DraftOK, EditScreens, MainFlag
  <2>4. CASE ui' = [Go("picker") EXCEPT !.picker = "moment"]
    <3>1. /\ ui' \in Uis /\ ui'.screen = "picker" /\ ui'.cursor = ui.cursor
          /\ ui'.edit = ui.edit /\ ui'.picker = "moment" /\ ui'.flag = ui.flag
      BY <1>0, <2>4 DEF Uis, Go, Screens, Pickers
    <3> QED
      BY <1>1, <2>1, <3>1, Moved DEF Fits, Backed, DraftOK, EditScreens, MainFlag
  <2>5. CASE ui' = Enter("bracket_gen", "bracket_gen")
    <3>0. ui.open \cup {"bracket_gen"} \in SUBSET Objects
      BY <1>0 DEF Uis, Objects
    <3>1. /\ ui' \in Uis /\ ui'.screen = "bracket_gen" /\ ui'.cursor = ui.cursor
          /\ ui'.edit = ui.edit /\ "bracket_gen" \in ui'.open /\ ui'.flag = ui.flag
      BY <1>0, <2>5, <3>0 DEF Uis, Enter, Screens
    <3> QED
      BY <1>1, <2>1, <3>1, Moved DEF Fits, Backed, DraftOK, EditScreens, MainFlag
  <2> QED
    BY <1>4, <2>2, <2>3, <2>4, <2>5 DEF ChangeField
<1> QED
  BY <1>2, <1>3, <1>4

\* The end of a worker.
LEMMA WorkerMoves ==
    ASSUME UiInv, SyncEnds \/ ScanEnds \/ ConnectEnds
    PROVE  UiInv'
<1>0. /\ ui \in Uis /\ UNCHANGED configs /\ WorkersOK /\ DraftOK
  BY DEF UiInv, SyncEnds, ScanEnds, ConnectEnds
<1>1. CASE SyncEnds /\ ui.screen = "time_setup"
  <2>1. /\ ui' \in Uis /\ ui'.screen = "main" /\ ui'.cursor = ui.cursor /\ ui'.edit = ui.edit
        /\ ui'.flag = ui.flag
    BY <1>0, <1>1 DEF SyncEnds, Leave, Uis, Screens
  <2>2. /\ wifi = "no" /\ UNCHANGED wifi /\ syncing' = FALSE
    BY <1>0, <1>1 DEF SyncEnds, WorkersOK
  <2>3. ui.edit = NoEdit /\ Shown' = {"main"}
    BY <1>1, <2>1 DEF UiInv, Shown, Fits, EditScreens
  <2>4. WorkersOK'
    BY <2>2 DEF WorkersOK, OperatorWaits
  <2> QED
    BY <1>0, <2>1, <2>3, <2>4 DEF UiInv, Fits, Backed, DraftOK, EditScreens
<1>2. CASE SyncEnds /\ ui.screen # "time_setup"
  <2>1. ui' = ui /\ UNCHANGED wifi /\ syncing' = FALSE
    BY <1>2 DEF SyncEnds
  <2>2. Shown' = Shown /\ DraftOK' /\ \A s \in Shown : Fits(s)'
    BY <1>0, <2>1 DEF UiInv, Shown, DraftOK, Fits, Backed, Listed, MainFlag
  <2>3. WorkersOK'
    BY <1>0, <2>1, <2>2 DEF WorkersOK, OperatorWaits, MainFlag
  <2> QED
    BY <1>0, <2>1, <2>2, <2>3 DEF UiInv
<1>3. CASE ScanEnds \/ ConnectEnds
  <2>1. /\ wifi' = "no" /\ UNCHANGED syncing /\ ~syncing
        /\ ui.edit = NoEdit /\ "wifi_list" \in ui.open /\ MainFlag = "up"
    BY <1>0, <1>3 DEF ScanEnds, ConnectEnds, WorkersOK
  <2>2. /\ ResetInput("wifi_list") \in [Flags -> FlagValue]
        /\ ResetInput("wifi_list")[<<"main", "OK">>] = "up"
    BY <1>0, <2>1, ResetFields
  <2>3. /\ ui' \in Uis /\ ui'.screen \in {"wifi_list", "wifi_status"} /\ ui'.cursor = ui.cursor
        /\ ui'.edit = ui.edit /\ ui'.open = ui.open /\ MainFlag' = "up"
    <3>1. CASE ScanEnds
      BY <1>0, <2>1, <2>2, <3>1 DEF ScanEnds, BackToList, Go, Uis, Screens, MainFlag
    <3>2. CASE ConnectEnds
      BY <1>0, <2>1, <2>2, <3>2 DEF ConnectEnds, Go, Uis, Screens, MainFlag
    <3> QED
      BY <1>3, <3>1, <3>2
  <2>4. Shown' = {ui'.screen}
    BY <2>3 DEF Shown
  <2>5. WorkersOK'
    BY <1>0, <2>1, <2>3 DEF WorkersOK, OperatorWaits
  <2> QED
    BY <1>0, <2>1, <2>3, <2>4, <2>5 DEF UiInv, Fits, Backed, DraftOK, EditScreens
<1> QED
  BY <1>1, <1>2, <1>3

\* The rest of a handler ends on main.
LEMMA MainLanded ==
    ASSUME UiInv, UNCHANGED <<wifi, syncing>>, wifi = "no", ~syncing,
           ui' \in Uis, ui'.screen = "main", ui'.edit = NoEdit, ui'.cursor <= Len(configs')
    PROVE  UiInv'
<1>1. Shown' = {"main"} /\ Fits("main")' /\ DraftOK'
  BY DEF Shown, Fits, Backed, DraftOK, EditScreens
<1>2. WorkersOK'
  BY DEF UiInv, WorkersOK, OperatorWaits
<1> QED
  BY <1>1, <1>2 DEF UiInv

-------------------------------------------------------------------------------
\* The whole: what is stored, what a handler waits for, and the program that is off.

StoreOK ==
    /\ configs \in Lists
    /\ file \in {Missing, Corrupt} \cup {Listing(list) : list \in Lists}
    /\ saving \in {NoSave} \cup [step : {"write", "replace"}, configs : Lists]
    /\ on \in BOOLEAN /\ banner \in BOOLEAN

EngineOK == {running, session} \subseteq Name \cup {NoName, Loose}

RouterOK ==
    /\ gpio = Quiet \/ gpio \in [kind : {"press", "release"}, button : Hold]
    /\ pressed \subseteq Hold /\ armed \subseteq Timer /\ late \subseteq Timer

OffOK ==
    ~on => /\ ui = HomeScreen /\ call = NoCall /\ saving = NoSave
           /\ ~syncing /\ wifi = "no"
           /\ gpio = Quiet /\ pressed = {} /\ armed = {} /\ late = {}

\* A handler waits on the screen that called it; a save holds what it is to bring about.
CallOK ==
    /\ call = NoCall \/ call \in
         [op : {"start", "switch", "stop", "commit", "duplicate", "delete"},
          cfg : Name \cup {NoName}]
    /\ saving # NoSave => call.op \in {"commit", "duplicate", "delete"}
    /\ call.op \in {"start", "switch"} => ui.screen = "main" /\ call.cfg \in Name
    /\ call.op = "stop" => ui.screen = "overlay_stop"
    /\ call.op = "commit" =>
          /\ ui.screen = "overlay_save" /\ saving # NoSave
          /\ ui.edit.name \in Range(saving.configs)
          /\ Len(configs) <= Len(saving.configs)
    /\ call.op = "duplicate" =>
          /\ ui.screen = "manage" /\ saving # NoSave /\ ~banner
          /\ call.cfg \in Range(saving.configs)
    /\ call.op = "delete" =>
          /\ ui.screen = "overlay_delete" /\ ~banner /\ call.cfg \in Name
          /\ saving # NoSave => /\ saving.configs = Without(call.cfg)
                                /\ running # call.cfg \/ session = Loose

AppInv ==
    StoreOK /\ EngineOK /\ RouterOK /\ OffOK /\ UiInv /\ CallOK /\ DiskAgrees

LEMMA CallIdle ==
    ASSUME call' = NoCall, saving' = NoSave
    PROVE  CallOK'
  BY DEF CallOK, NoCall

LEMMA Home ==
    /\ HomeScreen \in Uis /\ HomeScreen.screen = "main" /\ HomeScreen.cursor = 0
    /\ HomeScreen.edit = NoEdit /\ HomeScreen.flag[<<"main", "OK">>] = "up"
<1>1. [f \in Flags |-> "up"] \in [Flags -> FlagValue]
  BY DEF FlagValue
<1>2. [f \in Flags |-> "up"][<<"main", "OK">>] = "up"
  BY DEF Flags
<1> QED
  BY <1>1, <1>2 DEF HomeScreen, Uis, Screens, NoEdit, Edits, Pickers, Keyboards

LEMMA AppInit == Init => AppInv
<1> SUFFICES ASSUME Init
             PROVE  AppInv
  OBVIOUS
<1>1. StoreOK
  BY NoList DEF Init, StoreInit, StoreOK
<1>2. UiInv
  <2>1. Len(configs) \in Nat
    BY <1>1, ListsAre, LenProperties DEF StoreOK
  <2>2. /\ ui \in Uis /\ ui.screen = "main" /\ ui.cursor = 0 /\ ui.edit = NoEdit
        /\ MainFlag = "up" /\ Shown = {"main"}
    BY Home DEF Init, MainFlag, Shown
  <2>3. wifi = "no" /\ ~syncing /\ syncing \in BOOLEAN
    BY DEF Init
  <2> QED
    BY <2>1, <2>2, <2>3 DEF UiInv, Fits, Backed, DraftOK, WorkersOK, OperatorWaits, EditScreens
<1>3. EngineOK /\ RouterOK /\ OffOK /\ DiskAgrees
  BY DEF Init, StoreInit, EngineOK, RouterOK, OffOK, DiskAgrees
<1>4. CallOK
  BY DEF Init, StoreInit, CallOK, NoCall
<1> QED
  BY <1>1, <1>2, <1>3, <1>4 DEF AppInv

LEMMA HomeAgain ==
    ASSUME ui' = HomeScreen, wifi' = "no", ~syncing', syncing' \in BOOLEAN, configs' \in Lists
    PROVE  UiInv'
<1>1. Len(configs') \in Nat
  BY ListsAre, LenProperties
<1>2. /\ ui' \in Uis /\ ui'.screen = "main" /\ ui'.cursor = 0 /\ ui'.edit = NoEdit
      /\ MainFlag' = "up" /\ Shown' = {"main"}
  BY Home DEF MainFlag, Shown
<1> QED
  BY <1>1, <1>2 DEF UiInv, Fits, Backed, DraftOK, WorkersOK, OperatorWaits, EditScreens

\* Start and end of the program.
LEMMA PowerKeeps ==
    ASSUME AppInv, Boot \/ PowerCut
    PROVE  AppInv'
<1>1. CASE Boot
  <2> USE <1>1 DEF Boot
  <2>1. /\ ~on /\ on' = TRUE /\ configs' = file.configs
        /\ UNCHANGED <<saving, running, session, ui, call, syncing, wifi, gpio, pressed,
                       armed, late>>
    BY DEF Load, engine, workers, router
  <2>2. /\ ui = HomeScreen /\ call = NoCall /\ saving = NoSave /\ ~syncing /\ wifi = "no"
        /\ syncing \in BOOLEAN
    BY <2>1 DEF AppInv, OffOK, UiInv, WorkersOK
  <2>3. StoreOK' /\ DiskAgrees'
    <3>0. file \in {Missing, Corrupt} \cup {Listing(list) : list \in Lists}
      BY DEF AppInv, StoreOK
    <3>1. CASE file = Missing
      BY <2>1, <2>2, <3>1, NoList DEF Load, StoreOK, DiskAgrees, Missing, Corrupt, Listing
    <3>2. CASE file = Corrupt
      <4>1. file.kind = "corrupt" /\ configs' = <<>> /\ banner' = TRUE
        BY <2>1, <3>2 DEF Corrupt
      <4>2. file' \in {Missing, Corrupt}
        BY <4>1 DEF Load
      <4> QED
        BY <2>1, <2>2, <4>1, <4>2, NoList DEF StoreOK, DiskAgrees, Missing, Corrupt
    <3>3. ASSUME NEW list \in Lists, file = Listing(list)
          PROVE  StoreOK' /\ DiskAgrees'
      BY <2>1, <2>2, <3>3 DEF Load, StoreOK, DiskAgrees, Missing, Corrupt, Listing
    <3> QED
      BY <3>0, <3>1, <3>2, <3>3
  <2>4. UiInv'
    BY <2>1, <2>2, <2>3, HomeAgain DEF StoreOK
  <2>5. EngineOK' /\ RouterOK' /\ OffOK'
    BY <2>1 DEF AppInv, EngineOK, RouterOK, OffOK
  <2>6. CallOK'
    BY <2>1, <2>2, CallIdle
  <2> QED
    BY <2>3, <2>4, <2>5, <2>6 DEF AppInv
<1>2. CASE PowerCut
  <2> USE <1>2 DEF PowerCut, CutShort
  <2>1. StoreOK' /\ OffOK' /\ DiskAgrees'
    BY NoList DEF AppInv, StoreOK, OffOK, DiskAgrees
  <2>2. EngineOK' /\ RouterOK'
    BY DEF EngineOK, RouterOK
  <2>3. UiInv'
    BY <2>1, HomeAgain DEF StoreOK
  <2>4. CallOK'
    BY CallIdle
  <2> QED
    BY <2>1, <2>2, <2>3, <2>4 DEF AppInv
<1> QED
  BY <1>1, <1>2

\* What a handler that calls nothing leaves as it is.
LEMMA NothingCalled ==
    ASSUME AppInv, AppLockFree, UNCHANGED <<file, on, configs, saving, call, banner>>
    PROVE  StoreOK' /\ CallOK' /\ DiskAgrees'
<1>1. StoreOK' /\ DiskAgrees'
  BY DEF AppInv, StoreOK, DiskAgrees
<1>2. call = NoCall /\ saving = NoSave
  BY DEF AppInv, AppLockFree, CallOK, NoCall
<1> QED
  BY <1>1, <1>2, CallIdle

\* A listed configuration comes from a file that could be read, and there is no banner.
LEMMA ListedIsStored ==
    ASSUME StoreOK, DiskAgrees, on, NEW n \in Range(configs)
    PROVE  file.kind = "list" /\ ~banner /\ n \in Name
<1>1. configs # <<>>
  BY DEF Range
<1>2. file \notin {Missing, Corrupt}
  BY <1>1 DEF DiskAgrees, Missing, Corrupt
<1>3. file.kind = "list"
  BY <1>2 DEF StoreOK, Listing
<1>4. n \in Name
  BY ListsAre, LenProperties DEF StoreOK, Range
<1> QED
  BY <1>3, <1>4 DEF DiskAgrees

\* A list that is saved is a valid one.
LEMMA SaveBegins ==
    ASSUME StoreOK, NEW list \in Seq(Name), Save(list), UNCHANGED <<on, configs>>,
           banner' \in BOOLEAN
    PROVE  /\ StoreOK' /\ saving' # NoSave /\ saving'.configs = list /\ UNCHANGED file
<1>1. list \in Lists
  BY ListsAre DEF Save, Valid
<1>2. saving' = [step |-> "write", configs |-> list] /\ UNCHANGED file
  BY DEF Save
<1> QED
  BY <1>1, <1>2 DEF StoreOK, NoSave

LEMMA PressCalls ==
    ASSUME AppInv, AppLockFree, on, UNCHANGED <<file, on, configs, engine>>,
           NEW b \in Hold, OnPress(b)
    PROVE  StoreOK' /\ CallOK' /\ DiskAgrees'
<1> USE DEF Show, workers
<1>0. /\ call = NoCall /\ saving = NoSave /\ configs \in Seq(Name)
      /\ StoreOK /\ DiskAgrees /\ UiInv /\ UNCHANGED <<running, session>>
      /\ ui.screen \in Shown /\ Fits(ui.screen) /\ ui \in Uis
  BY ListsAre DEF AppInv, AppLockFree, CallOK, NoCall, StoreOK, UiInv, Shown, engine
<1>1. CASE UNCHANGED <<saving, call, banner>>
  BY <1>1, NothingCalled
<1>2. CASE StopPress(b)
  <2>1. CASE Call("stop", NoName) /\ UNCHANGED ui /\ ui.screen = "overlay_stop"
    <3>1. StoreOK' /\ DiskAgrees'
      BY <1>0, <2>1 DEF Call, StoreOK, DiskAgrees
    <3>2. /\ call' = [op |-> "stop", cfg |-> NoName] /\ saving' = NoSave
          /\ ui'.screen = "overlay_stop"
      BY <1>0, <2>1 DEF Call
    <3> QED
      BY <3>1, <3>2 DEF CallOK
  <2> QED
    BY <1>1, <1>2, <2>1 DEF StopPress
<1>3. CASE SavePress(b)
  <2>1. ui.screen = "overlay_save" /\ ui.edit # NoEdit /\ ui.edit.name \in Name
    BY <1>0, <1>3 DEF SavePress, UiInv, DraftOK, Fits, Backed, EditScreens
  <2>2. /\ EditedList \in Seq(Name) /\ ui.edit.name \in Range(EditedList)
        /\ Len(configs) <= Len(EditedList)
    BY <1>0, <2>1, Edited
  <2>3. CASE /\ Save(EditedList) /\ call' = [op |-> "commit", cfg |-> ui.edit.name]
             /\ UNCHANGED <<ui, banner>>
    <3>1. /\ StoreOK' /\ saving' # NoSave /\ saving'.configs = EditedList
      BY <1>0, <2>2, <2>3, SaveBegins DEF StoreOK
    <3>2. DiskAgrees'
      BY <1>0, <2>3 DEF DiskAgrees
    <3>3. CallOK'
      BY <2>1, <2>2, <2>3, <3>1 DEF CallOK
    <3> QED
      BY <3>1, <3>2, <3>3
  <2> QED
    BY <1>1, <1>3, <2>3 DEF SavePress, SaveList
<1>4. CASE DeletePress(b)
  <2>1. /\ ui.screen = "overlay_delete" /\ ui.target \in Range(configs)
        /\ ui.target \in Name /\ ~banner
    BY <1>0, <1>4, ListedIsStored DEF DeletePress, Fits, Backed, Listed
  <2>2. Without(ui.target) \in Seq(Name)
    BY <1>0, LeftOut
  <2>3. CASE /\ running = ui.target /\ Call("delete", ui.target) /\ UNCHANGED ui
    <3>1. StoreOK' /\ DiskAgrees'
      BY <1>0, <2>3 DEF Call, StoreOK, DiskAgrees
    <3>2. /\ call' = [op |-> "delete", cfg |-> ui.target] /\ saving' = NoSave
          /\ ui'.screen = "overlay_delete" /\ ~banner'
      BY <1>0, <2>1, <2>3 DEF Call
    <3> QED
      BY <2>1, <3>1, <3>2 DEF CallOK
  <2>4. CASE /\ running # ui.target /\ Save(Without(ui.target))
             /\ call' = [op |-> "delete", cfg |-> ui.target] /\ UNCHANGED <<ui, banner>>
    <3>1. StoreOK' /\ saving' # NoSave /\ saving'.configs = Without(ui.target)
      BY <1>0, <2>2, <2>4, SaveBegins DEF StoreOK
    <3>2. DiskAgrees'
      BY <1>0, <2>4 DEF DiskAgrees
    <3>3. Without(ui.target)' = Without(ui.target)
      BY <2>4 DEF Without, Listed
    <3>4. CallOK'
      BY <1>0, <2>1, <2>4, <3>1, <3>3 DEF CallOK, Without, Listed
    <3> QED
      BY <3>1, <3>2, <3>4
  <2> QED
    BY <1>1, <1>4, <2>3, <2>4 DEF DeletePress, Delete, SaveList
<1>5. CASE ManagePress(b)
  <2>1. ASSUME Listed(ui.target), NEW copy \in Name,
               banner' = FALSE, ui.screen = "manage",
               SaveList("duplicate", copy,
                        InsertAt(configs, Position(configs, ui.target) + 1, copy), ToMain)
        PROVE  StoreOK' /\ CallOK' /\ DiskAgrees'
    <3> DEFINE longer == InsertAt(configs, Position(configs, ui.target) + 1, copy)
    <3>1. file.kind = "list" /\ ~banner
      BY <1>0, <2>1, ListedIsStored DEF Listed
    <3>2. longer \in Seq(Name) /\ copy \in Range(longer)
      BY <1>0, <2>1, Inserted DEF Listed
    <3> HIDE DEF longer
    <3>3. DiskAgrees'
      BY <1>0, <2>1, <3>1 DEF DiskAgrees
    <3>4. CASE UNCHANGED <<saving, call>>
      <4>1. StoreOK'
        BY <1>0, <2>1, <3>4 DEF StoreOK
      <4> QED
        BY <1>0, <3>3, <3>4, <4>1, CallIdle
    <3>5. CASE Save(longer) /\ call' = [op |-> "duplicate", cfg |-> copy] /\ UNCHANGED ui
      <4>1. StoreOK' /\ saving' # NoSave /\ saving'.configs = longer
        BY <1>0, <2>1, <3>2, <3>5, SaveBegins
      <4>2. CallOK'
        BY <2>1, <3>2, <3>5, <4>1 DEF CallOK
      <4> QED
        BY <3>3, <4>1, <4>2
    <3> QED
      BY <2>1, <3>4, <3>5 DEF SaveList, longer
  <2> QED
    BY <1>1, <1>5, <2>1 DEF ManagePress, Duplicate
<1> QED
  BY <1>1, <1>2, <1>3, <1>4, <1>5
  DEF OnPress, MainPress, EditPress, DiscardPress, TimeSetupPress, TimeSetupChoice,
      PickerPress, BracketPress, NameKeyboardPress, WifiListPress, WifiKeyboardPress,
      StartConnect, WifiStatusPress, WifiForgetPress, PowerOffPress, ShuttingDownPress

LEMMA ReleaseCalls ==
    ASSUME AppInv, AppLockFree, on, UNCHANGED <<file, on, configs, engine>>,
           NEW b \in Hold, OnRelease(b)
    PROVE  StoreOK' /\ CallOK' /\ DiskAgrees'
<1> USE DEF Show, workers
<1>0. /\ call = NoCall /\ saving = NoSave /\ configs \in Seq(Name)
      /\ StoreOK /\ DiskAgrees /\ ui \in Uis
  BY ListsAre DEF AppInv, AppLockFree, CallOK, NoCall, StoreOK, UiInv
<1>1. CASE UNCHANGED <<saving, call, banner>>
  BY <1>1, NothingCalled
<1>2. ASSUME ui.screen = "main", ui.cursor < Len(configs),
             ui' = [ui EXCEPT !.flag[<<"main", "OK">>] = "up"],
             NEW op \in {"start", "switch"}, Call(op, configs[ui.cursor + 1])
      PROVE  StoreOK' /\ CallOK' /\ DiskAgrees'
  <2>1. StoreOK' /\ DiskAgrees'
    BY <1>0, <1>2 DEF Call, StoreOK, DiskAgrees
  <2>2. configs[ui.cursor + 1] \in Name
    <3>1. Len(configs) \in Nat /\ ui.cursor \in Nat
      BY <1>0, LenProperties DEF Uis
    <3>2. ui.cursor + 1 \in 1..Len(configs)
      BY <1>2, <3>1
    <3> QED
      BY <1>0, <3>2, LenProperties
  <2>3. ui'.screen = "main"
    BY <1>0, <1>2 DEF Uis
  <2>4. call' = [op |-> op, cfg |-> configs[ui.cursor + 1]] /\ saving' = NoSave
    BY <1>0, <1>2 DEF Call
  <2> QED
    BY <1>2, <2>1, <2>2, <2>3, <2>4 DEF CallOK
<1> QED
  BY <1>1, <1>2 DEF OnRelease, MainRelease, OpenEditNew, WifiRelease, StartConnect

\* A handler: a press, a release, a long press, the chord, or an arrow.
LEMMA HandlerKeeps ==
    ASSUME AppInv, \/ \E b \in Hold : Press(b)
                   \/ Arrow \/ Released \/ \E t \in Timer : Fire(t)
    PROVE  AppInv'
<1>0. /\ UiInv /\ configs \in Seq(Name) /\ RouterOK
  BY ListsAre DEF AppInv, StoreOK
<1>1. /\ on /\ AppLockFree /\ UNCHANGED <<file, on, configs, engine>>
      /\ pressed' = pressed /\ armed' = armed /\ late' \subseteq late
      /\ \/ gpio' \in {gpio, Quiet}
         \/ \E b \in Hold : gpio' = [kind |-> "press", button |-> b]
  BY DEF AppInv, OffOK, Quiet, Press, Arrow, Released, Fire, router
<1>2. EngineOK' /\ RouterOK' /\ OffOK'
  BY <1>0, <1>1 DEF AppInv, EngineOK, RouterOK, OffOK, engine
<1>3. CASE \E b \in Hold : Press(b)
  <2>1. PICK b \in Hold : OnPress(b)
    BY <1>3 DEF Press
  <2>2. UiInv'
    BY <1>0, <1>1, <2>1, MenuPress, ObjectPress, ShutdownPress DEF OnPress
  <2> QED
    BY <1>1, <1>2, <2>1, <2>2, PressCalls DEF AppInv
<1>4. CASE Released
  <2>1. gpio.button \in Hold /\ OnRelease(gpio.button)
    BY <1>0, <1>4 DEF Released, RouterOK, Quiet
  <2>2. UiInv'
    BY <1>0, <1>1, <2>1, MainHeld, WifiHeld, Still
    DEF OnRelease, Flagged, Flags, Show, workers
  <2> QED
    BY <1>1, <1>2, <2>1, <2>2, ReleaseCalls DEF AppInv
<1>5. ASSUME NEW t \in Timer, Fire(t)
      PROVE  AppInv'
  <2>1. OnChord \/ \E b \in Hold : OnLongPress(b)
    BY <1>5 DEF Fire, Timer
  <2>2. UNCHANGED <<saving, call, banner, workers>>
    BY <2>1 DEF OnChord, OnLongPress, MainLong, WifiLong, Show
  <2>3. UiInv'
    BY <1>0, <1>1, <2>1, <2>2, ShutdownPress, MainHeld, WifiHeld, Still
    DEF OnLongPress, Flagged, Flags, Show, workers, Hold
  <2> QED
    BY <1>1, <1>2, <2>2, <2>3, NothingCalled DEF AppInv
<1>6. CASE Arrow
  <2>1. UNCHANGED <<saving, call, banner>>
    BY <1>6 DEF Arrow, MoveCursor, OpenSettings, ChangeField, Show
  <2>2. UiInv'
    BY <1>0, <1>1, <1>6, ArrowMoves DEF Arrow
  <2> QED
    BY <1>1, <1>2, <2>1, <2>2, NothingCalled DEF AppInv
<1> QED
  BY <1>3, <1>4, <1>5, <1>6

\* The timers and the buttons alone.
LEMMA RouterKeeps ==
    ASSUME AppInv, \/ \E b \in Hold : Release(b)
                   \/ Arm \/ \E t \in Timer : Expire(t)
    PROVE  AppInv'
<1>1. /\ on /\ UNCHANGED <<store, on, app, engine, workers>> /\ RouterOK
  BY DEF AppInv, OffOK, Quiet, Release, Arm, Expire
<1>2. RouterOK'
  <2>1. ASSUME NEW b \in Hold, Release(b)
        PROVE  RouterOK'
    BY <1>1, <2>1 DEF Release, RouterOK
  <2>2. CASE Arm
    <3>1. gpio.button \in Hold
      BY <1>1, <2>2 DEF Arm, RouterOK, Quiet
    <3>2. /\ pressed' = pressed \cup {gpio.button} /\ gpio' = Quiet /\ late' = late
          /\ armed' = {"chord"} \/ armed' = armed \cup {gpio.button}
      BY <2>2 DEF Arm
    <3>3. "chord" \in Timer /\ gpio.button \in Timer
      BY <3>1 DEF Timer
    <3>4. armed \subseteq Timer /\ late \subseteq Timer /\ pressed \subseteq Hold
      BY <1>1 DEF RouterOK
    <3>5. armed' \subseteq Timer /\ late' \subseteq Timer /\ pressed' \subseteq Hold
      BY <3>1, <3>2, <3>3, <3>4
    <3> QED
      BY <3>2, <3>5 DEF RouterOK
  <2>3. ASSUME NEW t \in Timer, Expire(t)
        PROVE  RouterOK'
    BY <1>1, <2>3 DEF Expire, RouterOK
  <2> QED
    BY <2>1, <2>2, <2>3
<1>3. UiInv'
  BY <1>1, Still DEF AppInv, app, workers
<1>4. StoreOK' /\ EngineOK' /\ DiskAgrees'
  BY <1>1 DEF AppInv, StoreOK, EngineOK, DiskAgrees, store, app, engine
<1>5. CallOK'
  BY <1>1 DEF AppInv, CallOK, Without, Listed, store, app, engine
<1> QED
  BY <1>1, <1>2, <1>3, <1>4, <1>5 DEF AppInv, OffOK

\* A call is on its way only on a screen without a worker.
LEMMA CallAlone ==
    ASSUME AppInv, call # NoCall
    PROVE  on /\ wifi = "no" /\ ~syncing /\ Fits(ui.screen) /\ ui \in Uis
<1>1. on
  BY DEF AppInv, OffOK
<1>2. ui.screen \in {"main", "overlay_stop", "overlay_save", "manage", "overlay_delete"}
  BY DEF AppInv, CallOK
<1>3. ui.screen \in Shown
  BY DEF Shown
<1> QED
  BY <1>1, <1>2, <1>3, Free DEF AppInv, UiInv

LEMMA CommandKeeps ==
    ASSUME AppInv, Commanded
    PROVE  AppInv'
<1>1. /\ on /\ wifi = "no" /\ ~syncing /\ Fits(ui.screen) /\ ui \in Uis
      /\ call # NoCall /\ saving = NoSave
      /\ UNCHANGED <<file, on, configs, banner, wifi, syncing, gpio, pressed, armed, late>>
      /\ configs \in Seq(Name)
  BY CallAlone, ListsAre DEF Commanded, workers, router, AppInv, StoreOK
<1>2. RouterOK' /\ OffOK' /\ DiskAgrees'
  BY <1>1 DEF AppInv, RouterOK, OffOK, DiskAgrees
<1>3. CASE call.op \in {"start", "switch"}
  <2>1. call.cfg \in Name /\ call' = NoCall /\ UNCHANGED <<ui, saving>>
    BY <1>3 DEF Commanded, AppInv, CallOK
  <2>2. EngineOK'
    BY <1>3, <2>1 DEF Commanded, AppInv, EngineOK, engine
  <2>3. StoreOK' /\ CallOK'
    BY <1>1, <2>1, CallIdle DEF AppInv, StoreOK
  <2>4. UiInv'
    BY <1>1, <2>1, Still DEF AppInv
  <2> QED
    BY <1>2, <2>2, <2>3, <2>4 DEF AppInv
<1>4. CASE call.op = "stop"
  <2>1. ui.screen = "overlay_stop" /\ call' = NoCall /\ ui' = ToMain /\ UNCHANGED saving
    BY <1>4 DEF Commanded, AppInv, CallOK
  <2>2. EngineOK'
    BY <1>4 DEF Commanded, EngineOK
  <2>3. StoreOK' /\ CallOK'
    BY <1>1, <2>1, CallIdle DEF AppInv, StoreOK
  <2>4. ui.edit = NoEdit
    BY <1>1, <2>1 DEF Fits, EditScreens
  <2>5. UiInv'
    BY <1>1, <2>1, <2>4, MainMoves DEF AppInv
  <2> QED
    BY <1>2, <2>2, <2>3, <2>5 DEF AppInv
<1>5. CASE call.op = "delete"
  <2>1. /\ call' = call /\ ui' = ui /\ Save(Without(call.cfg))
        /\ running' = NoName /\ session' = NoName
    BY <1>5 DEF Commanded
  <2>2. Without(call.cfg) \in Seq(Name)
    BY <1>1, LeftOut
  <2>3. EngineOK'
    BY <2>1 DEF EngineOK
  <2>4. StoreOK' /\ saving' # NoSave /\ saving'.configs = Without(call.cfg)
    BY <1>1, <2>1, <2>2, SaveBegins DEF AppInv, StoreOK
  <2>5. CallOK'
    <3>1. /\ ui.screen = "overlay_delete" /\ ~banner /\ call.cfg \in Name
          /\ call \in [op : {"start", "switch", "stop", "commit", "duplicate", "delete"},
                       cfg : Name \cup {NoName}]
      BY <1>1, <1>5 DEF AppInv, CallOK
    <3>2. Without(call.cfg)' = Without(call.cfg)
      BY <1>1, <2>1 DEF Without, Listed
    <3>3. running' # call.cfg
      BY <2>1, <3>1, AppAssumption
    <3> HIDE DEF Without
    <3> QED
      BY <1>1, <1>5, <2>1, <2>4, <3>1, <3>2, <3>3 DEF CallOK
  <2>6. UiInv'
    BY <1>1, <2>1, Still DEF AppInv
  <2> QED
    BY <1>2, <2>3, <2>4, <2>5, <2>6 DEF AppInv
<1> QED
  BY <1>3, <1>4, <1>5 DEF Commanded

LEMMA SaveKeeps ==
    ASSUME AppInv, SaveStep \/ Saved \/ SaveFailed
    PROVE  AppInv'
<1>0. saving # NoSave /\ call.op \in {"commit", "duplicate", "delete"} /\ call # NoCall
  BY DEF AppInv, CallOK, NoCall, NoSave, SaveStep, Saved, SaveFailed, WriteTmp, Replace,
         SaveRaises
<1>1. /\ on /\ wifi = "no" /\ ~syncing /\ Fits(ui.screen) /\ ui \in Uis
      /\ UNCHANGED <<on, running, wifi, syncing, gpio, pressed, armed, late>>
      /\ saving \in [step : {"write", "replace"}, configs : Lists]
  BY <1>0, CallAlone
  DEF SaveStep, Saved, SaveFailed, workers, router, engine, AppInv, StoreOK
<1>2. RouterOK' /\ OffOK'
  BY <1>1 DEF AppInv, RouterOK, OffOK
<1>3. CASE SaveStep
  <2>1. /\ saving' = [saving EXCEPT !.step = "replace"]
        /\ UNCHANGED <<file, configs, banner, ui, call, session>>
    BY <1>3 DEF SaveStep, WriteTmp, app, engine
  <2>2. /\ saving' \in [step : {"write", "replace"}, configs : Lists]
        /\ saving'.configs = saving.configs /\ saving' # NoSave
    BY <1>1, <2>1 DEF NoSave
  <2>3. StoreOK' /\ EngineOK' /\ DiskAgrees'
    BY <1>1, <2>1, <2>2 DEF AppInv, StoreOK, EngineOK, DiskAgrees
  <2>4. Without(call.cfg)' = Without(call.cfg)
    BY <2>1 DEF Without, Listed
  <2>5. CallOK'
    BY <1>0, <1>1, <2>1, <2>2, <2>4 DEF AppInv, CallOK
  <2>6. UiInv'
    BY <1>1, <2>1, Still DEF AppInv
  <2> QED
    BY <1>2, <2>3, <2>5, <2>6 DEF AppInv
<1>4. CASE SaveFailed
  <2>1. saving' = NoSave /\ call' = NoCall /\ UNCHANGED <<file, configs, banner, ui, session>>
    BY <1>4 DEF SaveFailed, SaveRaises, engine
  <2>2. StoreOK' /\ EngineOK' /\ DiskAgrees' /\ CallOK'
    BY <1>1, <2>1, CallIdle DEF AppInv, StoreOK, EngineOK, DiskAgrees
  <2>3. UiInv'
    BY <1>1, <2>1, Still DEF AppInv
  <2> QED
    BY <1>2, <2>2, <2>3 DEF AppInv
<1>5. CASE Saved
  <2>1. /\ configs' = saving.configs /\ file' = Listing(saving.configs)
        /\ saving' = NoSave /\ call' = NoCall /\ saving.configs \in Lists
    BY <1>1, <1>5 DEF Saved, Replace
  <2>2. ~banner' /\ banner' \in BOOLEAN
    <3>1. CASE call.op = "commit"
      BY <1>5, <3>1 DEF Saved
    <3>2. CASE call.op # "commit"
      <4>1. UNCHANGED banner
        BY <1>5, <3>2 DEF Saved
      <4>2. ~banner /\ banner \in BOOLEAN
        BY <1>0, <3>2 DEF AppInv, CallOK, StoreOK
      <4> QED
        BY <4>1, <4>2
    <3> QED
      BY <3>1, <3>2
  <2>3. StoreOK' /\ DiskAgrees' /\ CallOK'
    BY <1>1, <2>1, <2>2, CallIdle DEF AppInv, StoreOK, DiskAgrees, Listing
  <2>4. EngineOK'
    <3>1. call.op = "commit" => ui.edit.name \in Name
      BY <1>1 DEF AppInv, CallOK, UiInv, DraftOK, Fits, Backed, EditScreens
    <3> QED
      BY <1>1, <1>5, <3>1 DEF Saved, AppInv, EngineOK
  <2>5. /\ ui' \in Uis /\ ui'.screen = "main" /\ ui'.edit = NoEdit
        /\ ui'.cursor <= Len(configs')
    <3>0. Len(saving.configs) \in Nat /\ saving.configs \in Seq(Name)
      BY <2>1, ListsAre, LenProperties
    <3>1. CASE call.op = "commit"
      <4>1. /\ ui' \in Uis /\ ui'.screen = "main" /\ ui'.edit = NoEdit
            /\ ui'.cursor = ui.cursor
        <5>1. ui' = DropDraft("main")
          BY <1>5, <3>1 DEF Saved
        <5> QED
          BY <1>1, <5>1 DEF DropDraft, Uis, NoEdit, Edits, Screens
      <4>2. ui.cursor <= Len(configs) /\ Len(configs) <= Len(saving.configs)
        BY <3>1 DEF AppInv, UiInv, CallOK
      <4>3. Len(configs) \in Nat /\ ui.cursor \in Nat
        BY <1>1, ListsAre, LenProperties DEF AppInv, StoreOK, Uis
      <4> QED
        BY <2>1, <3>0, <4>1, <4>2, <4>3
    <3>2. CASE call.op = "duplicate"
      <4>1. ui.edit = NoEdit /\ call.cfg \in Range(saving.configs)
        BY <1>1, <3>2 DEF AppInv, CallOK, Fits, EditScreens
      <4>2. Position(saving.configs, call.cfg) \in 1..Len(saving.configs)
        BY <3>0, <4>1, PositionFound
      <4>3. /\ Position(saving.configs, call.cfg) - 1 \in Nat
            /\ Position(saving.configs, call.cfg) - 1 <= Len(saving.configs)
        BY <3>0, <4>2
      <4>4. ui' = [ToMain EXCEPT !.cursor = Position(saving.configs, call.cfg) - 1]
        BY <1>5, <3>2 DEF Saved, CopyShown
      <4> QED
        BY <1>1, <2>1, <4>1, <4>3, <4>4 DEF ToMain, Uis, Screens
    <3>3. CASE call.op = "delete"
      <4>1. ui.edit = NoEdit
        BY <1>1, <3>3 DEF AppInv, CallOK, Fits, EditScreens
      <4>2. PICK c \in {ui.cursor, Len(configs')} :
              c <= Len(configs') /\ ui' = [ToMain EXCEPT !.cursor = c]
        <5>1. ui' = [ToMain EXCEPT !.cursor = IF ui.cursor > Len(configs') THEN Len(configs')
                                                                       ELSE ui.cursor]
          BY <1>1, <1>5, <3>3 DEF Saved, CursorKept, ToMain, Uis
        <5>2. ui.cursor \in Nat /\ Len(configs') \in Nat
          BY <1>1, <2>1, <3>0 DEF Uis
        <5> QED
          BY <5>1, <5>2
      <4>3. c \in Nat
        BY <1>1, <2>1, <3>0 DEF Uis
      <4> QED
        BY <1>1, <4>1, <4>2, <4>3 DEF ToMain, Uis, Screens
    <3> QED
      BY <1>0, <3>1, <3>2, <3>3
  <2>6. UiInv'
    BY <1>1, <2>5, MainLanded DEF AppInv
  <2> QED
    BY <1>2, <2>3, <2>4, <2>6 DEF AppInv
<1> QED
  BY <1>3, <1>4, <1>5

\* The end of a worker, what the schedule does, and no step at all.
LEMMA OthersKeep ==
    ASSUME AppInv, \/ SyncEnds \/ ScanEnds \/ ConnectEnds
                   \/ \E c \in Name \cup {NoName} : ScheduleActs(c)
                   \/ UNCHANGED vars
    PROVE  AppInv'
<1>1. CASE SyncEnds \/ ScanEnds \/ ConnectEnds
  <2>1. /\ on /\ AppLockFree
        /\ UNCHANGED <<file, on, configs, saving, call, banner, running, session,
                       gpio, pressed, armed, late>>
    BY <1>1 DEF AppInv, OffOK, SyncEnds, ScanEnds, ConnectEnds, store, engine, router
  <2>2. UiInv'
    BY <1>1, WorkerMoves DEF AppInv
  <2>3. StoreOK' /\ CallOK' /\ DiskAgrees'
    BY <2>1, NothingCalled
  <2>4. EngineOK' /\ RouterOK' /\ OffOK'
    BY <2>1 DEF AppInv, EngineOK, RouterOK, OffOK
  <2> QED
    BY <2>2, <2>3, <2>4 DEF AppInv
<1>2. ASSUME NEW c \in Name \cup {NoName}, ScheduleActs(c)
      PROVE  AppInv'
  <2>1. /\ on /\ UNCHANGED <<file, saving, on, configs, banner, ui, call, syncing, wifi,
                             gpio, pressed, armed, late>>
        /\ running' = c /\ session' \in {c, Loose}
        /\ c = NoName \/ call = NoCall \/ session' = Loose
    BY <1>2 DEF ScheduleActs, store, app, workers, router
  <2>2. UiInv'
    BY <2>1, Still DEF AppInv
  <2>3. StoreOK' /\ EngineOK' /\ RouterOK' /\ OffOK' /\ DiskAgrees'
    BY <2>1 DEF AppInv, StoreOK, EngineOK, RouterOK, OffOK, DiskAgrees
  <2>4. CallOK'
    <3>1. Without(call.cfg)' = Without(call.cfg)
      BY <2>1 DEF Without, Listed
    <3>2. call # NoCall /\ call.cfg \in Name => running' # call.cfg \/ session' = Loose
      BY <2>1, AppAssumption
    <3>3. CallOK
      BY DEF AppInv
    <3>4. call.op = "delete" => call # NoCall
      BY DEF NoCall
    <3> QED
      BY <2>1, <3>1, <3>2, <3>3, <3>4 DEF CallOK
  <2> QED
    BY <2>2, <2>3, <2>4 DEF AppInv
<1>3. CASE UNCHANGED vars
  <2>1. UNCHANGED <<file, saving, on, configs, banner, ui, call, running, session, syncing,
                    wifi, gpio, pressed, armed, late>>
    BY <1>3 DEF vars, store, app, engine, workers, router
  <2>2. UiInv'
    BY <2>1, Still DEF AppInv
  <2>3. StoreOK' /\ EngineOK' /\ RouterOK' /\ OffOK' /\ DiskAgrees'
    BY <2>1 DEF AppInv, StoreOK, EngineOK, RouterOK, OffOK, DiskAgrees
  <2>4. CallOK'
    <3>1. Without(call.cfg)' = Without(call.cfg)
      BY <2>1 DEF Without, Listed
    <3> QED
      BY <2>1, <3>1 DEF AppInv, CallOK
  <2> QED
    BY <2>2, <2>3, <2>4 DEF AppInv
<1> QED
  BY <1>1, <1>2, <1>3

LEMMA AppStep == AppInv /\ [Next]_vars => AppInv'
  BY PowerKeeps, HandlerKeeps, RouterKeeps, CommandKeeps, SaveKeeps, OthersKeep DEF Next

LEMMA AppInvariant == Spec => []AppInv
  BY AppInit, AppStep, PTL DEF Spec

\* App: no screen is dead, the list keeps its names apart and the cursor is within it.
THEOREM TypeCorrect == Spec => []TypeOK
<1>1. AppInv => TypeOK
  <2> SUFFICES ASSUME AppInv
               PROVE  TypeOK
    OBVIOUS
  <2>1. /\ ui.screen \in Screens /\ ui.cursor \in Nat /\ ui.open \subseteq Objects
        /\ ui.flag \in [Flags -> FlagValue]
    BY DEF AppInv, UiInv, Uis
  <2>2. Len(configs) \in Nat
    BY ListsAre, LenProperties DEF AppInv, StoreOK
  <2>3. ui.cursor \in 0..Len(configs)
    BY <2>1, <2>2 DEF AppInv, UiInv
  <2>4. \A s \in Shown : Backed(s)
    BY DEF AppInv, UiInv, Fits
  <2>5. /\ on \in BOOLEAN /\ configs \in Lists
        /\ syncing \in BOOLEAN /\ wifi \in {"no", "scan", "connect"}
    BY DEF AppInv, StoreOK, UiInv, WorkersOK
  <2>6. /\ {running, session} \subseteq Name \cup {NoName, Loose}
        /\ pressed \subseteq Hold /\ {armed, late} \subseteq SUBSET Timer
    BY DEF AppInv, EngineOK, RouterOK
  <2> QED
    BY <2>1, <2>3, <2>4, <2>5, <2>6 DEF TypeOK, Objects, FlagValue
<1> QED
  BY <1>1, AppInvariant, PTL

\* ConfigStore and App: at every step of a save, after every failure and power cut, the
\* file has the list that is in memory, and the banner shows when there is none.
THEOREM DiskHoldsList == Spec => []DiskAgrees
<1>1. AppInv => DiskAgrees
  BY DEF AppInv
<1> QED
  BY <1>1, AppInvariant, PTL

\* App: a worker ends on the screen that waits for it, or on the shutdown screen.
THEOREM WorkersAwaited == Spec => []OperatorWaits
<1>1. AppInv => OperatorWaits
  BY DEF AppInv, UiInv, WorkersOK
<1> QED
  BY <1>1, AppInvariant, PTL

-------------------------------------------------------------------------------
\* What a step of a handler promises of the draft and of what it deletes.

\* A draft's name is its own: only a list that is too long is refused.
\* The moves that leave the draft as it is.
LEMMA DraftStays ==
    ASSUME ui \in Uis,
           \/ Arrow /\ ~ChangeField
           \/ \E b \in Hold : OnRelease(b) /\ ui.screen # "main"
           \/ \E t \in Timer : Fire(t)
           \/ SyncEnds \/ ScanEnds \/ ConnectEnds
           \/ UNCHANGED ui
    PROVE  ui'.edit = ui.edit
<1> USE DEF Uis, Show, Go, Leave, Enter, BackToList
<1>1. CASE Arrow /\ ~ChangeField
  BY <1>1 DEF Arrow, MoveCursor, OpenSettings
<1>2. ASSUME NEW b \in Hold, OnRelease(b), ui.screen # "main"
      PROVE  ui'.edit = ui.edit
  BY <1>2 DEF OnRelease, WifiRelease, StartConnect
<1>3. ASSUME NEW t \in Timer, Fire(t)
      PROVE  ui'.edit = ui.edit
  BY <1>3 DEF Fire, OnChord, OnLongPress, MainLong, WifiLong
<1>4. CASE SyncEnds \/ ScanEnds \/ ConnectEnds
  BY <1>4 DEF SyncEnds, ScanEnds, ConnectEnds
<1> QED
  BY <1>1, <1>2, <1>3, <1>4

LEMMA PressDrafts ==
    ASSUME AppInv, AppLockFree, NEW b \in Hold, OnPress(b), ui.edit # NoEdit,
           Dirty(ui.edit), ui'.edit = NoEdit
    PROVE  ui.screen \in {"overlay_save", "overlay_discard"} /\ saving = NoSave
<1>1. ui \in Uis /\ ui.screen \in Shown /\ Fits(ui.screen) /\ UiInv /\ configs \in Lists
  BY DEF AppInv, UiInv, StoreOK, Shown
<1>2. ui.screen \in EditScreens \cup {"picker", "overlay_poweroff", "shutting_down"}
  BY <1>1 DEF Fits
<1>9. saving = NoSave
  BY DEF AppInv, CallOK, AppLockFree, NoCall
<1> USE DEF Uis, Show, Go, Leave
<1>3. CASE EditPress(b)
  BY <1>1, <1>3 DEF EditPress
<1>4. CASE SavePress(b)
  BY <1>4, <1>9, Zenon DEF SavePress
<1>5. CASE DiscardPress(b)
  BY <1>5, <1>9, Zenon DEF DiscardPress
<1>6. CASE PickerPress(b) \/ BracketPress(b)
  <2>1. ui'.edit = ui.edit \/ \E t \in BOOLEAN : ui'.edit = [ui.edit EXCEPT !.touched = t]
    BY <1>1, <1>6 DEF PickerPress, BracketPress
  <2>2. \A t \in BOOLEAN : [ui.edit EXCEPT !.touched = t].name = ui.edit.name
    BY <1>1 DEF Edits
  <2>3. ui.edit.name # NoName /\ NoEdit.name = NoName
    BY <1>1, AppAssumption DEF UiInv, DraftOK, NoEdit
  <2> QED
    BY <2>1, <2>2, <2>3
<1>7. CASE NameKeyboardPress(b)
  <2>1. ui.edit.name \in Name
    BY <1>1 DEF UiInv, DraftOK
  <2>2. ui'.edit = ui.edit \/ \E n \in FreeNames : ui'.edit = [ui.edit EXCEPT !.name = n]
    BY <1>1, <1>7 DEF NameKeyboardPress
  <2>3. \A n \in FreeNames : n # NoName
    BY <2>1, AppAssumption DEF FreeNames
  <2>4. \A n \in FreeNames : [ui.edit EXCEPT !.name = n].name = n
    BY <1>1 DEF Edits
  <2>5. NoEdit.name = NoName
    BY DEF NoEdit
  <2> QED
    BY <2>2, <2>3, <2>4, <2>5
<1>8. CASE PowerOffPress(b) \/ ShuttingDownPress(b)
  BY <1>1, <1>8 DEF PowerOffPress, ShuttingDownPress
<1> QED
  BY <1>2, <1>3, <1>4, <1>5, <1>6, <1>7, <1>8, <1>9
  DEF OnPress, MainPress, ManagePress, StopPress, DeletePress, TimeSetupPress, WifiListPress,
      WifiKeyboardPress, WifiStatusPress, WifiForgetPress, EditScreens

LEMMA DraftStep ==
    ASSUME AppInv, Next, Dirty(ui.edit), ui'.edit = NoEdit
    PROVE  \/ ~on'
           \/ /\ ui.screen \in {"overlay_save", "overlay_discard"}
              /\ saving # NoSave
                   => ui.edit.name \in Range(configs') /\ file'.configs = configs'
<1>1. /\ ui \in Uis /\ ui.screen \in Shown /\ Fits(ui.screen) /\ ui.edit # NoEdit
      /\ ui.edit.name # NoName
  BY AppAssumption DEF AppInv, UiInv, Shown, Dirty, NoEdit, DraftOK
<1>2. ASSUME ui'.edit = ui.edit
      PROVE  FALSE
  BY <1>1, <1>2
<1>3. CASE PowerCut
  BY <1>3 DEF PowerCut
<1>4. CASE \E b \in Hold : Press(b)
  BY <1>1, <1>4, PressDrafts DEF Press
<1>5. CASE Arrow
  <2>1. ChangeField
    BY <1>1, <1>2, <1>5, DraftStays
  <2>2. ui'.edit = ui.edit \/ \E t \in BOOLEAN : ui'.edit = [ui.edit EXCEPT !.touched = t]
    BY <1>1, <2>1 DEF ChangeField, Show, Go, Enter, Uis
  <2>3. \A t \in BOOLEAN : [ui.edit EXCEPT !.touched = t].name = ui.edit.name
    BY <1>1 DEF Edits, Uis
  <2>4. ui'.edit.name = NoName
    BY DEF NoEdit
  <2> QED
    BY <1>1, <1>2, <2>2, <2>3, <2>4
<1>6. CASE Released
  <2>1. gpio.button \in Hold /\ OnRelease(gpio.button)
    BY <1>6 DEF Released, AppInv, RouterOK, Quiet
  <2>2. ui.screen # "main"
    BY <1>1 DEF Fits, EditScreens
  <2> QED
    BY <1>1, <1>2, <2>1, <2>2, DraftStays
<1>7. CASE Commanded
  BY <1>1, <1>2, <1>7 DEF Commanded, ToMain, Uis
<1>8. CASE Saved
  <2>1. configs' = saving.configs /\ file'.configs = configs'
    BY <1>8 DEF Saved, Replace, Listing
  <2>2. CASE call.op = "commit"
    BY <2>1, <2>2 DEF AppInv, CallOK
  <2>3. CASE call.op # "commit"
    <3>1. ui' = CopyShown \/ ui' = CursorKept
      BY <1>8, <2>3 DEF Saved
    <3> QED
      BY <1>1, <1>2, <3>1 DEF CopyShown, CursorKept, ToMain, Uis
  <2> QED
    BY <2>2, <2>3
<1>9. CASE \/ SyncEnds \/ ScanEnds \/ ConnectEnds \/ \E t \in Timer : Fire(t)
  BY <1>1, <1>2, <1>9, DraftStays
<1>10. CASE \/ Boot \/ Arm \/ SaveStep \/ SaveFailed
            \/ \E b \in Hold : Release(b)
            \/ \E t \in Timer : Expire(t)
            \/ \E c \in Name \cup {NoName} : ScheduleActs(c)
  BY <1>2, <1>10 DEF Boot, Arm, SaveStep, SaveFailed, Release, Expire, ScheduleActs, app
<1> QED
  BY <1>3, <1>4, <1>5, <1>6, <1>7, <1>8, <1>9, <1>10 DEF Next

\* App: changes made in the editor are given up only where the operator confirmed it, on
\* the save or the discard overlay; and of a save that is under way only with the draft in
\* the file, whatever the disk does.
THEOREM DraftsKept == Spec => DraftKept
<1>1. AppInv /\ [Next]_vars =>
        [Dirty(ui.edit) /\ ui'.edit = NoEdit /\ on'
           => /\ ui.screen \in {"overlay_save", "overlay_discard"}
              /\ saving # NoSave
                   => ui.edit.name \in Range(configs') /\ file'.configs = configs']_vars
  BY DraftStep
<1> QED
  BY <1>1, AppInvariant, PTL DEF Spec, DraftKept

LEMMA DeleteStep ==
    ASSUME AppInv, Next, NEW n \in Range(configs), call.op = "delete", n \notin Range(configs')
    PROVE  running' # n \/ session = Loose
<1>1. n \in Name /\ configs \in Seq(Name) /\ call # NoCall /\ on
  BY ListsAre, LenProperties DEF AppInv, StoreOK, Range, NoCall, OffOK
<1>2. configs' # configs
  OBVIOUS
<1>3. PowerCut \/ Saved
  BY <1>1, <1>2 DEF Next, Boot, Press, Release, Arrow, Arm, Released, Expire, Fire, Commanded,
     SaveStep, SaveFailed, SyncEnds, ScanEnds, ConnectEnds, ScheduleActs, app
<1>4. CASE PowerCut
  BY <1>1, <1>4, AppAssumption DEF PowerCut
<1>5. CASE Saved
  <2>1. /\ saving # NoSave /\ configs' = saving.configs /\ running' = running
    BY <1>5 DEF Saved, Replace, NoSave
  <2>2. configs' = Without(call.cfg) /\ (running # call.cfg \/ session = Loose)
    BY <2>1 DEF AppInv, CallOK
  <2>3. n = call.cfg
    BY <1>1, <2>2, LeftOut
  <2> QED
    BY <2>1, <2>2, <2>3
<1> QED
  BY <1>3, <1>4, <1>5

\* App, _delete: the configuration does not run on under its name, unless the schedule
\* started it while it was being deleted.
THEOREM DeletedStops == Spec => DeleteStops
<1>1. AppInv /\ [Next]_vars =>
        [\A n \in Range(configs) :
           call.op = "delete" /\ n \notin Range(configs')
             => running' # n \/ session = Loose]_vars
  BY DeleteStep
<1> QED
  BY <1>1, AppInvariant, PTL DEF Spec, DeleteStops

-------------------------------------------------------------------------------
\* Presses, and what their releases may do.

\* A flag of the list that a release or a long press may still act by.
OnList(b) == "wifi_list" \in Shown /\ ui.flag[<<"wifi_list", b>>] # "up"

\* Such a flag is that of a press that nothing has used up.
GestureInv ==
    /\ MainFlag # "up" => <<"main", "OK">> \in fresh
    /\ \A b \in Hold : wifi = "no" /\ OnList(b) => <<"wifi_list", b>> \in fresh

\* The step raises no flag of the main screen, nor the list's of a button.
NoNewsOnMain == MainFlag' # "up" => MainFlag # "up"
NoNewsOnList(b) == OnList(b)' => OnList(b)

\* A screen over which nothing is shown.
LEMMA ListShown ==
    ASSUME ui'.screen # "wifi_list", ui'.screen # "overlay_poweroff", NEW b
    PROVE  ~OnList(b)' /\ NoNewsOnList(b)
  BY DEF NoNewsOnList, OnList, Shown

LEMMA ListReset ==
    ASSUME NEW b \in Hold, ui \in Uis, ui'.flag = ResetInput("wifi_list")
    PROVE  ~OnList(b)' /\ NoNewsOnList(b) /\ MainFlag' = MainFlag
<1>1. /\ ResetInput("wifi_list")[<<"wifi_list", b>>] = "up"
      /\ ResetInput("wifi_list")[<<"main", "OK">>] = MainFlag
  BY ResetFields
<1> QED
  BY <1>1 DEF NoNewsOnList, OnList, MainFlag

LEMMA SameUi ==
    ASSUME UNCHANGED ui, NEW b
    PROVE  NoNewsOnMain /\ NoNewsOnList(b)
  BY DEF NoNewsOnMain, NoNewsOnList, OnList, MainFlag, Shown

\* A move to another screen, the flags as they are.
LEMMA FlagsStay ==
    ASSUME NEW b, ui'.flag = ui.flag, ui.screen # "shutting_down",
           ui'.screen \in Screens \ {"wifi_list", "overlay_poweroff"}
    PROVE  NoNewsOnMain /\ NoNewsOnList(b)
  BY ListShown DEF NoNewsOnMain, MainFlag

LEMMA PressNews ==
    ASSUME UiInv, NEW b \in Hold, NEW c \in Hold, OnPress(b)
    PROVE  /\ NoNewsOnMain \/ (b = "OK" /\ ui.screen = "main")
           /\ NoNewsOnList(c) \/ (c = b /\ ui.screen = "wifi_list")
<1>0. ui \in Uis
  BY DEF UiInv
<1> USE DEF Show, Call, SaveList, Go, Leave, Enter, ToMain, DropDraft, BackToList
<1>1. CASE MainPress(b)
  <2>1. b = "OK" => ui'.screen = "main" /\ ui.screen = "main"
    BY <1>0, <1>1 DEF MainPress, Uis
  <2>2. b # "OK" => UNCHANGED ui \/ (ui'.screen = "overlay_stop" /\ ui'.flag = ui.flag)
    BY <1>0, <1>1 DEF MainPress, Uis
  <2> QED
    BY <1>1, <2>1, <2>2, SameUi, FlagsStay, ListShown DEF MainPress, Screens
<1>2. CASE \/ EditPress(b) \/ ManagePress(b) \/ StopPress(b) \/ SavePress(b)
           \/ DiscardPress(b) \/ DeletePress(b)
  <2>1. \/ UNCHANGED ui
        \/ /\ ui'.flag = ui.flag /\ ui.screen # "shutting_down"
           /\ ui'.screen \in {"main", "edit", "manage", "overlay_save", "overlay_discard",
                              "overlay_delete"}
    BY <1>0, <1>2 DEF EditPress, ManagePress, StopPress, SavePress, DiscardPress, DeletePress,
       Delete, Duplicate, Uis
  <2> QED
    BY <2>1, SameUi, FlagsStay DEF Screens
<1>3. CASE \/ PickerPress(b) \/ BracketPress(b) \/ NameKeyboardPress(b)
  <2>1. \/ UNCHANGED ui
        \/ /\ ui'.flag = ui.flag /\ ui.screen # "shutting_down"
           /\ ui'.screen \in {"main", "edit"}
    BY <1>0, <1>3 DEF PickerPress, BracketPress, NameKeyboardPress, Uis
  <2> QED
    BY <2>1, SameUi, FlagsStay DEF Screens
<1>4. CASE \/ TimeSetupPress(b) \/ WifiKeyboardPress(b) \/ WifiStatusPress(b)
           \/ WifiForgetPress(b)
  <2>1. \/ UNCHANGED ui
        \/ /\ ui'.flag = ui.flag /\ ui.screen # "shutting_down"
           /\ ui'.screen \in {"main", "picker", "wifi_keyboard", "wifi_status"}
        \/ ui'.flag = ResetInput("wifi_list") /\ ui.screen # "shutting_down"
    BY <1>0, <1>4 DEF TimeSetupPress, TimeSetupChoice, WifiKeyboardPress, WifiStatusPress,
       WifiForgetPress, StartConnect, Uis
  <2>2. CASE ui'.flag = ResetInput("wifi_list") /\ ui.screen # "shutting_down"
    BY <1>0, <2>2, ListReset DEF NoNewsOnMain
  <2> QED
    BY <2>1, <2>2, SameUi, FlagsStay DEF Screens
<1>5. CASE WifiListPress(b)
  <2>1. UNCHANGED ui \/ ui' = [ui EXCEPT !.flag[<<"wifi_list", b>>] = "down"]
    BY <1>5 DEF WifiListPress
  <2>2. CASE ui' = [ui EXCEPT !.flag[<<"wifi_list", b>>] = "down"]
    <3>1. <<"wifi_list", b>> \in Flags /\ "down" \in FlagValue
      BY DEF Flags, FlagValue, Hold
    <3>2. /\ ui'.flag = [ui.flag EXCEPT ![<<"wifi_list", b>>] = "down"]
          /\ ui'.screen = ui.screen /\ ui'.prev = ui.prev
      BY <1>0, <2>2, <3>1, FlagFields
    <3>3. /\ MainFlag' = MainFlag
          /\ c # b => ui'.flag[<<"wifi_list", c>>] = ui.flag[<<"wifi_list", c>>]
      BY <1>0, <3>1, <3>2 DEF MainFlag, Uis, Flags, Hold
    <3> QED
      BY <1>5, <3>2, <3>3 DEF WifiListPress, NoNewsOnMain, NoNewsOnList, OnList, Shown
  <2> QED
    BY <2>1, <2>2, SameUi
<1>6. CASE PowerOffPress(b)
  <2>1. /\ ui.screen = "overlay_poweroff" /\ ui.prev \in Shown
        /\ ui.prev \notin {"none", "overlay_poweroff", "shutting_down"}
    BY <1>6 DEF PowerOffPress, UiInv, Shown
  <2>2. /\ ui'.flag = ui.flag /\ ui'.screen \in {"shutting_down", ui.prev}
    BY <1>0, <1>6, <2>1 DEF PowerOffPress, Uis
  <2>3. Shown' \subseteq Shown \cup {"shutting_down"}
    BY <2>1, <2>2 DEF Shown
  <2> QED
    BY <2>1, <2>2, <2>3 DEF NoNewsOnMain, NoNewsOnList, OnList, MainFlag
<1>7. CASE ShuttingDownPress(b)
  BY <1>7, SameUi DEF ShuttingDownPress
<1> QED
  BY <1>1, <1>2, <1>3, <1>4, <1>5, <1>6, <1>7 DEF OnPress

\* Every other step raises no flag at all, whatever a release or a long press made of it.
LEMMA ReleaseNews ==
    ASSUME UiInv, NEW b \in Hold, NEW c \in Hold, OnRelease(b) \/ OnLongPress(b)
    PROVE  NoNewsOnMain /\ NoNewsOnList(c)
<1>0. ui \in Uis
  BY DEF UiInv
<1> USE DEF Show, Call, Go
<1>1. CASE ~Flagged(b)
  BY <1>1, SameUi DEF OnRelease, OnLongPress
<1>2. CASE Flagged(b) /\ ui.screen = "main"
  <2>1. MainFlag # "up" /\ (MainRelease \/ MainLong)
    BY <1>2 DEF Flagged, Flags, MainFlag, OnRelease, OnLongPress
  <2>2. ui'.screen \in {"main", "edit", "manage"}
    BY <1>0, <1>2, <2>1 DEF MainRelease, MainLong, OpenEditNew, Uis
  <2> QED
    BY <1>2, <2>1, <2>2, ListShown DEF NoNewsOnMain
<1>3. CASE Flagged(b) /\ ui.screen = "wifi_list"
  <2>1. WifiRelease(b) \/ WifiLong(b)
    BY <1>3 DEF OnRelease, OnLongPress
  <2>2. "wifi_list" \in Shown /\ ui.flag[<<"wifi_list", b>>] # "up"
    BY <1>3 DEF Flagged, Shown
  <2>3. <<"wifi_list", b>> \in Flags /\ ui.flag \in [Flags -> FlagValue]
    BY <1>0, <1>3 DEF Flagged, Uis
  <2>4. \/ UNCHANGED ui
        \/ ui'.flag = ResetInput("wifi_list")
        \/ \E v \in {"up", "long"} : ui'.flag = [ui.flag EXCEPT ![<<"wifi_list", b>>] = v]
    BY <1>0, <2>1, <2>3 DEF WifiRelease, WifiLong, StartConnect, Uis
  <2>5. ASSUME NEW v \in {"up", "long"}, ui'.flag = [ui.flag EXCEPT ![<<"wifi_list", b>>] = v]
        PROVE  NoNewsOnMain /\ NoNewsOnList(c)
    <3>1. MainFlag' = MainFlag
      BY <2>3, <2>5 DEF MainFlag, Flags
    <3>2. c # b => ui'.flag[<<"wifi_list", c>>] = ui.flag[<<"wifi_list", c>>]
      BY <2>3, <2>5 DEF Flags, Hold
    <3> QED
      BY <1>3, <2>2, <3>1, <3>2 DEF NoNewsOnMain, NoNewsOnList, OnList
  <2> QED
    BY <1>0, <1>3, <2>4, <2>5, SameUi, ListReset DEF NoNewsOnMain
<1> QED
  BY <1>1, <1>2, <1>3 DEF Flagged, Flags

LEMMA OtherNews ==
    ASSUME AppInv, NEW c \in Hold,
           \/ Arrow \/ Released \/ \E t \in Timer : Fire(t)
           \/ Commanded \/ Saved \/ SyncEnds \/ ScanEnds \/ ConnectEnds
    PROVE  NoNewsOnMain /\ NoNewsOnList(c)
<1>0. /\ ui \in Uis /\ ui.screen \in Shown /\ Fits(ui.screen) /\ UiInv
  BY DEF AppInv, UiInv, Shown
<1> USE DEF Show, Go, Leave, Enter, ToMain, DropDraft, BackToList
<1>1. CASE Arrow
  <2>1. \/ ui'.screen = ui.screen /\ ui'.prev = ui.prev /\ ui'.flag = ui.flag
        \/ /\ ui.screen = "edit" /\ ui'.flag = ui.flag
           /\ ui'.screen \in {"name_keyboard", "picker", "bracket_gen"}
        \/ /\ ui'.flag = ResetInput("main") /\ ui'.screen = "time_setup" /\ ui.screen = "main"
    BY <1>0, <1>1 DEF Arrow, MoveCursor, OpenSettings, ChangeField, Uis
  <2>2. ResetInput("main")[<<"main", "OK">>] = "up"
    BY <1>0, ResetFields
  <2>3. CASE ui'.screen = ui.screen /\ ui'.prev = ui.prev /\ ui'.flag = ui.flag
    BY <2>3 DEF NoNewsOnMain, NoNewsOnList, OnList, MainFlag, Shown
  <2>4. CASE ui'.flag = ResetInput("main") /\ ui'.screen = "time_setup" /\ ui.screen = "main"
    BY <2>2, <2>4, ListShown DEF NoNewsOnMain, MainFlag
  <2> QED
    BY <2>1, <2>3, <2>4, FlagsStay DEF Screens
<1>2. CASE Released
  BY <1>0, <1>2, ReleaseNews DEF Released, AppInv, RouterOK, Quiet
<1>3. ASSUME NEW t \in Timer, Fire(t)
      PROVE  NoNewsOnMain /\ NoNewsOnList(c)
  <2>1. OnChord \/ \E b \in Hold : OnLongPress(b)
    BY <1>3 DEF Fire, Timer
  <2>2. CASE OnChord
    <3>1. \/ UNCHANGED ui
          \/ /\ ui.screen \notin {"overlay_poweroff", "shutting_down"}
             /\ ui'.flag = ui.flag /\ ui'.screen = "overlay_poweroff" /\ ui'.prev = ui.screen
      BY <1>0, <2>2 DEF OnChord, Uis
    <3> QED
      BY <3>1, SameUi DEF NoNewsOnMain, NoNewsOnList, OnList, MainFlag, Shown
  <2> QED
    BY <1>0, <2>1, <2>2, ReleaseNews
<1>4. CASE Commanded
  <2>1. UNCHANGED ui \/ (ui'.screen = "main" /\ ui'.flag = ui.flag /\ call.op = "stop")
    BY <1>0, <1>4 DEF Commanded, Uis
  <2>2. call.op = "stop" => ui.screen # "shutting_down"
    BY DEF AppInv, CallOK
  <2> QED
    BY <2>1, <2>2, SameUi, FlagsStay DEF Screens
<1>5. CASE Saved
  <2>1. ui'.screen = "main" /\ ui'.flag = ui.flag
    BY <1>0, <1>5 DEF Saved, CopyShown, CursorKept, Uis
  <2>2. ui.screen # "shutting_down"
    BY <1>5 DEF Saved, AppInv, CallOK
  <2> QED
    BY <2>1, <2>2, FlagsStay DEF Screens
<1>6. CASE SyncEnds
  <2>1. UNCHANGED ui \/ (ui'.screen = "main" /\ ui'.flag = ui.flag /\ ui.screen = "time_setup")
    BY <1>0, <1>6 DEF SyncEnds, Uis
  <2> QED
    BY <2>1, SameUi, FlagsStay DEF Screens
<1>7. CASE ScanEnds \/ ConnectEnds
  <2>1. wifi # "no"
    BY <1>7 DEF ScanEnds, ConnectEnds
  <2>2. MainFlag = "up"
    BY <2>1 DEF AppInv, UiInv, WorkersOK
  <2>3. \/ ui'.flag = ResetInput("wifi_list")
        \/ ui'.flag = ui.flag /\ ui'.screen = "wifi_status"
    BY <1>0, <1>7 DEF ScanEnds, ConnectEnds, Uis
  <2> QED
    BY <1>0, <2>2, <2>3, ListReset, ListShown DEF NoNewsOnMain, MainFlag
<1> QED
  BY <1>1, <1>2, <1>3, <1>4, <1>5, <1>6, <1>7

LEMMA GestureInit == Init => GestureInv
  BY DEF Init, HomeScreen, GestureInv, OnList, Shown, MainFlag, Flags

\* A step that raises no flag, uses up no press and ends no worker.
LEMMA QuietGesture ==
    ASSUME GestureInv, NoNewsOnMain, \A c \in Hold : NoNewsOnList(c) \/ ~OnList(c)',
           wifi' = "no" => wifi = "no" \/ \A c \in Hold : ~OnList(c)',
           fresh \subseteq fresh'
    PROVE  GestureInv'
  BY DEF GestureInv, NoNewsOnMain, NoNewsOnList

LEMMA PressGesture ==
    ASSUME AppInv, GestureInv, NEW b \in Hold, Press(b)
    PROVE  GestureInv'
<1>1. /\ OnPress(b) /\ fresh' = fresh \cup Deferred(b)
      /\ UiInv
  BY DEF Press, AppInv
<1>2. wifi' = wifi \/ wifi' = "connect"
  BY <1>1 DEF OnPress, MainPress, EditPress, ManagePress, StopPress, SavePress, DiscardPress,
     DeletePress, TimeSetupPress, TimeSetupChoice, PickerPress, BracketPress,
     NameKeyboardPress, WifiListPress, WifiKeyboardPress, WifiStatusPress, WifiForgetPress,
     PowerOffPress, ShuttingDownPress, Show, Call, SaveList, Delete, Duplicate, StartConnect,
     workers
<1>3. ASSUME MainFlag' # "up"
      PROVE  <<"main", "OK">> \in fresh'
  <2>1. CASE b = "OK" /\ ui.screen = "main"
    <3>1. wifi = "no"
      BY <1>1, <2>1 DEF AppInv, StoreOK, UiInv, WorkersOK, OperatorWaits, Shown
    <3>2. <<"main", "OK">> \in Flags
      BY DEF Flags
    <3> QED
      BY <1>1, <2>1, <3>1, <3>2 DEF Deferred
  <2>2. CASE ~(b = "OK" /\ ui.screen = "main")
    <3>1. NoNewsOnMain
      BY <1>1, <2>2, PressNews
    <3> QED
      BY <1>1, <1>3, <3>1 DEF NoNewsOnMain, GestureInv
  <2> QED
    BY <2>1, <2>2
<1>4. ASSUME NEW c \in Hold, wifi' = "no", OnList(c)'
      PROVE  <<"wifi_list", c>> \in fresh'
  <2>1. wifi = "no"
    BY <1>2, <1>4
  <2>2. CASE c = b /\ ui.screen = "wifi_list"
    <3>1. <<"wifi_list", c>> \in Flags
      BY DEF Flags, Hold
    <3> QED
      BY <1>1, <2>1, <2>2, <3>1 DEF Deferred
  <2>3. CASE ~(c = b /\ ui.screen = "wifi_list")
    <3>1. NoNewsOnList(c)
      BY <1>1, <2>3, PressNews
    <3> QED
      BY <1>1, <1>4, <2>1, <3>1 DEF NoNewsOnList, GestureInv
  <2> QED
    BY <2>2, <2>3
<1> QED
  BY <1>3, <1>4 DEF GestureInv

\* A release on the screen of a press takes its flag down, unless a worker is about.
LEMMA ReleaseGesture ==
    ASSUME AppInv, GestureInv, Released
    PROVE  GestureInv'
<1> DEFINE b == gpio.button
<1>1. /\ b \in Hold /\ OnRelease(b) /\ UiInv /\ ui \in Uis
      /\ fresh' = fresh \ {<<ui.screen, b>>}
  BY DEF Released, AppInv, RouterOK, UiInv, Quiet
<1> HIDE DEF b
<1>2. wifi' = "no" => wifi = "no"
  BY <1>1 DEF OnRelease, MainRelease, OpenEditNew, WifiRelease, StartConnect, Show, Call, workers
<1>3. ASSUME MainFlag' # "up"
      PROVE  <<"main", "OK">> \in fresh'
  <2>1. MainFlag # "up"
    BY <1>1, <1>3, ReleaseNews DEF NoNewsOnMain
  <2>2. CASE ui.screen = "main" /\ b = "OK"
    <3>1. MainRelease
      BY <1>1, <2>1, <2>2 DEF OnRelease, Flagged, Flags, MainFlag
    <3>2. MainFlag' = "up"
      BY <1>1, <3>1, ResetFields
      DEF MainRelease, OpenEditNew, Show, Call, Go, Uis, MainFlag, Flags
    <3> QED
      BY <1>3, <3>2
  <2>3. CASE ~(ui.screen = "main" /\ b = "OK")
    BY <1>1, <2>1, <2>3 DEF GestureInv
  <2> QED
    BY <2>2, <2>3
<1>4. ASSUME NEW c \in Hold, wifi' = "no", OnList(c)'
      PROVE  <<"wifi_list", c>> \in fresh'
  <2>1. wifi = "no" /\ OnList(c)
    BY <1>1, <1>2, <1>4, ReleaseNews DEF NoNewsOnList
  <2>2. CASE ui.screen = "wifi_list" /\ b = c
    <3>1. <<"wifi_list", b>> \in Flags /\ ui.flag \in [Flags -> FlagValue]
      BY <1>1 DEF Flags, Hold, Uis
    <3>2. WifiRelease(b)
      BY <1>1, <2>1, <2>2, <3>1 DEF OnRelease, Flagged, OnList
    <3>3. \/ ui'.flag = ResetInput("wifi_list")
          \/ ui'.flag = [ui.flag EXCEPT ![<<"wifi_list", b>>] = "up"]
      BY <1>1, <1>4, <2>1, <3>1, <3>2 DEF WifiRelease, StartConnect, Show, Uis
    <3>4. ui'.flag[<<"wifi_list", b>>] = "up"
      BY <1>1, <3>1, <3>3, ResetFields
    <3> QED
      BY <1>4, <2>2, <3>4 DEF OnList
  <2>3. CASE ~(ui.screen = "wifi_list" /\ b = c)
    BY <1>1, <2>1, <2>3 DEF GestureInv
  <2> QED
    BY <2>2, <2>3
<1> QED
  BY <1>3, <1>4 DEF GestureInv

\* A long press that acts takes the flag down or leaves the screen.
LEMMA LongGesture ==
    ASSUME AppInv, GestureInv, NEW t \in Timer, Fire(t)
    PROVE  GestureInv'
<1>1. /\ UiInv /\ ui \in Uis
      /\ fresh' = IF Acts THEN fresh \ {<<ui.screen, t>>} ELSE fresh
      /\ IF t = "chord" THEN OnChord ELSE OnLongPress(t)
  BY DEF Fire, AppInv, UiInv
<1>2. wifi' = wifi /\ call' = call
  BY <1>1 DEF OnChord, OnLongPress, MainLong, WifiLong, Show, workers
<1>3. NoNewsOnMain /\ \A c \in Hold : NoNewsOnList(c)
  BY OtherNews DEF Hold
<1>4. CASE fresh \subseteq fresh'
  BY <1>2, <1>3, <1>4, QuietGesture
<1>5. CASE t = "chord"
  <2>1. \A s, f \in {"main", "wifi_list"}, c \in Hold : <<s, c>> # <<ui.screen, t>>
    BY <1>5 DEF Hold
  <2> QED
    BY <1>1, <1>2, <1>3, <2>1 DEF GestureInv, NoNewsOnMain, NoNewsOnList, Hold
<1>6. CASE t # "chord" /\ Acts
  <2>1. Flagged(t) /\ t \in Hold /\ ui'.screen # ui.screen
    BY <1>1, <1>2, <1>6 DEF OnLongPress, Show, Acts, Timer
  <2>2. CASE ui.screen = "main"
    <3>1. MainLong /\ t = "OK"
      BY <1>1, <1>6, <2>1, <2>2 DEF OnLongPress, Flagged, Flags
    <3>2. ui'.flag = ResetInput("main") /\ ui'.screen = "manage"
      BY <1>1, <2>1, <3>1 DEF MainLong, Show, Uis
    <3>3. MainFlag' = "up"
      BY <1>1, <3>2, ResetFields DEF MainFlag
    <3> QED
      BY <3>2, <3>3, ListShown DEF GestureInv
  <2>3. CASE ui.screen = "wifi_list"
    <3>1. WifiLong(t)
      BY <1>1, <1>6, <2>1, <2>3 DEF OnLongPress
    <3>2. ui'.screen \in {"wifi_keyboard", "overlay_wifi_forget"}
      BY <1>1, <2>1, <3>1 DEF WifiLong, Show, Uis
    <3>3. \A c \in Hold : ~OnList(c)'
      BY <3>2, ListShown
    <3>4. <<"main", "OK">> # <<ui.screen, t>>
      BY <2>3
    <3> QED
      BY <1>1, <1>3, <3>3, <3>4 DEF GestureInv, NoNewsOnMain
  <2> QED
    BY <2>1, <2>2, <2>3 DEF Flagged, Flags
<1> QED
  BY <1>1, <1>4, <1>5, <1>6

LEMMA OtherGesture ==
    ASSUME AppInv, GestureInv, [Next]_vars, ~(\E b \in Hold : Press(b)), ~PowerCut, ~Released,
           ~(\E t \in Timer : Fire(t))
    PROVE  GestureInv'
<1>1. CASE Arrow
  <2>1. /\ UNCHANGED workers
        /\ ui'.screen # "time_setup" => fresh' = fresh
        /\ NoNewsOnMain /\ \A c \in Hold : NoNewsOnList(c)
    BY <1>1, OtherNews DEF Arrow, MoveCursor, OpenSettings, ChangeField, Show, Hold
  <2>2. CASE ui'.screen = "time_setup"
    <3>1. ui \in Uis
      BY DEF AppInv, UiInv
    <3>2. ui'.flag = ResetInput("main")
      BY <1>1, <2>2, <3>1
      DEF Arrow, MoveCursor, OpenSettings, ChangeField, Show, Go, Enter, Uis
    <3>3. MainFlag' = "up"
      BY <3>1, <3>2, ResetFields DEF MainFlag
    <3> QED
      BY <2>2, <3>3, ListShown DEF GestureInv
  <2> QED
    BY <2>1, <2>2, QuietGesture DEF workers
<1>2. CASE Commanded \/ Saved \/ SyncEnds
  <2>1. UNCHANGED <<wifi, fresh>>
    BY <1>2 DEF Commanded, Saved, SyncEnds, workers, router
  <2>2. NoNewsOnMain /\ \A c \in Hold : NoNewsOnList(c)
    BY <1>2, OtherNews DEF Hold
  <2> QED
    BY <2>1, <2>2, QuietGesture
<1>3. CASE ScanEnds \/ ConnectEnds
  <2>1. UNCHANGED fresh /\ ui \in Uis
    BY <1>3 DEF ScanEnds, ConnectEnds, router, AppInv, UiInv
  <2>2. ui'.flag = ResetInput("wifi_list") \/ ui'.screen = "wifi_status"
    BY <1>3, <2>1 DEF ScanEnds, ConnectEnds, BackToList, Go, Uis
  <2>3. NoNewsOnMain /\ \A c \in Hold : ~OnList(c)'
    BY <1>3, <2>1, <2>2, OtherNews, ListReset, ListShown DEF Hold
  <2> QED
    BY <2>1, <2>3, QuietGesture
<1>4. CASE \/ Boot \/ SaveStep \/ SaveFailed \/ Arm
           \/ \E b \in Hold : Release(b)
           \/ \E t \in Timer : Expire(t)
           \/ \E c \in Name \cup {NoName} : ScheduleActs(c)
           \/ UNCHANGED vars
  <2>1. UNCHANGED <<ui, wifi, fresh>>
    BY <1>4 DEF Boot, SaveStep, SaveFailed, Arm, Release, Expire, ScheduleActs, vars, app,
       workers, router
  <2> QED
    BY <2>1, SameUi, QuietGesture
<1> QED
  BY <1>1, <1>2, <1>3, <1>4 DEF Next

LEMMA CutGesture ==
    ASSUME PowerCut
    PROVE  GestureInv'
  BY DEF PowerCut, HomeScreen, GestureInv, OnList, Shown, MainFlag, Flags

LEMMA GestureInvariant == Spec => []GestureInv
<1>1. AppInv /\ GestureInv /\ [Next]_vars => GestureInv'
  BY PressGesture, ReleaseGesture, LongGesture, OtherGesture, CutGesture
<1> QED
  BY <1>1, AppInvariant, GestureInit, PTL DEF Spec

\* What acts is a button with such a flag.
LEMMA GestureStep ==
    ASSUME AppInv, GestureInv, Next, on', Acts, NEW b \in Hold,
           LetGo(b) \/ b \in late \ late'
    PROVE  <<ui.screen, b>> \in fresh
<1>0. ~PowerCut
  BY DEF PowerCut
<1>1. OnRelease(b) \/ OnLongPress(b)
  <2>1. CASE LetGo(b)
    <3>1. gpio.kind = "release" /\ gpio.button = b /\ gpio'.kind = "none"
      BY <2>1 DEF LetGo, Quiet
    <3>2. gpio # Quiet /\ gpio' # gpio
      BY <3>1 DEF Quiet
    <3>3. on
      BY <3>2 DEF AppInv, OffOK
    <3>4. Released
      BY <1>0, <3>1, <3>2, <3>3 DEF Next, Boot, Press, Release, Arrow, Arm, Expire, Fire,
         Commanded, SaveStep, Saved, SaveFailed, SyncEnds, ScanEnds, ConnectEnds,
         ScheduleActs, router
    <3> QED
      BY <3>1, <3>4 DEF Released
  <2>2. CASE b \in late \ late'
    <3>1. late' # late
      BY <2>2
    <3>2. \E t \in Timer : Expire(t) \/ Fire(t)
      BY <1>0, <3>1 DEF Next, Boot, Press, Release, Arrow, Arm, Released,
         Commanded, SaveStep, Saved, SaveFailed, SyncEnds, ScanEnds, ConnectEnds,
         ScheduleActs, router
    <3>3. Fire(b)
      BY <2>2, <3>2 DEF Expire, Fire
    <3> QED
      BY <3>3 DEF Fire, Hold
  <2> QED
    BY <2>1, <2>2
<1>2. Flagged(b)
  BY <1>1 DEF OnRelease, OnLongPress, Show, workers, Acts
<1>3. CASE ui.screen = "main"
  BY <1>2, <1>3 DEF Flagged, Flags, MainFlag, GestureInv
<1>4. CASE ui.screen = "wifi_list"
  <2>1. wifi = "no"
    BY <1>1, <1>2, <1>4 DEF OnRelease, OnLongPress, WifiRelease, WifiLong, Show, workers, Acts
  <2> QED
    BY <1>2, <1>4, <2>1 DEF Flagged, OnList, Shown, GestureInv
<1> QED
  BY <1>2, <1>3, <1>4 DEF Flagged, Flags

\* App and ButtonRouter: however late a timer's thread comes, one press acts once, as a
\* short press or as a long one.
THEOREM PressesActOnce == Spec => PressActsOnce
<1>1. AppInv /\ GestureInv /\ [Next]_vars =>
        [\A b \in Hold :
           (LetGo(b) \/ b \in late \ late') /\ on' /\ Acts
             => <<ui.screen, b>> \in fresh]_vars
  BY GestureStep
<1> QED
  BY <1>1, AppInvariant, GestureInvariant, PTL DEF Spec, PressActsOnce

-------------------------------------------------------------------------------
\* The timers of the router.

\* TimersHeld with what it needs of the event that is being delivered: a press is of a
\* button that was up.
TimersInv ==
    /\ pressed \subseteq Hold
    /\ gpio.kind = "press" => gpio.button \in Hold \ pressed
    /\ TimersHeld

LEMMA TimersInit == Init => TimersInv
  BY DEF Init, TimersInv, TimersHeld, Quiet, Hold

\* A press, its timers, a release and an expiry keep the timers to the held buttons.
LEMMA TimersStep ==
    ASSUME TimersInv,
           \/ \E b \in Hold : Press(b) \/ Release(b)
           \/ Arm \/ Released \/ \E t \in Timer : Expire(t) \/ Fire(t)
    PROVE  TimersInv'
<1> USE DEF TimersInv, TimersHeld
<1>1. ASSUME NEW b \in Hold, Press(b)
      PROVE  TimersInv'
  BY <1>1 DEF Press
<1>2. ASSUME NEW b \in Hold, Release(b)
      PROVE  TimersInv'
  BY <1>2 DEF Release, Hold
<1>3. CASE Arm
  BY <1>3 DEF Arm, Hold, Quiet
<1>4. CASE Released
  BY <1>4 DEF Released, Quiet
<1>5. ASSUME NEW t \in Timer, Expire(t)
      PROVE  TimersInv'
  BY <1>5 DEF Expire, router
<1>6. ASSUME NEW t \in Timer, Fire(t)
      PROVE  TimersInv'
  BY <1>6 DEF Fire
<1> QED
  BY <1>1, <1>2, <1>3, <1>4, <1>5, <1>6

\* Everything else leaves the router as it is, or as new.
LEMMA RouterUntouched ==
    ASSUME TimersInv,
           \/ Boot \/ PowerCut \/ Arrow
           \/ Commanded \/ SaveStep \/ Saved \/ SaveFailed
           \/ SyncEnds \/ ScanEnds \/ ConnectEnds
           \/ \E c \in Name \cup {NoName} : ScheduleActs(c)
           \/ UNCHANGED vars
    PROVE  TimersInv'
<1>1. UNCHANGED <<gpio, pressed, armed, late>> \/ PowerCut
  BY DEF router, Boot, Arrow, Commanded, SaveStep, Saved, SaveFailed, SyncEnds, ScanEnds,
         ConnectEnds, ScheduleActs, vars
<1>2. CASE UNCHANGED <<gpio, pressed, armed, late>>
  BY <1>2 DEF TimersInv, TimersHeld
<1>3. CASE PowerCut
  BY <1>3 DEF PowerCut, TimersInv, TimersHeld, Quiet, Hold
<1> QED
  BY <1>1, <1>2, <1>3

\* ButtonRouter: a timer runs only while its buttons are held, the chord's alone.
THEOREM TimersFollowButtons == Spec => []TimersHeld
<1>1. TimersInv /\ [Next]_vars => TimersInv'
  BY TimersStep, RouterUntouched DEF Next
<1>2. TimersInv => TimersHeld
  BY DEF TimersInv
<1> QED
  BY TimersInit, <1>1, <1>2, PTL DEF Spec
===============================================================================
