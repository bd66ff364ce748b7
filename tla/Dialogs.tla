------------------------------ MODULE Dialogs ------------------------------
(***************************************************************************)
(* What the operator's dialogs make of what is put in: a visit to the      *)
(* editor (Editor), with its picker, keyboard and generator, or to the     *)
(* settings, with the menu, the clock's picker and the Wi-Fi screens       *)
(* (Wifi).  App has the same screens with their buttons, timers, drafts    *)
(* and saves, and leaves open what is picked and typed; this is the rest.  *)
(***************************************************************************)
EXTENDS Editor, Wifi

CONSTANT Clocks     \* the time it may be when "Set manually" is chosen

ASSUME DialogsAssumption == Clocks \subseteq [date : Date, time : Time]

VARIABLES
    item,       \* time_setup_ix.cursor
    clock       \* what set_manual_time was last given

settings == <<item, wifi>>
vars == <<editor, settings, clock>>

\* A visit to the settings is about the clock or the Wi-Fi, a bound again.
SettingsInit ==
    /\ screen = "main"
    /\ about \in {"clock", "wifi"}
    /\ draft = [original |-> NewName, name |-> NewName, interval |-> Interval,
                start |-> NoMoment, end |-> NoMoment]
    /\ shots = <<>>

Init ==
    /\ EditorInit \/ SettingsInit
    /\ profiles \in IF about = "wifi" THEN Saved ELSE {{}}
    /\ snapshot = shots /\ base = shots
    /\ cursor = 0 /\ scroll = 0
    /\ gen = NoGen
    /\ edits = 0 /\ ladders = 0 /\ fields = 0
    /\ keyboard = NoKeyboard
    /\ picker = NoPicker /\ turns = 0 /\ left = <<>>
    /\ WifiInit
    /\ item = 0
    /\ clock = NoMoment

-------------------------------------------------------------------------------
\* The settings menu, opened from the main screen with the cursor at the top.
OpenSettings ==
    /\ screen = "main" /\ about \in {"clock", "wifi"}
    /\ screen' = "time_setup"
    /\ item' = 0
    /\ UNCHANGED <<form, draft, picker, turns, left, keyboard, wifi, clock>>

\* TimeSetupMenuInteraction.on_press
MoveItem(d) ==
    /\ screen = "time_setup"
    /\ item' = Max({0, Min({2, item + d})})
    /\ UNCHANGED <<editor, wifi, clock>>

LeaveSettings ==
    /\ screen = "time_setup"
    /\ screen' = "main"
    /\ item' = 0
    /\ UNCHANGED <<form, draft, picker, turns, left, keyboard, wifi, clock>>

\* _dispatch_time_setup; "Force NTP sync" is App's.
SetManually ==
    /\ screen = "time_setup" /\ about = "clock" /\ item = 1
    /\ \E now \in Clocks : OpenPicker("system_clock", now)
    /\ screen' = "picker"
    /\ item' = 0
    /\ UNCHANGED <<form, draft, turns, keyboard, wifi, clock>>

WifiSetup ==
    /\ screen = "time_setup" /\ about = "wifi" /\ item = 2
    /\ OpenWifiList
    /\ item' = 0
    /\ UNCHANGED <<form, draft, picker, turns, left, keyboard, clock>>

\* CANCEL of the Wi-Fi list comes back to the menu's third item.
LeaveWifi ==
    /\ ShortBack
    /\ item' = 2
    /\ UNCHANGED <<form, draft, picker, turns, left, clock>>

WifiScreens ==
    /\ WifiNext
    /\ UNCHANGED <<form, draft, picker, turns, left, item, clock>>

-------------------------------------------------------------------------------
PickerPresses ==
    /\ screen = "picker" /\ PickerEdits
    /\ UNCHANGED <<screen, form, draft, keyboard, settings, clock>>

ClosePicker ==
    /\ picker' = NoPicker /\ left' = <<>>
    /\ screen' = IF picker.target = "system_clock" THEN "main" ELSE "edit"
    /\ UNCHANGED <<form, turns, keyboard, settings>>

\* _dispatch_picker_save: to the clock, or to the draft's start or end.
PickerSaves ==
    /\ screen = "picker" /\ Saves
    /\ IF picker.target = "system_clock" THEN clock' = Picked /\ UNCHANGED draft
       ELSE draft' = [draft EXCEPT ![picker.target] = Picked] /\ UNCHANGED clock
    /\ ClosePicker

\* _dispatch_picker_cancel
PickerCancels ==
    /\ screen = "picker"
    /\ ClosePicker
    /\ UNCHANGED <<draft, clock>>

EditorScreens == EditorNext /\ UNCHANGED <<settings, clock>>

Next ==
    \/ EditorScreens
    \/ OpenSettings \/ (\E d \in {-1, 1} : MoveItem(d)) \/ LeaveSettings
    \/ SetManually \/ WifiSetup \/ LeaveWifi \/ WifiScreens
    \/ PickerPresses \/ PickerSaves \/ PickerCancels

Spec == Init /\ [][Next]_vars

-------------------------------------------------------------------------------
\* The type invariant: every cursor is on something that is there, every dialog that is
\* shown is open, and the draft can be saved at any time.
TypeOK ==
    /\ screen = "picker" <=> picker # NoPicker
    /\ screen \in {"name_keyboard", "wifi_keyboard"} <=> keyboard # NoKeyboard
    /\ EditorOK /\ PickerOK /\ KeyboardOK /\ WifiOK
    /\ item \in 0..2

\* OK takes exactly the digits that spell a moment there is, with a date of the calendar
\* in the years the picker allows, and the field or the clock is given that moment; with
\* the chip on [-] the field is cleared, whatever digits the other modes hold.
PickerExact ==
    [][/\ PickerSaves =>
            LET given == IF picker.target = "system_clock" THEN clock'
                         ELSE draft'[picker.target]
                s == Spelled(picker.digits)
            IN CASE picker.mode = "none" -> given = NoMoment
                 [] picker.mode = "time" ->
                      Real("time", picker.digits) /\ given = [date |-> <<>>, time |-> s]
                 [] picker.mode = "date_time" ->
                      /\ Real("date_time", picker.digits)
                      /\ given = [date |-> <<100 * s[1] + s[2], s[3], s[4]>>,
                                  time |-> SubSeq(s, 5, 7)]
       /\ (screen = "picker" /\ PickerRefuses) =>
            picker.mode # "none" /\ ~Real(picker.mode, picker.digits)]_vars
=============================================================================
