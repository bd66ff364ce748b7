-------------------------------- MODULE App --------------------------------
(***************************************************************************)
(* The operator's side of the program: the App (app.py) with its screens,  *)
(* the ButtonRouter (__main__.py) that turns two held buttons and three    *)
(* timers into presses, long presses and the shutdown chord, the list of   *)
(* configurations and its store, and the workers for time sync and Wi-Fi.  *)
(*                                                                         *)
(* Threads: the GPIO thread, which delivers one button event at a time; a  *)
(* thread per expired timer; a sync worker; a Wi-Fi worker; and the        *)
(* scheduler thread, whose commands change what runs at any moment.  All   *)
(* but the last synchronise on app.lock.  Only a call that commands the    *)
(* engine or saves the list holds it for more than one step.  Where a menu *)
(* or a keyboard has a cursor the operator may have put it anywhere.       *)
(***************************************************************************)
EXTENDS ConfigStore, SequencesExt

CONSTANTS
    NoName,     \* no configuration
    Loose       \* a session the schedule began in the middle of a change of the list

ASSUME AppAssumption == NoName \notin Name /\ Loose \notin Name /\ NoName # Loose

VARIABLES
    on,         \* the program runs
    configs,    \* self.configs
    banner,     \* _configs_reset
    running,    \* name of the engine's active_config
    ui,         \* state, and the interaction objects with what they hold
    syncing,    \* _syncing: a sync worker is about
    wifi,       \* _wifi_busy: the Wi-Fi worker that is about
    call,       \* the engine command or save a handler waits for, under app.lock
    gpio,       \* the event the GPIO thread is delivering
    pressed,    \* _pressed
    armed,      \* the timers that are running
    late,       \* the timers that have expired and whose thread waits for app.lock
    \* History, read by properties only:
    session,    \* the name that the configuration that runs has in the list by now
    fresh       \* the presses, by screen and button, that neither a release there nor a
                \* long press has used up, nor the way into the settings taken from them

app == <<configs, banner, ui, call>>
engine == <<running, session>>
workers == <<syncing, wifi>>
router == <<gpio, pressed, armed, late, fresh>>
vars == <<store, on, app, engine, workers, router>>

Hold == {"OK", "BACK"}              \* the buttons that can be held
Timer == Hold \cup {"chord"}
Flags == {<<"main", "OK">>, <<"wifi_list", "OK">>, <<"wifi_list", "BACK">>}

Screens ==
    {"main", "edit", "manage", "overlay_stop", "overlay_save", "overlay_discard",
     "overlay_delete", "time_setup", "picker", "bracket_gen", "name_keyboard",
     "overlay_poweroff", "shutting_down", "wifi_list", "wifi_keyboard",
     "wifi_status", "overlay_wifi_forget"}

NoEdit == [original |-> NoName, name |-> NoName, touched |-> FALSE]
NoCall == [op |-> "none", cfg |-> NoName]
Quiet == [kind |-> "none", button |-> "none"]

\* is_dirty: the draft has another name, or another value somewhere.
Dirty(edit) == edit.name # edit.original \/ edit.touched

HomeScreen ==
    [screen |-> "main", prev |-> "none", cursor |-> 0, target |-> NoName,
     edit |-> NoEdit, open |-> {}, picker |-> "none", keyboard |-> "none",
     flag |-> [f \in Flags |-> "up"]]

Init ==
    /\ StoreInit
    /\ on = FALSE
    /\ configs = <<>> /\ banner = FALSE
    /\ running = NoName /\ session = NoName
    /\ ui = HomeScreen /\ call = NoCall
    /\ syncing = FALSE /\ wifi = "no"
    /\ gpio = Quiet /\ pressed = {} /\ armed = {} /\ late = {}
    /\ fresh = {}

\* App.__init__: what load() returns, and the banner when it had to reset the list.
Boot ==
    /\ ~on
    /\ on' = TRUE
    /\ Load
    /\ configs' = file.configs
    /\ banner' = (file.kind = "corrupt")
    /\ UNCHANGED <<engine, ui, call, workers, router>>

\* The power goes, the program is killed, or it ends; nothing but the file is left.
PowerCut ==
    /\ on /\ on' = FALSE
    /\ CutShort
    /\ configs' = <<>> /\ banner' = FALSE
    /\ running' = NoName /\ session' = NoName
    /\ ui' = HomeScreen /\ call' = NoCall
    /\ syncing' = FALSE /\ wifi' = "no"
    /\ gpio' = Quiet /\ pressed' = {} /\ armed' = {} /\ late' = {}
    /\ fresh' = {}

-------------------------------------------------------------------------------
\* Helpers of the handlers.
AppLockFree == call = NoCall

\* What "Power off?" was opened over is of use only until that is left.
Go(s) == [ui EXCEPT !.screen = s, !.prev = "none"]
Leave(s, object) == [ui EXCEPT !.screen = s, !.open = @ \ {object}]
Enter(s, object) == [ui EXCEPT !.screen = s, !.open = @ \cup {object}]
ResetInput(s) == [f \in Flags |-> IF f[1] = s THEN "up" ELSE ui.flag[f]]

ToMain == [ui EXCEPT !.screen = "main", !.target = NoName]
BackToList == [Go("wifi_list") EXCEPT !.flag = ResetInput("wifi_list")]
NewEdit(n) == [original |-> n, name |-> n, touched |-> FALSE]
DropDraft(s) == [ui EXCEPT !.screen = s, !.edit = NoEdit]

Position(list, n) == CHOOSE i \in DOMAIN list : list[i] = n
Listed(n) == n \in Range(configs)

\* The handler only changes what is shown.
Show(next) ==
    /\ ui' = next
    /\ UNCHANGED <<saving, call, banner, workers>>

\* It commands the engine, and waits for the command lock.
Call(op, c) ==
    /\ call' = [op |-> op, cfg |-> c]
    /\ UNCHANGED <<saving, banner, workers>>

\* It saves a list; a list that is not valid is logged, and the handler goes on as if
\* it had been saved.
SaveList(op, c, list, next) ==
    IF Valid(list)
    THEN Save(list) /\ call' = [op |-> op, cfg |-> c] /\ UNCHANGED ui
    ELSE ui' = next /\ UNCHANGED <<saving, call>>

-------------------------------------------------------------------------------
\* on_press, one action per screen.  On main and on the Wi-Fi list OK (there, BACK too)
\* acts on its release.
MainPress(b) ==
    /\ ui.screen = "main"
    /\ Show(IF b = "OK" THEN [ui EXCEPT !.flag[<<"main", "OK">>] = "down"]
            ELSE IF running # NoName THEN Go("overlay_stop") ELSE ui)

EditPress(b) ==
    /\ ui.screen = "edit"
    /\ Show(IF b = "OK" THEN Go("overlay_save")
            ELSE IF Dirty(ui.edit) THEN Go("overlay_discard") ELSE DropDraft("main"))

\* _duplicate, up to the save: the copy has some name that is free (in the code the
\* first "... (copy)" that is), and goes after the original.
Duplicate(n) ==
    /\ banner' = FALSE
    /\ \E copy \in Name \ Range(configs) :
         SaveList("duplicate", copy, InsertAt(configs, Position(configs, n) + 1, copy),
                  ToMain)
    /\ UNCHANGED workers

ManagePress(b) ==
    /\ ui.screen = "manage"
    /\ \/ Show(ToMain)
       \/ /\ b = "OK" /\ Listed(ui.target)
          /\ \/ Show([Go("edit") EXCEPT !.edit = NewEdit(ui.target), !.target = NoName])
             \/ Duplicate(ui.target)
             \/ Show(Go("overlay_delete"))

StopPress(b) ==
    /\ ui.screen = "overlay_stop"
    /\ IF b = "OK" THEN Call("stop", NoName) /\ UNCHANGED ui ELSE Show(ToMain)

\* _commit_edit, up to the save: the draft replaces the configuration that has its
\* original name, or is added.
EditedList ==
    IF Listed(ui.edit.original)
    THEN [configs EXCEPT ![Position(configs, ui.edit.original)] = ui.edit.name]
    ELSE Append(configs, ui.edit.name)

SavePress(b) ==
    /\ ui.screen = "overlay_save"
    /\ IF b = "OK"
       THEN /\ SaveList("commit", ui.edit.name, EditedList, DropDraft("main"))
            /\ UNCHANGED <<banner, workers>>
       ELSE Show(Go("edit"))

DiscardPress(b) ==
    /\ ui.screen = "overlay_discard"
    /\ Show(IF b = "OK" THEN DropDraft("main") ELSE Go("edit"))

\* _delete: the engine is stopped first if it runs the configuration of that name.  The
\* list keeps its names apart, so that one at most is left out.
Without(n) == IF Listed(n) THEN RemoveAt(configs, Position(configs, n)) ELSE configs

\* A mistake: the list alone is changed.
Delete_ListOnly(n) ==
    /\ SaveList("delete", n, Without(n), ToMain)
    /\ UNCHANGED <<banner, workers>>

Delete(n) ==
    IF running = n
    THEN Call("delete", n) /\ UNCHANGED ui
    ELSE /\ SaveList("delete", n, Without(n), ToMain)
         /\ UNCHANGED <<banner, workers>>

DeletePress(b) ==
    /\ ui.screen = "overlay_delete"
    /\ IF b = "OK" THEN Delete(ui.target) ELSE Show(Go("manage"))

TimeSetupChoice(b) ==
    \/ b = "BACK" /\ Show(Leave("main", "time_setup"))
    \/ b = "OK" /\ syncing' = TRUE /\ UNCHANGED <<saving, call, banner, ui, wifi>>
    \/ b = "OK" /\ Show([Leave("picker", "time_setup") EXCEPT !.picker = "system_clock"])
    \/ b = "OK" /\ Show([BackToList EXCEPT !.open = (@ \ {"time_setup"}) \cup {"wifi_list"}])

\* A mistake: the menu is open to the operator all the time.
TimeSetupPress_WhileSyncing(b) == ui.screen = "time_setup" /\ TimeSetupChoice(b)

\* Every button is inert while the sync worker is about.
TimeSetupPress(b) ==
    /\ ui.screen = "time_setup"
    /\ IF syncing THEN Show(ui) ELSE TimeSetupChoice(b)

\* What the picker answers: OK is refused while its digits are no time.
PickerAnswers(b) == IF b = "BACK" THEN {"CANCEL"} ELSE {"none", "SAVE"}

\* A start or an end may come out as it was in the original.
PickerPress(b) ==
    LET done(s) == [Go(s) EXCEPT !.picker = "none"]
    IN /\ ui.screen = "picker"
       /\ \E r \in PickerAnswers(b) :
            \/ r = "none" /\ Show(ui)
            \/ r # "none" /\ ui.picker = "system_clock" /\ Show(done("main"))
            \/ r = "CANCEL" /\ ui.picker = "moment" /\ Show(done("edit"))
            \/ /\ r = "SAVE" /\ ui.picker = "moment"
               /\ \E t \in BOOLEAN : Show([done("edit") EXCEPT !.edit.touched = t])

BracketPress(b) ==
    /\ ui.screen = "bracket_gen"
    /\ \/ b = "BACK" /\ Show(Leave("edit", "bracket_gen"))
       \/ b = "OK" /\ \E t \in BOOLEAN :
            Show([Leave("edit", "bracket_gen") EXCEPT !.edit.touched = t])

\* What the keyboard answers: OK types or deletes something, or is refused, on all keys
\* but one, and with text that is too short, too long or taken on that one.
KeyboardAnswers(b) == IF b = "BACK" THEN {"CANCEL"} ELSE {"none", "DONE"}

\* Names the keyboard takes: those no configuration has, and the draft's own.
FreeNames == (Name \ Range(configs)) \cup {ui.edit.name}

NameKeyboardPress(b) ==
    LET done == [Go("edit") EXCEPT !.keyboard = "none"]
    IN /\ ui.screen = "name_keyboard"
       /\ \E r \in KeyboardAnswers(b) :
            \/ r = "none" /\ Show(ui)
            \/ r = "CANCEL" /\ Show(done)
            \/ r = "DONE" /\ \E n \in FreeNames : Show([done EXCEPT !.edit.name = n])

WifiListPress(b) ==
    /\ ui.screen = "wifi_list"
    /\ Show(IF wifi # "no" THEN ui
            ELSE [ui EXCEPT !.flag[<<"wifi_list", b>>] = "down"])

\* _start_wifi_connect_worker
StartConnect(next) ==
    /\ wifi' = "connect"
    /\ ui' = [next EXCEPT !.screen = "wifi_status", !.keyboard = "none",
                          !.open = @ \cup {"wifi_status"}]
    /\ UNCHANGED <<saving, call, banner, syncing>>

WifiKeyboardPress(b) ==
    /\ ui.screen = "wifi_keyboard"
    /\ \E r \in KeyboardAnswers(b) :
         \/ r = "none" /\ Show(ui)
         \/ r = "CANCEL" /\ Show([BackToList EXCEPT !.keyboard = "none"])
         \/ r = "DONE" /\ ui.keyboard = "ssid" /\ Show([ui EXCEPT !.keyboard = "password"])
         \/ r = "DONE" /\ ui.keyboard = "password" /\ StartConnect(ui)

WifiStatusPress(b) ==
    /\ ui.screen = "wifi_status"
    /\ Show(IF wifi # "no" THEN ui
            ELSE [BackToList EXCEPT !.open = @ \ {"wifi_status"}])

WifiForgetPress(b) == ui.screen = "overlay_wifi_forget" /\ Show(BackToList)

PowerOffPress(b) ==
    /\ ui.screen = "overlay_poweroff"
    /\ Show(IF b = "OK" THEN Go("shutting_down")
            ELSE Go(IF ui.prev = "none" THEN "main" ELSE ui.prev))

ShuttingDownPress(b) == ui.screen = "shutting_down" /\ Show(ui)

OnPress(b) ==
    \/ MainPress(b) \/ EditPress(b) \/ ManagePress(b) \/ StopPress(b) \/ SavePress(b)
    \/ DiscardPress(b) \/ DeletePress(b) \/ TimeSetupPress(b) \/ PickerPress(b)
    \/ BracketPress(b) \/ NameKeyboardPress(b) \/ WifiListPress(b)
    \/ WifiKeyboardPress(b) \/ WifiStatusPress(b) \/ WifiForgetPress(b)
    \/ PowerOffPress(b) \/ ShuttingDownPress(b)

-------------------------------------------------------------------------------
\* on_release, where it does something: the short presses of main and the Wi-Fi list.
\* A new draft gets some name that is free, in the code the first "Config n" that is.
OpenEditNew ==
    \E n \in Name \ Range(configs) :
        Show([Go("edit") EXCEPT !.edit = NewEdit(n), !.flag = ResetInput("main")])

MainRelease ==
    LET released == [ui EXCEPT !.flag[<<"main", "OK">>] = "up"]
        long == ui.flag[<<"main", "OK">>] = "long"
        chosen == IF ui.cursor < Len(configs) THEN configs[ui.cursor + 1] ELSE NoName
    IN IF long \/ (chosen = running /\ chosen # NoName) THEN Show(released)
       ELSE IF chosen = NoName THEN OpenEditNew
       ELSE /\ ui' = released
            /\ Call(IF running = NoName THEN "start" ELSE "switch", chosen)

\* Whether a network is secured or saved, and where the cursor is, may be anything.
WifiRelease(b) ==
    LET released == [ui EXCEPT !.flag[<<"wifi_list", b>>] = "up"]
        keyboard(k) == [released EXCEPT !.screen = "wifi_keyboard", !.keyboard = k]
    IN IF wifi # "no" THEN Show(ui)
       ELSE IF ui.flag[<<"wifi_list", b>>] = "long" THEN Show(released)
       ELSE \/ b = "BACK" /\ Show([ui EXCEPT !.screen = "time_setup",
                                      !.flag = ResetInput("wifi_list"),
                                      !.open = (@ \ {"wifi_list"}) \cup {"time_setup"}])
            \/ b = "OK" /\ Show(keyboard("password"))
            \/ b = "OK" /\ Show(keyboard("ssid"))
            \/ b = "OK" /\ StartConnect(released)
            \/ b = "OK" /\ ui' = released /\ wifi' = "scan"
                        /\ UNCHANGED <<saving, call, banner, syncing>>

Flagged(b) == <<ui.screen, b>> \in Flags /\ ui.flag[<<ui.screen, b>>] # "up"

OnRelease(b) ==
    IF ~Flagged(b) THEN Show(ui)
    ELSE IF ui.screen = "main" THEN MainRelease ELSE WifiRelease(b)

\* on_long_press: manage a configuration, edit a secured network's password, forget a
\* saved network.
MainLong ==
    LET long == [ui EXCEPT !.flag[<<"main", "OK">>] = "long"]
    IN Show(IF ui.cursor < Len(configs)
            THEN [ui EXCEPT !.screen = "manage", !.target = configs[ui.cursor + 1],
                            !.flag = ResetInput("main")]
            ELSE long)

WifiLong(b) ==
    LET long == [ui EXCEPT !.flag[<<"wifi_list", b>>] = "long"]
    IN IF wifi # "no" THEN Show(ui)
       ELSE \/ Show(long)
            \/ b = "OK" /\ Show([long EXCEPT !.screen = "wifi_keyboard",
                                             !.keyboard = "password"])
            \/ b = "BACK" /\ Show([long EXCEPT !.screen = "overlay_wifi_forget"])

OnLongPress(b) ==
    IF ~Flagged(b) THEN Show(ui)
    ELSE IF ui.screen = "main" THEN MainLong ELSE WifiLong(b)

\* on_safe_shutdown_chord
OnChord ==
    Show(IF ui.screen \in {"overlay_poweroff", "shutting_down"} THEN ui
         ELSE [Go("overlay_poweroff") EXCEPT !.prev = ui.screen])

-------------------------------------------------------------------------------
\* The other four buttons act on their press only.
MoveCursor ==
    /\ ui.screen = "main"
    /\ \E c \in {ui.cursor - 1, ui.cursor + 1} \cap 0..Len(configs) :
         Show([ui EXCEPT !.cursor = c])

\* A mistake: the main screen does not forget that OK is held.
OpenSettings_KeepsFlags ==
    /\ ui.screen = "main"
    /\ Show(Enter("time_setup", "time_setup"))

OpenSettings ==
    /\ ui.screen = "main"
    /\ Show([Enter("time_setup", "time_setup") EXCEPT !.flag = ResetInput("main")])

ChangeField ==
    /\ ui.screen = "edit"
    /\ \/ \E t \in BOOLEAN : Show([ui EXCEPT !.edit.touched = t])
       \/ Show([Go("name_keyboard") EXCEPT !.keyboard = "config_name"])
       \/ Show([Go("picker") EXCEPT !.picker = "moment"])
       \/ Show(Enter("bracket_gen", "bracket_gen"))

Arrow ==
    /\ on /\ gpio = Quiet /\ AppLockFree
    /\ MoveCursor \/ OpenSettings \/ ChangeField
    /\ fresh' = IF ui'.screen = "time_setup" THEN {} ELSE fresh
    /\ UNCHANGED <<file, on, configs, engine, gpio, pressed, armed, late>>

-------------------------------------------------------------------------------
\* The press of a button that acts on its release.  The list is inert while a worker is
\* about.
Deferred(b) == {f \in Flags : f = <<ui.screen, b>> /\ wifi = "no"}

\* ButtonRouter.on_press: first the App, then, when its handler has returned, the
\* timers.
Press(b) ==
    /\ on /\ gpio = Quiet /\ AppLockFree
    /\ b \notin pressed
    /\ OnPress(b)
    /\ gpio' = [kind |-> "press", button |-> b]
    /\ fresh' = fresh \cup Deferred(b)
    /\ UNCHANGED <<file, on, configs, engine, pressed, armed, late>>

\* Both held: the chord's timer instead of the long presses'.
Arm ==
    /\ gpio.kind = "press" /\ AppLockFree
    /\ pressed' = pressed \cup {gpio.button}
    /\ armed' = IF pressed' = Hold THEN {"chord"} ELSE armed \cup {gpio.button}
    /\ gpio' = Quiet
    /\ UNCHANGED <<store, on, app, engine, workers, late, fresh>>

\* A mistake: the chord's timer goes on.
Release_KeepsChord(b) ==
    /\ gpio = Quiet
    /\ b \in pressed
    /\ pressed' = pressed \ {b}
    /\ armed' = armed \ {b}
    /\ gpio' = [kind |-> "release", button |-> b]
    /\ UNCHANGED <<store, on, app, engine, workers, late, fresh>>

\* ButtonRouter.on_release: first the timers, then the App.
Release(b) ==
    /\ gpio = Quiet
    /\ b \in pressed
    /\ pressed' = pressed \ {b}
    /\ armed' = armed \ {b, "chord"}
    /\ gpio' = [kind |-> "release", button |-> b]
    /\ UNCHANGED <<store, on, app, engine, workers, late, fresh>>

Released ==
    /\ gpio.kind = "release" /\ AppLockFree
    /\ OnRelease(gpio.button)
    /\ gpio' = Quiet
    /\ fresh' = fresh \ {<<ui.screen, gpio.button>>}
    /\ UNCHANGED <<file, on, configs, engine, pressed, armed, late>>

\* A release or a long press has done something.
Acts == ui'.screen # ui.screen \/ call' # call \/ wifi' # wifi

\* After three seconds a timer's thread calls the App; cancelling it is of no use then.
Expire(t) ==
    /\ t \in armed
    /\ armed' = armed \ {t}
    /\ late' = late \cup {t}
    /\ UNCHANGED <<store, on, app, engine, workers, gpio, pressed, fresh>>

Fire(t) ==
    /\ t \in late /\ AppLockFree
    /\ IF t = "chord" THEN OnChord ELSE OnLongPress(t)
    /\ late' = late \ {t}
    /\ fresh' = IF Acts THEN fresh \ {<<ui.screen, t>>} ELSE fresh
    /\ UNCHANGED <<file, on, configs, engine, gpio, pressed, armed>>

-------------------------------------------------------------------------------
\* The rest of a handler that commanded the engine: it has the command lock.
Commanded ==
    /\ call # NoCall /\ saving = NoSave
    /\ \/ /\ call.op = "start"
          /\ IF running = NoName THEN running' = call.cfg /\ session' = call.cfg
                                 ELSE UNCHANGED engine
          /\ call' = NoCall /\ UNCHANGED <<ui, saving>>
       \/ /\ call.op = "switch"
          /\ IF running # NoName THEN running' = call.cfg /\ session' = call.cfg
                                 ELSE UNCHANGED engine
          /\ call' = NoCall /\ UNCHANGED <<ui, saving>>
       \/ /\ call.op = "stop"
          /\ running' = NoName /\ session' = NoName
          /\ call' = NoCall /\ ui' = ToMain /\ UNCHANGED saving
       \/ /\ call.op = "delete"
          /\ running' = NoName /\ session' = NoName
          /\ Save(Without(call.cfg)) /\ UNCHANGED <<call, ui>>
    /\ UNCHANGED <<file, on, configs, banner, workers, router>>

SaveStep ==
    /\ WriteTmp
    /\ UNCHANGED <<on, app, engine, workers, router>>

\* The rest of a handler whose save got through.
CopyShown == [ToMain EXCEPT !.cursor = Position(saving.configs, call.cfg) - 1]
CursorKept == [ToMain EXCEPT !.cursor = IF @ > Len(configs') THEN Len(configs') ELSE @]

Saved ==
    /\ Replace
    /\ configs' = saving.configs
    /\ \/ /\ call.op = "commit"
          /\ banner' = FALSE
          /\ ui' = DropDraft("main")
          /\ session' = IF session = ui.edit.original /\ session # NoName
                        THEN ui.edit.name ELSE session
       \/ call.op = "duplicate" /\ ui' = CopyShown /\ UNCHANGED <<banner, session>>
       \/ /\ call.op = "delete"
          /\ ui' = CursorKept
          /\ session' = IF session = call.cfg THEN NoName ELSE session
          /\ UNCHANGED banner
    /\ call' = NoCall
    /\ UNCHANGED <<on, running, workers, router>>

\* A mistake: the list is changed before it is saved.
SaveFailed_ListFirst ==
    /\ SaveRaises
    /\ configs' = saving.configs
    /\ call' = NoCall
    /\ UNCHANGED <<on, banner, ui, engine, workers, router>>

\* A mistake: the editor is left in any case.
SaveFailed_LeavesEditor ==
    /\ SaveRaises
    /\ call' = NoCall
    /\ ui' = DropDraft("main")
    /\ UNCHANGED <<on, configs, banner, engine, workers, router>>

\* An OSError leaves the handler, and everything it has not got to yet, undone.
SaveFailed ==
    /\ SaveRaises
    /\ call' = NoCall
    /\ UNCHANGED <<on, configs, banner, ui, engine, workers, router>>

-------------------------------------------------------------------------------
\* A mistake: the menu's object goes, whether the menu is shown or not.
SyncEnds_DropsMenu ==
    /\ syncing /\ AppLockFree
    /\ syncing' = FALSE
    /\ ui' = Leave(IF ui.screen = "time_setup" THEN "main" ELSE ui.screen, "time_setup")
    /\ UNCHANGED <<store, on, configs, banner, call, engine, wifi, router>>

\* _run_sync_worker, its last part
SyncEnds ==
    /\ syncing /\ AppLockFree
    /\ syncing' = FALSE
    /\ ui' = IF ui.screen = "time_setup" THEN Leave("main", "time_setup") ELSE ui
    /\ UNCHANGED <<store, on, configs, banner, call, engine, wifi, router>>

\* _run_wifi_scan and _run_wifi_connect, their last parts: they show their result.
ScanEnds ==
    /\ wifi = "scan" /\ AppLockFree
    /\ ui' = BackToList
    /\ wifi' = "no"
    /\ UNCHANGED <<store, on, configs, banner, call, engine, syncing, router>>

ConnectEnds ==
    /\ wifi = "connect" /\ AppLockFree
    /\ \/ ui' = Go("wifi_status")
       \/ ui' = [Go("wifi_status") EXCEPT !.flag = ResetInput("wifi_list")]
    /\ wifi' = "no"
    /\ UNCHANGED <<store, on, configs, banner, call, engine, syncing, router>>

\* The scheduler thread drains what the schedule posted: it starts, switches or stops
\* at any moment, without app.lock.
ScheduleActs(c) ==
    /\ on
    /\ c # running
    /\ Listed(c) \/ c = NoName
    /\ running' = c
    /\ session' = IF c = NoName \/ call = NoCall THEN c ELSE Loose
    /\ UNCHANGED <<store, on, app, workers, router>>

Next ==
    \/ Boot \/ PowerCut
    \/ \E b \in Hold : Press(b) \/ Release(b)
    \/ Arrow \/ Arm \/ Released
    \/ \E t \in Timer : Expire(t) \/ Fire(t)
    \/ Commanded \/ SaveStep \/ Saved \/ SaveFailed
    \/ SyncEnds \/ ScanEnds \/ ConnectEnds
    \/ \E c \in Name \cup {NoName} : ScheduleActs(c)

Spec == Init /\ [][Next]_vars

-------------------------------------------------------------------------------
\* What is on the display, and what the "Power off?" overlay would return to.
Shown == {ui.screen} \cup (IF ui.screen = "overlay_poweroff" THEN {ui.prev} ELSE {})

EditScreens == {"edit", "overlay_save", "overlay_discard", "bracket_gen", "name_keyboard"}

\* The interaction object that a screen's handler asks for.
Backed(s) ==
    /\ s \in EditScreens => ui.edit # NoEdit
    /\ s \in {"time_setup", "bracket_gen"} => s \in ui.open
    /\ s \in {"wifi_list", "wifi_keyboard", "wifi_status", "overlay_wifi_forget"}
         => "wifi_list" \in ui.open
    /\ s = "picker" => ui.picker # "none" /\ (ui.picker = "moment" => ui.edit # NoEdit)
    /\ s = "name_keyboard" => ui.keyboard = "config_name"
    /\ s = "wifi_keyboard" => ui.keyboard \in {"ssid", "password"}
    /\ s \in {"manage", "overlay_delete"} => Listed(ui.target)

\* The list keeps its names apart, and every screen, the one the shutdown overlay would
\* return to included, has the objects its buttons need: no screen is dead.
TypeOK ==
    /\ on \in BOOLEAN
    /\ configs \in Lists
    /\ {running, session} \subseteq Name \cup {NoName, Loose}
    /\ ui.screen \in Screens
    /\ ui.cursor \in 0..Len(configs)
    /\ ui.open \subseteq {"time_setup", "bracket_gen", "wifi_list", "wifi_status"}
    /\ \A f \in Flags : ui.flag[f] \in {"up", "down", "long"}
    /\ syncing \in BOOLEAN
    /\ wifi \in {"no", "scan", "connect"}
    /\ pressed \subseteq Hold
    /\ {armed, late} \subseteq SUBSET Timer
    /\ \A s \in Shown : Backed(s)

\* configs.json holds the list that is in memory, at every step of a save and after
\* every failure; the CONFIGS RESET banner shows as long as there is no such file, and
\* a power cut never brings it up.
DiskAgrees ==
    on => /\ file.configs = configs
          /\ banner <=> file.kind # "list"

\* Changes made in the editor are given up only where the operator has confirmed it, on
\* the save or on the discard overlay, never by a worker, a timer or another screen; and
\* of a save that is under way only when the file has them: a disk that refuses it, at
\* any step, leaves the operator with the draft.
DraftKept ==
    [][Dirty(ui.edit) /\ ui'.edit = NoEdit /\ on' =>
         /\ ui.screen \in {"overlay_save", "overlay_discard"}
         /\ saving # NoSave
              => ui.edit.name \in Range(configs') /\ file'.configs = configs']_vars

\* A configuration that is deleted does not run on under its name, unless the schedule
\* started it while it was being deleted.
DeleteStops ==
    [][\A n \in Range(configs) :
         call.op = "delete" /\ n \notin Range(configs')
           => running' # n \/ session = Loose]_vars

\* The same whatever it was renamed to meanwhile: what runs is still in the list.
NoOrphan == running # NoName => session # NoName

\* A timer runs only while its buttons are held, and the chord's alone when both are.
TimersHeld ==
    /\ armed \ {"chord"} \subseteq pressed
    /\ "chord" \in armed => pressed = Hold
    /\ pressed = Hold => armed \subseteq {"chord"}

\* A worker ends on the screen that waits for it, or on the shutdown screens: it never
\* takes another one away from the operator.
OperatorWaits ==
    \/ ui.screen = "shutting_down"
    \/ /\ syncing => "time_setup" \in Shown
       /\ wifi = "scan" => "wifi_list" \in Shown
       /\ wifi = "connect" => "wifi_status" \in Shown

\* One press acts once, as a short press or as a long one: on main and on the Wi-Fi list
\* a release or a long press acts only if the button was pressed there and since then
\* was not released there, has not acted, and the settings were not opened, however late
\* a timer's thread comes.
LetGo(b) == gpio = [kind |-> "release", button |-> b] /\ gpio' = Quiet

PressActsOnce ==
    [][\A b \in Hold :
         (LetGo(b) \/ b \in late \ late') /\ on' /\ Acts => <<ui.screen, b>> \in fresh]_vars

\* Until its three seconds are over the chord does nothing: the press that completes it
\* commands and saves nothing, and costs no draft.
ChordHarmless ==
    [][\A b \in Hold : Press(b) /\ pressed = Hold \ {b}
         => call' = NoCall /\ (Dirty(ui.edit) => ui'.edit = ui.edit)]_vars
=============================================================================
