-------------------------------- MODULE Wifi --------------------------------
(***************************************************************************)
(* The Wi-Fi screens of the App (app.py, ui/wifi_screen.py) over nmcli     *)
(* (net/nmcli.py): the list of networks made of a scan, the passwords that *)
(* are typed, forgetting a network, and the two workers that scan and      *)
(* connect off the UI thread.  A worker's end and a gesture each take one  *)
(* step: both hold app.lock, and nmcli itself is called outside it, or     *)
(* under it when the UI thread scans.  Where gestures come from, and what  *)
(* else is on the screen, is App's business.                               *)
(*                                                                         *)
(* External: NetworkManager, behind nmcli, with its profiles; what a scan  *)
(* prints is any of Airs, or nothing, since its exit code is not read; so  *)
(* is what names the profiles.  A connect may end in any way, and every    *)
(* call may raise.                                                         *)
(***************************************************************************)
EXTENDS Keyboard, SequencesExt

CONSTANTS
    Airs,       \* the outputs of a scan: sequences of lines
    Saved,      \* the profiles there may be at first
    MaxJoins    \* bound: connections tried

\* The fields of a line of a scan; a signal that is no number is -1.
Line == [ssid : Seq(Chars), signal : Nat \cup {-1}, secured : BOOLEAN, used : BOOLEAN]

ASSUME WifiAssumption ==
    /\ Airs \subseteq Seq(Line)
    /\ \A known \in Saved : known \subseteq Seq(Chars)
    /\ MaxJoins \in Nat

VARIABLES
    networks,   \* wifi_networks
    row,        \* wifi_list_ix.cursor
    pending,    \* _wifi_pending
    busy,       \* _wifi_busy: the worker that is about
    job,        \* what the connect worker was given
    status,     \* wifi_status_state.phase
    profiles,   \* NetworkManager's saved profiles
    joins,      \* bounds the run
    \* History, read by properties only:
    asked,      \* the network a password was last asked for
    heard       \* what the list was made of: the lines, the profiles, the network joined

list == <<networks, row, heard>>
worker == <<busy, job, status>>
wifi == <<list, pending, worker, profiles, joins, asked>>

NoSsid == <<>>
NoJob == [ssid |-> NoSsid, password |-> <<>>, hidden |-> FALSE]
NothingHeard == [lines |-> <<>>, known |-> {}, joined |-> "scanned", ssid |-> NoSsid]

\* parse_scan, one line: a line that names no network is skipped, a signal that is no
\* number counts as none, and a network that several stations offer is listed once.
Known(nets, ssid) == \E i \in DOMAIN nets : nets[i].ssid = ssid

\* A mistake: the last station counts instead of the strongest.
AddLine_LastSignal(nets, line, known) ==
    IF line.ssid = NoSsid THEN nets
    ELSE IF Known(nets, line.ssid)
    THEN [i \in DOMAIN nets |->
             IF nets[i].ssid # line.ssid THEN nets[i]
             ELSE [nets[i] EXCEPT !.signal = Max({0, line.signal}),
                                  !.secured = @ \/ line.secured,
                                  !.active = @ \/ line.used]]
    ELSE Append(nets, [ssid |-> line.ssid, signal |-> Max({0, line.signal}),
                       secured |-> line.secured, active |-> line.used,
                       saved |-> line.ssid \in known])

AddLine(nets, line, known) ==
    IF line.ssid = NoSsid THEN nets
    ELSE IF Known(nets, line.ssid)
    THEN [i \in DOMAIN nets |->
             IF nets[i].ssid # line.ssid THEN nets[i]
             ELSE [nets[i] EXCEPT !.signal = Max({@, line.signal}),
                                  !.secured = @ \/ line.secured,
                                  !.active = @ \/ line.used]]
    ELSE Append(nets, [ssid |-> line.ssid, signal |-> Max({0, line.signal}),
                       secured |-> line.secured, active |-> line.used,
                       saved |-> line.ssid \in known])

\* nets.sort(key = (not active, -signal)), which keeps the order of equals
Sorted(nets) ==
    LET less(n, m) == (n.active /\ ~m.active) \/ (n.active = m.active /\ n.signal > m.signal)
        before(i, j) == \/ less(nets[i], nets[j])
                        \/ ~less(nets[j], nets[i]) /\ i < j
    IN [k \in DOMAIN nets |->
           nets[CHOOSE i \in DOMAIN nets :
                    Cardinality({j \in DOMAIN nets : before(j, i)}) = k - 1]]

\* scan(): the list, and which of it has a profile.
Scan(lines, known) ==
    Sorted(FoldLeft(LAMBDA nets, line : AddLine(nets, line, known), <<>>, lines))

WifiInit ==
    /\ networks = <<>> /\ row = 0
    /\ pending = NoJob
    /\ busy = "no" /\ job = NoJob /\ status = "none"
    /\ joins = 0
    /\ asked = NoSsid
    /\ heard = NothingHeard

-------------------------------------------------------------------------------
\* What two calls of nmcli print, of the air and of the profiles; an exit code is not read.
Printed == Airs \cup {<<>>}
Told(saved) == {saved, {}}

\* A new list, with the cursor at the top; nothing if nmcli raised.
ShowScan(saved) ==
    /\ row' = 0
    /\ \E lines \in Printed, known \in Told(saved) :
         /\ networks' = Scan(lines, known)
         /\ heard' = [lines |-> lines, known |-> known, joined |-> "scanned", ssid |-> NoSsid]

\* _dispatch_time_setup, "Wi-Fi setup": a scan of what is cached.
OpenWifiList ==
    /\ screen' = "wifi_list"
    /\ ShowScan(profiles)
    /\ UNCHANGED <<pending, worker, profiles, joins, asked>>

OnList == screen = "wifi_list" /\ busy = "no"
Selected == networks[row + 1]
OnNetwork == row < Len(networks)

\* UP and DOWN: the networks, "Other network" and "Rescan"
MoveRow(d) ==
    /\ OnList
    /\ row' = Max({0, Min({Len(networks) + 1, row + d})})
    /\ UNCHANGED <<screen, keyboard, networks, heard, pending, worker, profiles, joins, asked>>

AskPassword(ssid, hidden) ==
    /\ pending' = [ssid |-> ssid, secured |-> TRUE, hidden |-> hidden]
    /\ keyboard' = Keyboard("password", <<>>, {})
    /\ screen' = "wifi_keyboard"
    /\ asked' = ssid
    /\ UNCHANGED <<list, worker, profiles, joins>>

\* _start_wifi_connect_worker: the password is the keyboard's text, if it is open.
StartConnect(ssid, secured, hidden) ==
    /\ joins < MaxJoins /\ joins' = joins + 1
    /\ job' = [ssid |-> ssid, hidden |-> hidden,
               password |-> IF secured /\ keyboard # NoKeyboard THEN keyboard.text ELSE <<>>]
    /\ pending' = [ssid |-> ssid, secured |-> secured, hidden |-> hidden]
    /\ busy' = "connect"
    /\ keyboard' = NoKeyboard
    /\ status' = "connecting"
    /\ screen' = "wifi_status"
    /\ UNCHANGED <<list, profiles, asked>>

JoinNetwork ==
    /\ OnList /\ OnNetwork
    /\ IF Selected.secured /\ ~Selected.saved
       THEN AskPassword(Selected.ssid, FALSE)
       ELSE StartConnect(Selected.ssid, Selected.secured, FALSE)

NameOther ==
    /\ OnList /\ row = Len(networks)
    /\ keyboard' = Keyboard("ssid", <<>>, {})
    /\ screen' = "wifi_keyboard"
    /\ UNCHANGED wifi

\* _start_wifi_scan_worker
ScanAgain ==
    /\ OnList /\ row = Len(networks) + 1
    /\ busy' = "scan"
    /\ UNCHANGED <<screen, keyboard, list, pending, job, status, profiles, joins, asked>>

\* Held OK: the password of a secured network, one that has a profile too.
HoldOk ==
    /\ OnList /\ OnNetwork /\ Selected.secured
    /\ AskPassword(Selected.ssid, FALSE)

\* Back to the settings
ShortBack ==
    /\ OnList
    /\ networks' = <<>> /\ row' = 0
    /\ heard' = NothingHeard
    /\ screen' = "time_setup"
    /\ UNCHANGED <<keyboard, pending, worker, profiles, joins, asked>>

HoldBack ==
    /\ OnList /\ OnNetwork /\ Selected.saved
    /\ screen' = "overlay_wifi_forget"
    /\ UNCHANGED <<keyboard, wifi>>

\* _dispatch_wifi_forget: the profile goes, unless nmcli fails, and the list is new.
Forget ==
    /\ screen = "overlay_wifi_forget"
    /\ profiles' \in {profiles, profiles \ {Selected.ssid}}
    /\ ShowScan(profiles')
    /\ screen' = "wifi_list"
    /\ UNCHANGED <<keyboard, pending, worker, joins, asked>>

KeepNetwork ==
    /\ screen = "overlay_wifi_forget"
    /\ screen' = "wifi_list"
    /\ UNCHANGED <<keyboard, wifi>>

-------------------------------------------------------------------------------
\* _dispatch_keyboard_done: the name of a network, then its password.
WifiTyped ==
    /\ screen = "wifi_keyboard" /\ KeyboardDone
    /\ IF keyboard.target = "ssid" THEN AskPassword(keyboard.text, TRUE)
       ELSE StartConnect(pending.ssid, TRUE, pending.hidden)

\* A mistake: the text stays in the keyboard.
KeyboardCancel_KeepsText ==
    /\ screen = "wifi_keyboard"
    /\ screen' = "wifi_list"
    /\ UNCHANGED <<keyboard, wifi>>

KeyboardCancel ==
    /\ screen = "wifi_keyboard"
    /\ keyboard' = NoKeyboard
    /\ screen' = "wifi_list"
    /\ UNCHANGED wifi

WifiKeyboardEdits ==
    /\ screen = "wifi_keyboard" /\ KeyboardEdits
    /\ UNCHANGED <<screen, wifi>>

WifiStatusPress ==
    /\ screen = "wifi_status" /\ busy = "no"
    /\ status' = "none"
    /\ screen' = "wifi_list"
    /\ UNCHANGED <<keyboard, list, pending, busy, job, profiles, joins, asked>>

-------------------------------------------------------------------------------
\* The list after a connect: the dot is on the connection that status() names, if any,
\* whatever the scan says of it; the order is the scan's.
Reconciled(nets, name) ==
    [i \in DOMAIN nets |->
        [nets[i] EXCEPT !.active = (nets[i].ssid = name),
                        !.saved = @ \/ nets[i].ssid = name]]

\* _run_wifi_connect, connected: status() may raise, and all counts as failed; a scan
\* that raises leaves the list.
Connected ==
    /\ profiles' = profiles \cup {job.ssid}
    /\ \/ status' = "failed" /\ UNCHANGED list
       \/ /\ status' = "connected"
          /\ \/ UNCHANGED list
             \/ \E name \in profiles' \cup {NoSsid}, lines \in Printed, known \in Told(profiles') :
                  /\ networks' = Reconciled(Scan(lines, known), name)
                  /\ row' = 0
                  /\ heard' = [lines |-> lines, known |-> known, joined |-> "joined", ssid |-> name]

\* Refused, not found, timed out or raised; a profile may have been made all the same.
NotConnected ==
    /\ profiles' \in {profiles, profiles \cup {job.ssid}}
    /\ status' = "failed"
    /\ UNCHANGED list

ConnectEnds ==
    /\ busy = "connect"
    /\ busy' = "no" /\ job' = NoJob
    /\ Connected \/ NotConnected
    /\ screen' = "wifi_status"
    /\ UNCHANGED <<keyboard, pending, joins, asked>>

\* _run_wifi_scan
ScanEnds ==
    /\ busy = "scan"
    /\ busy' = "no"
    /\ ShowScan(profiles)
    /\ screen' = "wifi_list"
    /\ UNCHANGED <<keyboard, pending, job, status, profiles, joins, asked>>

WifiNext ==
    \/ \E d \in {-1, 1} : MoveRow(d)
    \/ JoinNetwork \/ NameOther \/ ScanAgain \/ HoldOk \/ HoldBack
    \/ Forget \/ KeepNetwork
    \/ WifiTyped \/ KeyboardCancel \/ WifiKeyboardEdits \/ WifiStatusPress
    \/ ConnectEnds \/ ScanEnds

-------------------------------------------------------------------------------
\* The cursor is on a row that is there, and an overlay about a network has one.
WifiOK ==
    /\ row \in 0..(Len(networks) + 1)
    /\ screen = "overlay_wifi_forget" => OnNetwork
    /\ screen = "wifi_keyboard" => keyboard.target \in {"ssid", "password"}
    /\ busy = "connect" <=> job # NoJob
    /\ joins \in 0..MaxJoins

\* A password goes to the network it was typed for and to no other, and nmcli is asked to
\* join without one only what is open or has a profile that knows it.
SecretStays ==
    busy = "connect" =>
        IF job.password # <<>> THEN job.ssid = asked
        ELSE \E i \in DOMAIN networks :
                 /\ networks[i].ssid = job.ssid
                 /\ ~networks[i].secured \/ networks[i].saved

\* The list says of the air what the scan did: every network that was named, once, with
\* its best signal, with a lock if any station has one, and as saved if its profile was
\* told; the connection in use first, then the best signals.  After a connect the dot is
\* on the network that was joined and on no other, in the order of the scan all the same.
ScanExact ==
    LET lines == heard.lines
        joined == heard.joined = "joined"
        of(ssid) == {i \in DOMAIN lines : lines[i].ssid = ssid}
        used(n) == \E k \in of(n.ssid) : lines[k].used
        better(n, m) == \/ used(n) /\ ~used(m)
                        \/ used(n) = used(m) /\ n.signal >= m.signal
    IN /\ {networks[i].ssid : i \in DOMAIN networks} =
              {lines[i].ssid : i \in DOMAIN lines} \ {NoSsid}
       /\ \A i, j \in DOMAIN networks : i # j => networks[i].ssid # networks[j].ssid
       /\ \A i \in DOMAIN networks :
            LET n == networks[i]
            IN /\ n.signal = Max({0} \cup {lines[k].signal : k \in of(n.ssid)})
               /\ n.secured <=> \E k \in of(n.ssid) : lines[k].secured
               /\ n.saved <=> n.ssid \in heard.known \/ (joined /\ n.ssid = heard.ssid)
               /\ n.active <=> IF joined THEN n.ssid = heard.ssid ELSE used(n)
       /\ \A i \in 1..(Len(networks) - 1) : better(networks[i], networks[i + 1])
=============================================================================
