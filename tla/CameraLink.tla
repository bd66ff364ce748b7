------------------------------ MODULE CameraLink ------------------------------
(***************************************************************************)
(* The camera side: bodies that come and go on the USB bus, the adapters   *)
(* that drive them (sigma_fp.py, nikon_gphoto.py), the proxy that hosts    *)
(* one adapter at a time (proxy.py), the health thread that notices losses *)
(* and reconnects (camera_health.py), and the engine's thread, which takes *)
(* each photograph with set_params() and then shoot().                     *)
(*                                                                         *)
(* An adapter method that runs under the adapter's lock is one step, save  *)
(* shoot(), during which the bus may change and others wait for the lock.  *)
(***************************************************************************)
EXTENDS Integers

CONSTANTS
    Exposure,   \* the exposures a manual shot may ask for
    Adapter     \* identities of adapter objects; those nobody refers to are reused

Body == {"sigma", "nikon"}
NoAdapter == "none"
Unset == 0              \* an exposure nobody asked for

\* Manual, the camera's program, and a position of the nikon's dial (a scene mode)
\* whose label the adapter does not know.
Modes(b) == IF b = "nikon" THEN {"M", "P", "other"} ELSE {"M", "P"}

\* The proxy refers to one adapter, and a shot may still run on the one before.
ASSUME CameraAssumption ==
    /\ Unset \notin Exposure
    /\ NoAdapter \notin Adapter
    /\ \E a, b \in Adapter : a # b

\* What a shot asks for: manual with an exposure, or the camera's program.
Asks == [mode : {"M"}, exp : Exposure] \cup [mode : {"P"}, exp : {Unset}]
NoAsk == [mode |-> "none", exp |-> Unset]

VARIABLES
    usb,        \* the bodies attached
    mode,       \* the exposure mode of each body, for the nikon its dial
    exp,        \* the exposure each body is set to
    kind,       \* the kind of each adapter object
    cam,        \* its _cam: "none", "live", or "dead" since the body went away
    dial,       \* its dial_mismatch
    inner,      \* the proxy's _inner
    health,     \* program counter of the health thread
    detected,   \* the kind its connect() has detected
    engine,     \* program counter of the engine's thread
    asked,      \* what its current shot asks for
    used,       \* the adapter its set_params() or shoot() runs on
    locked,     \* it is inside shoot(), with that adapter's lock
    closing,    \* the program is ending: "no", "asked", "done"
    swapped     \* history, read by a property only: the proxy had another adapter for the
                \* shoot() of the current shot than for its set_params()

bodies == <<usb, mode, exp>>
adapters == <<kind, cam, dial, inner>>
healthVars == <<health, detected>>
engineVars == <<engine, asked, used, locked>>
vars == <<bodies, adapters, healthVars, engineVars, closing, swapped>>

Init ==
    /\ usb \in SUBSET Body
    /\ mode \in {f \in [Body -> Modes("nikon")] : \A b \in Body : f[b] \in Modes(b)}
    /\ exp = [b \in Body |-> Unset]
    /\ kind = [a \in Adapter |-> "sigma"]
    /\ cam = [a \in Adapter |-> "none"]
    /\ dial = [a \in Adapter |-> FALSE]
    /\ inner = NoAdapter
    /\ health = "look"
    /\ detected = "sigma"
    /\ engine = "idle"
    /\ asked = NoAsk
    /\ used = NoAdapter
    /\ locked = FALSE
    /\ closing = "no"
    /\ swapped = FALSE

Connected(a) == a # NoAdapter /\ cam[a] # "none"
LockFree(a) == ~(locked /\ used = a)

\* _mark_disconnected().
Drop(a) == cam' = [cam EXCEPT ![a] = "none"]

-------------------------------------------------------------------------------
\* The world: bodies are plugged and unplugged, the nikon's dial is turned.  A body
\* that does not answer for a while, when it is enumerated or opened, is one that is
\* unplugged and plugged again.

Plug(b) ==
    /\ b \notin usb
    /\ usb' = usb \cup {b}
    /\ UNCHANGED <<mode, exp, adapters, healthVars, engineVars, closing, swapped>>

Unplug(b) ==
    /\ b \in usb
    /\ usb' = usb \ {b}
    /\ cam' = [a \in Adapter |->
                 IF kind[a] = b /\ cam[a] = "live" THEN "dead" ELSE cam[a]]
    /\ UNCHANGED <<mode, exp, kind, dial, inner, healthVars, engineVars, closing, swapped>>

TurnDial ==
    /\ \E m \in Modes("nikon") \ {mode["nikon"]} : mode' = [mode EXCEPT !["nikon"] = m]
    /\ UNCHANGED <<usb, exp, adapters, healthVars, engineVars, closing, swapped>>

-------------------------------------------------------------------------------
\* The health thread: _tick_once(), with the proxy's connect() inlined.

Look ==
    /\ health = "look"
    /\ health' = IF closing # "no" THEN "exited"
                 ELSE IF Connected(inner) THEN "probe" ELSE "detect"
    /\ UNCHANGED <<bodies, adapters, detected, engineVars, closing, swapped>>

\* A mistake: the probe does not take the adapter's lock.
Probe_WithoutLock ==
    /\ health = "probe"
    /\ \/ /\ cam[inner] = "live"
          /\ health' = "look"
          /\ UNCHANGED cam
       \/ /\ health' = "detect"
          /\ Drop(inner)
    /\ UNCHANGED <<bodies, kind, dial, inner, detected, engineVars, closing,
                   swapped>>

\* probe() makes a round trip and drops the session when that fails, as it does when
\* the body is gone; when another thread has dropped it meanwhile, _require() raises
\* to the same effect.
Probe ==
    /\ health = "probe"
    /\ LockFree(inner)
    /\ \/ /\ cam[inner] = "live"
          /\ health' = "look"
          /\ UNCHANGED cam
       \/ /\ health' = "detect"
          /\ Drop(inner)
    /\ UNCHANGED <<bodies, kind, dial, inner, detected, engineVars, closing,
                   swapped>>

\* select_camera_kind(): the nikon has priority, the sigma is the fallback.
SelectKind(devices) == IF "nikon" \in devices THEN "nikon" ELSE "sigma"

\* A mistake: an adapter is kept although the bus has another kind of body.
Detect_KeepsAdapter ==
    /\ health = "detect"
    /\ detected' = SelectKind(usb)
    /\ health' = IF inner = NoAdapter THEN "release" ELSE "open"
    /\ UNCHANGED <<bodies, adapters, engineVars, closing, swapped>>

\* The descriptors are read, and the adapter to be replaced is chosen; only this
\* thread replaces it.
Detect ==
    /\ health = "detect"
    /\ detected' = SelectKind(usb)
    /\ health' = IF inner = NoAdapter \/ kind[inner] # detected'
                 THEN "release" ELSE "open"
    /\ UNCHANGED <<bodies, adapters, engineVars, closing, swapped>>

\* The old adapter's disconnect(), under its lock.
ReleaseOld ==
    /\ health = "release"
    /\ LockFree(inner)
    /\ IF inner = NoAdapter THEN UNCHANGED cam ELSE Drop(inner)
    /\ health' = "build"
    /\ UNCHANGED <<bodies, kind, dial, inner, detected, engineVars, closing,
                   swapped>>

\* A new adapter, installed as the proxy's inner one; the identity of the old one,
\* which is released, serves again unless a shot still refers to it.
Build ==
    /\ health = "build"
    /\ LET a == CHOOSE x \in Adapter \ {used} : TRUE
       IN
         /\ kind' = [kind EXCEPT ![a] = detected]
         /\ cam' = [cam EXCEPT ![a] = "none"]
         /\ dial' = [dial EXCEPT ![a] = FALSE]
         /\ inner' = a
    /\ health' = "open"
    /\ UNCHANGED <<bodies, detected, engineVars, closing, swapped>>

\* connect() of an adapter, which has no session here: opening it resets the sigma,
\* which is then pushed to manual mode as well as it goes.
Open ==
    /\ health = "open"
    /\ LockFree(inner)
    /\ kind[inner] \in usb
    /\ cam' = [cam EXCEPT ![inner] = "live"]
    /\ IF kind[inner] = "sigma"
       THEN /\ exp' = [exp EXCEPT !["sigma"] = Unset]
            /\ \E m \in Modes("sigma") : mode' = [mode EXCEPT !["sigma"] = m]
       ELSE UNCHANGED <<exp, mode>>
    /\ health' = "label"
    /\ detected' = "sigma"
    /\ UNCHANGED <<usb, kind, dial, inner, engineVars, closing, swapped>>

\* The proxy asks the new session for the body's name.  It swallows an error, but the
\* adapter has dropped the session by then, or another thread has.
Label ==
    /\ health = "label"
    /\ LockFree(inner)
    /\ (cam[inner] = "live" /\ UNCHANGED cam) \/ Drop(inner)
    /\ health' = "look"
    /\ UNCHANGED <<bodies, kind, dial, inner, detected, engineVars, closing, swapped>>

\* There is no body.
OpenFails ==
    /\ health = "open"
    /\ kind[inner] \notin usb
    /\ LockFree(inner)
    /\ health' = "look"
    /\ detected' = "sigma"
    /\ UNCHANGED <<bodies, adapters, engineVars, closing, swapped>>

-------------------------------------------------------------------------------
\* The engine's thread: _fire_shot().  A failure of either call ends the shot.

ShotEnds ==
    /\ engine' = "idle"
    /\ asked' = NoAsk
    /\ used' = NoAdapter
    /\ locked' = FALSE
    /\ swapped' = FALSE

\* An adapter nobody refers to any more is as good as a new one.
Collect ==
    /\ kind' = [a \in Adapter |-> IF a = inner THEN kind[a] ELSE "sigma"]
    /\ dial' = [a \in Adapter |-> a = inner /\ dial[a]]

BeginShot(ask) ==
    /\ engine = "idle"
    /\ engine' = "params"
    /\ asked' = ask
    /\ used' = inner
    /\ UNCHANGED <<bodies, adapters, healthVars, locked, closing, swapped>>

\* _require() of the proxy finds no adapter, or that of the adapter no session.
NotConnected ==
    /\ engine \in {"params", "shoot"}
    /\ LockFree(used)
    /\ ~Connected(used)
    /\ ShotEnds /\ Collect
    /\ UNCHANGED <<bodies, cam, inner, healthVars, closing>>

\* A transport error: the body is gone, or the bus had a hiccup.
TransportError ==
    /\ engine \in {"params", "shoot", "exposing"}
    /\ Connected(used)
    /\ Drop(used)
    /\ ShotEnds /\ Collect
    /\ UNCHANGED <<bodies, inner, healthVars, closing>>

\* Exposure mode first: in program mode the body ignores the values.
SigmaSetParams ==
    /\ engine = "params"
    /\ used # NoAdapter /\ kind[used] = "sigma" /\ cam[used] = "live"
    /\ mode' = [mode EXCEPT !["sigma"] = asked.mode]
    /\ exp' = [exp EXCEPT !["sigma"] = IF mode'["sigma"] = "M" THEN asked.exp ELSE @]
    /\ engine' = "between"
    /\ UNCHANGED <<usb, adapters, healthVars, asked, used, locked, closing, swapped>>

\* A dial known to be on another mode than the one asked for.
DialMismatch == mode["nikon"] \in {"M", "P"} \ {asked.mode}

\* The dial can only be compared.  A write the body rejects is logged and ignored;
\* a busy body fails the shot.
NikonSetParams ==
    /\ engine = "params"
    /\ used # NoAdapter /\ kind[used] = "nikon" /\ cam[used] = "live"
    /\ dial' = [dial EXCEPT ![used] = DialMismatch]
    /\ \/ \E rejected \in BOOLEAN :
            /\ rejected => asked.mode = "M"
            /\ exp' = [exp EXCEPT !["nikon"] =
                         IF asked.mode = "M" /\ ~rejected THEN asked.exp ELSE @]
            /\ engine' = "between"
            /\ UNCHANGED <<asked, used, locked, swapped>>
       \/ asked.mode = "M" /\ ShotEnds /\ UNCHANGED exp
    /\ UNCHANGED <<usb, mode, kind, cam, inner, healthVars, closing>>

\* The proxy looks its adapter up again for shoot().
BeginShoot ==
    /\ engine = "between"
    /\ engine' = "shoot"
    /\ used' = inner
    /\ swapped' = (used # inner)
    /\ UNCHANGED <<bodies, adapters, healthVars, asked, locked, closing>>

\* The adapter's lock is taken, the focus mode read and the shutter released.
Release ==
    /\ engine = "shoot"
    /\ used # NoAdapter /\ cam[used] = "live"
    /\ engine' = "exposing"
    /\ locked' = TRUE
    /\ UNCHANGED <<bodies, adapters, healthVars, asked, used, closing, swapped>>

AsAsked(b) ==
    /\ mode[b] = asked.mode
    /\ asked.mode = "M" => exp[b] = asked.exp

Captured ==
    /\ engine = "exposing"
    /\ cam[used] = "live"
    /\ ShotEnds /\ Collect
    /\ UNCHANGED <<bodies, cam, inner, healthVars, closing>>

\* A mistake: a capture that fails leaves the lock taken.
CaptureFails_KeepsLock ==
    /\ engine = "exposing"
    /\ engine' = "idle"
    /\ asked' = NoAsk
    /\ UNCHANGED <<bodies, adapters, healthVars, used, locked, closing, swapped>>

\* CaptureFailed, CameraBusy, or the timeout: the session survives.
CaptureFails ==
    /\ engine = "exposing"
    /\ ShotEnds /\ Collect
    /\ UNCHANGED <<bodies, cam, inner, healthVars, closing>>

-------------------------------------------------------------------------------
\* main() on its way out.  It waits two seconds for each thread and goes on.

Close ==
    /\ closing = "no"
    /\ closing' = "asked"
    /\ UNCHANGED <<bodies, adapters, healthVars, engineVars, swapped>>

\* They are daemons: the end of the program is theirs.
ThreadsEnd ==
    /\ health' = "exited"
    /\ engine' = "exited"
    /\ asked' = NoAsk
    /\ used' = NoAdapter
    /\ locked' = FALSE
    /\ swapped' = FALSE

\* A mistake: the end waits for an adapter to disconnect.
Disconnect_WaitsForAdapter ==
    /\ closing = "asked"
    /\ inner # NoAdapter
    /\ LockFree(inner)
    /\ Drop(inner)
    /\ closing' = "done"
    /\ ThreadsEnd
    /\ UNCHANGED <<bodies, kind, dial, inner, detected>>

\* camera.disconnect() is the last statement of the program.
Disconnect ==
    /\ closing = "asked"
    /\ LockFree(inner)
    /\ IF inner = NoAdapter THEN UNCHANGED cam ELSE Drop(inner)
    /\ closing' = "done"
    /\ ThreadsEnd
    /\ UNCHANGED <<bodies, kind, dial, inner, detected>>

HealthStep ==
    \/ Look \/ Probe \/ Detect
    \/ ReleaseOld \/ Build \/ Open \/ Label \/ OpenFails

ShotStep ==
    \/ NotConnected \/ TransportError \/ SigmaSetParams \/ NikonSetParams
    \/ BeginShoot \/ Release \/ Captured \/ CaptureFails

Next ==
    \/ \E b \in Body : Plug(b) \/ Unplug(b)
    \/ TurnDial
    \/ HealthStep
    \/ ShotStep
    \/ \E ask \in Asks : BeginShot(ask)
    \/ Close \/ Disconnect

\* The health thread keeps its pace, a shot ends (shoot() has a timeout), and whoever
\* waits for an adapter's lock gets it some time between two shots.
Fairness ==
    /\ SF_vars(HealthStep)
    /\ WF_vars(ShotStep)
    /\ SF_vars(Disconnect)

Spec == Init /\ [][Next]_vars
FairSpec == Spec /\ Fairness

-------------------------------------------------------------------------------
\* An adapter's lock is held exactly during its shoot(), which runs on a session
\* that only the loss of the body can take away.
TypeOK ==
    /\ usb \subseteq Body
    /\ mode \in [Body -> Modes("nikon")]
    /\ exp \in [Body -> Exposure \cup {Unset}]
    /\ kind \in [Adapter -> Body]
    /\ cam \in [Adapter -> {"none", "live", "dead"}]
    /\ dial \in [Adapter -> BOOLEAN]
    /\ {inner, used} \subseteq Adapter \cup {NoAdapter}
    /\ health \in {"look", "probe", "detect", "release", "build", "open",
                   "label", "exited"}
    /\ detected \in Body
    /\ engine \in {"idle", "params", "between", "shoot", "exposing", "exited"}
    /\ asked \in Asks \cup {NoAsk}
    /\ closing \in {"no", "asked", "done"}
    /\ swapped \in BOOLEAN
    /\ locked <=> engine = "exposing"
    /\ \A a \in Adapter : cam[a] = "live" => kind[a] \in usb
    /\ \A a \in Adapter : cam[a] # "none" => a = inner

\* No thread takes the session away under a capture: the health thread and the
\* program's end wait for it.
CaptureUndisturbed ==
    [][engine = "exposing" /\ engine' = "exposing"
         => usb' # usb \/ cam'[used] = cam[used]]_vars

\* A swap racing a shot can at worst make it fail (proxy.py): a photograph that counts
\* although the proxy had changed adapters after its set_params() is exposed as its shot
\* asked, or the display says that the dial is wrong.
SwapAtWorstFails ==
    [][Captured /\ swapped => AsAsked(kind[used]) \/ dial[used]]_vars

\* Once the bus is left alone the link settles, with no shot to find out: a body that
\* has gone is noticed, and one that is left attached is used, whichever it is and
\* whatever was used before.
Settles ==
    <>[][usb' = usb]_usb
      => []<>(\/ closing # "no"
              \/ usb = {} /\ ~Connected(inner)
              \/ usb # {} /\ Connected(inner) /\ kind[inner] \in usb)

\* The program disconnects the camera on its way out, even during a shot.
Disconnects == (closing = "asked") ~> (closing = "done")
===============================================================================
