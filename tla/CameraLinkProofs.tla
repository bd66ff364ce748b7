--------------------------- MODULE CameraLinkProofs ---------------------------
(***************************************************************************)
(* Theorems about module CameraLink, for any exposures and any number of   *)
(* adapter objects.                                                        *)
(***************************************************************************)
EXTENDS CameraLink, TLAPS

\* What the health thread is about to use is there, and before it builds a new adapter
\* no session is left.
HealthInv ==
    /\ health \in {"probe", "open", "label"} => inner \in Adapter
    /\ health = "build" => \A a \in Adapter : cam[a] = "none"

\* A shot knows what it asks for, and runs on an adapter that was there when it took
\* the lock.
ShotInv ==
    /\ engine \in {"params", "between", "shoot", "exposing"} => asked \in Asks
    /\ engine = "exposing" => used \in Adapter

LinkInv == TypeOK /\ HealthInv /\ ShotInv

LEMMA LinkInit == Init => LinkInv
  BY DEF Init, LinkInv, TypeOK, HealthInv, ShotInv, Body, Modes, Asks, NoAsk,
         NoAdapter

-------------------------------------------------------------------------------
\* The world, and the program's request to close.
LEMMA WorldKeeps ==
    ASSUME LinkInv,
           \/ \E b \in Body : Plug(b) \/ Unplug(b)
           \/ TurnDial
           \/ Close
           \/ UNCHANGED vars
    PROVE  LinkInv'
<1> USE DEF LinkInv, TypeOK, HealthInv, ShotInv
<1>1. ASSUME NEW b \in Body, Plug(b)
      PROVE  LinkInv'
  BY <1>1 DEF Plug, adapters, healthVars, engineVars
<1>2. ASSUME NEW b \in Body, Unplug(b)
      PROVE  LinkInv'
  BY <1>2 DEF Unplug, healthVars, engineVars
<1>3. CASE TurnDial
  BY <1>3 DEF TurnDial, Body, Modes, adapters, healthVars, engineVars
<1>4. CASE Close
  BY <1>4 DEF Close, bodies, adapters, healthVars, engineVars
<1>5. CASE UNCHANGED vars
  BY <1>5 DEF vars, bodies, adapters, healthVars, engineVars
<1> QED
  BY <1>1, <1>2, <1>3, <1>4, <1>5

\* A tick of the health thread, a replacement of the adapter included: the new one is
\* an object that no shot refers to, and there is such an object.
LEMMA HealthKeeps ==
    ASSUME LinkInv, HealthStep
    PROVE  LinkInv'
<1> USE DEF LinkInv, TypeOK, HealthInv, ShotInv
<1>1. CASE Look
  BY <1>1 DEF Look, Connected, bodies, adapters, engineVars
<1>2. CASE Probe
  BY <1>2 DEF Probe, Drop, LockFree, bodies, engineVars
<1>3. CASE Detect
  BY <1>3 DEF Detect, SelectKind, Body, bodies, adapters, engineVars
<1>4. CASE ReleaseOld
  <2>1. /\ cam' \in [Adapter -> {"none", "live", "dead"}]
        /\ \A a \in Adapter : cam'[a] = "none"
    BY <1>4, CameraAssumption DEF ReleaseOld, Drop
  <2> QED
    BY <1>4, <2>1 DEF ReleaseOld, bodies, engineVars
<1>5. CASE Build
  <2> DEFINE a == CHOOSE x \in Adapter \ {used} : TRUE
  <2>1. a \in Adapter \ {used}
    BY CameraAssumption
  <2>2. /\ kind' = [kind EXCEPT ![a] = detected]
        /\ cam' = [cam EXCEPT ![a] = "none"]
        /\ dial' = [dial EXCEPT ![a] = FALSE]
        /\ inner' = a
        /\ health = "build" /\ health' = "open"
        /\ UNCHANGED <<bodies, detected, engineVars, closing, swapped>>
    BY <1>5 DEF Build
  <2> HIDE DEF a
  <2> QED
    BY <2>1, <2>2 DEF bodies, engineVars
<1>6. CASE Open
  BY <1>6 DEF Open, Body, Modes, Unset, engineVars
<1>7. CASE Label
  BY <1>7 DEF Label, Drop, LockFree, bodies, engineVars
<1>8. CASE OpenFails
  BY <1>8 DEF OpenFails, Body, bodies, adapters, engineVars
<1> QED
  BY <1>1, <1>2, <1>3, <1>4, <1>5, <1>6, <1>7, <1>8 DEF HealthStep

\* When a shot ends, the adapters that nobody refers to any more are as new: none of
\* them had a session.
LEMMA ShotEnded ==
    ASSUME LinkInv, ShotEnds, Collect \/ UNCHANGED <<kind, dial>>
           \/ (UNCHANGED kind /\ dial' \in [Adapter -> BOOLEAN]),
           \/ UNCHANGED cam
           \/ used \in Adapter /\ Drop(used),
           UNCHANGED <<bodies, inner, healthVars, closing>>
    PROVE  LinkInv'
<1> USE DEF LinkInv, TypeOK
<1>1. /\ kind' \in [Adapter -> Body]
      /\ dial' \in [Adapter -> BOOLEAN]
      /\ \A a \in Adapter : a = inner => kind'[a] = kind[a]
  BY DEF Collect, Body
<1>2. /\ cam' \in [Adapter -> {"none", "live", "dead"}]
      /\ \A a \in Adapter : cam'[a] # "none" => cam'[a] = cam[a] /\ a = inner
  BY DEF Drop
<1> QED
  BY <1>1, <1>2 DEF ShotEnds, HealthInv, ShotInv, bodies, healthVars

\* The engine's thread: a shot takes the lock on the adapter that the proxy has then.
LEMMA ShotKeeps ==
    ASSUME LinkInv, ShotStep \/ \E ask \in Asks : BeginShot(ask)
    PROVE  LinkInv'
<1> USE DEF LinkInv
<1>1. CASE NotConnected
  BY <1>1, ShotEnded DEF NotConnected
<1>2. CASE TransportError
  BY <1>2, ShotEnded DEF TransportError, Connected, TypeOK
<1>3. CASE SigmaSetParams
  <2>1. used \in Adapter /\ used = inner /\ asked \in Asks
    BY <1>3 DEF SigmaSetParams, TypeOK, ShotInv
  <2>2. /\ mode' \in [Body -> Modes("nikon")]
        /\ exp' \in [Body -> Exposure \cup {Unset}]
    <3>1. asked.mode \in Modes("nikon") /\ asked.exp \in Exposure \cup {Unset}
      BY <2>1 DEF Asks, Modes
    <3> QED
      BY <1>3, <3>1 DEF SigmaSetParams, TypeOK
  <2> QED
    BY <1>3, <2>1, <2>2
    DEF SigmaSetParams, TypeOK, HealthInv, ShotInv, adapters, healthVars
<1>4. CASE NikonSetParams
  <2>1. used \in Adapter /\ used = inner /\ asked \in Asks
    BY <1>4 DEF NikonSetParams, TypeOK, ShotInv
  <2>2. /\ dial' \in [Adapter -> BOOLEAN]
        /\ dial'[used] = DialMismatch
    <3>1. DialMismatch \in BOOLEAN
      BY DEF DialMismatch
    <3> QED
      BY <1>4, <2>1, <3>1 DEF NikonSetParams, TypeOK
  <2>3. CASE asked.mode = "M" /\ ShotEnds /\ UNCHANGED exp
    BY <1>4, <2>2, <2>3, ShotEnded DEF NikonSetParams, bodies
  <2>4. ASSUME NEW rejected \in BOOLEAN,
               rejected => asked.mode = "M",
               exp' = [exp EXCEPT !["nikon"] =
                         IF asked.mode = "M" /\ ~rejected THEN asked.exp ELSE @],
               engine' = "between",
               UNCHANGED <<asked, used, locked, swapped>>
        PROVE  LinkInv'
    <3>1. exp' \in [Body -> Exposure \cup {Unset}]
      BY <2>1, <2>4 DEF TypeOK, Asks
    <3> QED
      BY <1>4, <2>1, <2>2, <2>4, <3>1
      DEF NikonSetParams, TypeOK, HealthInv, ShotInv, healthVars
  <2> QED
    BY <1>4, <2>3, <2>4 DEF NikonSetParams
<1>5. CASE BeginShoot
  <2>1. (used # inner) \in BOOLEAN
    OBVIOUS
  <2> QED
    BY <1>5, <2>1 DEF BeginShoot, TypeOK, HealthInv, ShotInv, bodies, adapters, healthVars
<1>6. CASE Release
  BY <1>6 DEF Release, TypeOK, HealthInv, ShotInv, bodies, adapters, healthVars
<1>7. CASE Captured
  BY <1>7, ShotEnded DEF Captured
<1>8. CASE CaptureFails
  BY <1>8, ShotEnded DEF CaptureFails, adapters
<1>9. ASSUME NEW ask \in Asks, BeginShot(ask)
      PROVE  LinkInv'
  BY <1>9 DEF BeginShot, TypeOK, HealthInv, ShotInv, bodies, adapters, healthVars
<1> QED
  BY <1>1, <1>2, <1>3, <1>4, <1>5, <1>6, <1>7, <1>8, <1>9 DEF ShotStep

LEMMA DisconnectKeeps ==
    ASSUME LinkInv, Disconnect
    PROVE  LinkInv'
  BY DEF LinkInv, TypeOK, HealthInv, ShotInv, Disconnect, ThreadsEnd, Drop, bodies

LEMMA LinkInvariant == Spec => []LinkInv
<1>1. LinkInv /\ [Next]_vars => LinkInv'
  BY WorldKeeps, HealthKeeps, ShotKeeps, DisconnectKeeps DEF Next
<1> QED
  BY LinkInit, <1>1, PTL DEF Spec

-------------------------------------------------------------------------------
\* An adapter's lock is held exactly during its shoot(), only the proxy's adapter has a
\* session, and a session that lives is one with a body on the bus (proxy.py, and
\* _require() and _mark_disconnected() of both adapters).
THEOREM TypeCorrect == Spec => []TypeOK
<1>1. LinkInv => TypeOK
  BY DEF LinkInv
<1> QED
  BY LinkInvariant, <1>1, PTL

\* probe(), disconnect() and the health thread's replacement of an adapter never take
\* the session away from a shoot() that has the lock; a body that is unplugged does.
THEOREM LockProtectsCapture == Spec => CaptureUndisturbed
<1>1. ASSUME LinkInv, [Next]_vars, engine = "exposing", engine' = "exposing"
      PROVE  usb' # usb \/ cam'[used] = cam[used]
  <2> USE <1>1
  <2>1. /\ used \in Adapter /\ locked /\ ~LockFree(used)
        /\ cam \in [Adapter -> {"none", "live", "dead"}]
    BY DEF LinkInv, TypeOK, ShotInv, LockFree
  <2>2. CASE HealthStep
    <3>1. CASE Build
      <4> DEFINE a == CHOOSE x \in Adapter \ {used} : TRUE
      <4>1. a # used
        BY CameraAssumption
      <4>2. cam' = [cam EXCEPT ![a] = "none"]
        BY <3>1 DEF Build
      <4> HIDE DEF a
      <4> QED
        BY <2>1, <4>1, <4>2
    <3>2. CASE ~Build
      BY <2>1, <2>2, <3>2
      DEF HealthStep, Look, Probe, Detect, ReleaseOld, Open, Label, OpenFails, Drop,
          LockFree, adapters
    <3> QED
      BY <3>1, <3>2
  <2>3. CASE ShotStep
    BY <2>3
    DEF ShotStep, NotConnected, TransportError, SigmaSetParams, NikonSetParams,
        BeginShoot, Release, Captured, CaptureFails, ShotEnds
  <2> QED
    BY <2>2, <2>3
    DEF Next, Plug, Unplug, TurnDial, BeginShot, Close, Disconnect, ThreadsEnd, vars,
        adapters
<1> QED
  BY <1>1, LinkInvariant, PTL DEF Spec, CaptureUndisturbed
===============================================================================
