---------------------------- MODULE CameraProofs ----------------------------
(***************************************************************************)
(* For any number of overlapping starts and frames, CameraScanner loses no  *)
(* stream, runs none behind a hidden page, reports one code per start and   *)
(* freezes no page.                                                         *)
(***************************************************************************)
EXTENDS CameraScanner, TLAPS

\* Call c waits for getUserMedia and would install the stream it gets.
Waits(c) == calls[c].stage = "asking" /\ calls[c].current

\* What the proof needs to know of the shape of the variables.
Shape == /\ calls \in [Call -> CallState]
         /\ cam \in Camera

\* The service holds no stream while a start may still bring one, and one start at
\* most may.
OneComing == /\ \A c \in Call : Waits(c) => cam.stream = NoStream
             /\ \A c, d \in Call : Waits(c) /\ Waits(d) => c = d

\* Behind a hidden page nothing runs and nothing may start to.
Dark == hidden \/ destroyed => cam.stream = NoStream /\ \A c \in Call : ~Waits(c)

\* The inductive invariant.
StreamInv == NoStrayStream /\ OneComing /\ Dark

-----------------------------------------------------------------------------

\* What the pieces of the handlers make of a call and of the camera.
LEMMA OvertakenCalls ==
    ASSUME NEW cs \in [Call -> CallState]
    PROVE  /\ Overtaken(cs) \in [Call -> CallState]
           /\ \A c \in Call : Overtaken(cs)[c].current = FALSE
BY DEF Overtaken, CallState

LEMMA OffCamera ==
    ASSUME NEW phase \in Phases, NEW video \in BOOLEAN
    PROVE  Off(phase, video) \in Camera /\ Off(phase, video).stream = NoStream
BY DEF Off, Camera

\* A step keeps StreamInv if it starts nothing and leaves the stream alone.
LEMMA QuietStep ==
    ASSUME StreamInv, live' = live, cam.stream' = cam.stream,
           \A c \in Call : Waits(c)' => Waits(c),
           UNCHANGED <<hidden, destroyed>>
    PROVE  StreamInv'
BY DEF StreamInv, NoStrayStream, OneComing, Dark

\* It keeps StreamInv if it stops the stream and no start is left that may bring one.
LEMMA StopStep ==
    ASSUME StreamInv, StopTracks, cam.stream' = NoStream,
           \A c \in Call : ~Waits(c)'
    PROVE  StreamInv'
BY DEF StreamInv, NoStrayStream, OneComing, Dark, StopTracks

\* Or if it stops the stream because playing or drawing failed.
LEMMA FailStep ==
    ASSUME StreamInv, StopTracks, cam.stream' = NoStream,
           \A c \in Call : Waits(c)' => Waits(c),
           UNCHANGED <<hidden, destroyed>>
    PROVE  StreamInv'
BY DEF StreamInv, NoStrayStream, OneComing, Dark, StopTracks

-----------------------------------------------------------------------------

\* The initial state has neither a stream nor a start.
LEMMA StreamInit == Init => Shape /\ StreamInv
<1> SUFFICES ASSUME Init PROVE Shape /\ StreamInv
  OBVIOUS
<1>1. Shape
  BY DEF Init, Shape, Camera, Phases, CallState, Stages, NoCall
<1>2. \A c \in Call : ~Waits(c)
  BY DEF Init, Waits, NoCall
<1>3. live = {} /\ cam.stream = NoStream
  BY DEF Init
<1> QED
  BY <1>1, <1>2, <1>3 DEF StreamInv, NoStrayStream, OneComing, Dark

\* What a call that goes on in startCamera leaves behind.
LEMMA ResumeStep ==
    ASSUME Shape, NEW c \in Call, NEW k \in Camera, Resume(c, k)
    PROVE  /\ Shape'
           /\ cam.stream' = k.stream
           /\ \A d \in Call : Waits(d)' => Waits(d) /\ d # c
<1>1. cam' = k \/ cam' = [k EXCEPT !.video = TRUE]
  BY DEF Resume
<1>2. \/ calls' = [calls EXCEPT ![c] = [stage |-> "attaching", current |-> TRUE]]
      \/ calls' = [calls EXCEPT ![c] = NoCall]
  BY DEF Resume
<1>3. cam' \in Camera /\ cam'.stream = k.stream
  BY <1>1 DEF Camera
<1>4. calls' \in [Call -> CallState]
  <2>1. /\ [stage |-> "attaching", current |-> TRUE] \in CallState
        /\ NoCall \in CallState
    BY DEF CallState, Stages, NoCall
  <2> QED
    BY <1>2, <2>1 DEF Shape
<1>5. \A d \in Call : d # c => calls'[d] = calls[d]
  BY <1>2 DEF Shape
<1>6. calls'[c].stage # "asking"
  BY <1>2 DEF Shape, NoCall
<1> QED
  BY <1>3, <1>4, <1>5, <1>6 DEF Shape, Waits

\* The steps of the service and of what it waits for.
LEMMA StreamService ==
    ASSUME Shape, StreamInv, Service
    PROVE  Shape' /\ StreamInv'
<1>0. cam \in Camera /\ calls \in [Call -> CallState]
  BY DEF Shape
<1>1. ASSUME NEW c \in Call, Granted(c)
      PROVE  Shape' /\ StreamInv'
  <2> DEFINE k == [cam EXCEPT !.phase = "ready", !.active = TRUE, !.stream = c]
  <2>0. k \in Camera /\ k.stream = c
    BY <1>0 DEF Camera, Phases
  <2>1. UNCHANGED <<hidden, destroyed>>
    BY <1>1 DEF Granted
  <2>2. CASE live' = live /\ Resume(c, cam)
    <3>1. Shape' /\ cam.stream' = cam.stream /\ \A d \in Call : Waits(d)' => Waits(d)
      BY <2>2, <1>0, ResumeStep
    <3> QED
      BY <3>1, <2>1, <2>2, QuietStep
  <2>3. CASE ~destroyed /\ calls[c].current /\ live' = live \cup {c}
    <3>1. Waits(c)
      BY <1>1, <2>3 DEF Granted, Waits
    <3>2. /\ cam.stream = NoStream /\ ~hidden /\ live = {}
          /\ \A d \in Call : Waits(d) => d = c
      BY <3>1 DEF StreamInv, NoStrayStream, OneComing, Dark
    <3>3. /\ Shape' /\ cam.stream' = c
          /\ \A d \in Call : Waits(d)' => Waits(d) /\ d # c
      <4>1. CASE Resume(c, k)
        BY <4>1, <2>0, ResumeStep
      <4>2. CASE cam' = k /\ calls' = [calls EXCEPT ![c].stage = "binding"]
        <5>1. calls' \in [Call -> CallState] /\ calls'[c].stage # "asking"
          BY <4>2, <1>0 DEF CallState, Stages
        <5>2. \A d \in Call : d # c => calls'[d] = calls[d]
          BY <4>2, <1>0
        <5> QED
          BY <5>1, <5>2, <4>2, <2>0 DEF Shape, Waits
      <4> QED
        BY <4>1, <4>2, <1>1, <2>3, <2>0 DEF Granted
    <3>4. \A d \in Call : ~Waits(d)'
      BY <3>2, <3>3
    <3> QED
      BY <3>2, <3>3, <3>4, <2>1, <2>3, CameraAssumption
         DEF StreamInv, NoStrayStream, OneComing, Dark
  <2> QED
    BY <1>1, <2>2, <2>3 DEF Granted
<1>2. ASSUME NEW c \in Call, NEW phase \in {"denied", "failure"}, Refused(c, phase)
      PROVE  Shape' /\ StreamInv'
  <2>1. cam' \in Camera /\ cam'.stream = cam.stream
    BY <1>0, <1>2 DEF Refused, Camera, Phases
  <2>2. Shape' /\ \A d \in Call : Waits(d)' => Waits(d)
    BY <1>0, <1>2, <2>1 DEF Refused, Shape, Waits, NoCall, CallState, Stages
  <2> QED
    BY <2>1, <2>2, <1>2, QuietStep DEF Refused
<1>3. ASSUME NEW c \in Call, Played(c)
      PROVE  Shape' /\ StreamInv'
  <2> DEFINE starts == ~destroyed /\ calls[c].current
             k == IF ~starts THEN cam
                  ELSE [cam EXCEPT !.phase = "scanning", !.active = TRUE, !.video = TRUE,
                                   !.loop = TRUE]
  <2>0. k \in Camera /\ k.stream = cam.stream
    BY <1>0 DEF Camera, Phases
  <2>1. live' = live /\ UNCHANGED <<hidden, destroyed>>
    BY <1>3 DEF Played
  <2>2. /\ Shape' /\ cam.stream' = cam.stream
        /\ \A d \in Call : Waits(d)' => Waits(d)
    <3>1. CASE Resume(c, k)
      BY <3>1, <2>0, ResumeStep
    <3>2. CASE cam' = k /\ calls' = [calls EXCEPT ![c] = NoCall]
      BY <3>2, <2>0, <1>0 DEF Shape, Waits, NoCall, CallState, Stages
    <3> HIDE DEF k
    <3> QED
      BY <3>1, <3>2, <1>3 DEF Played, k
  <2> QED
    BY <2>1, <2>2, QuietStep
<1>4. ASSUME NEW c \in Call, PlayedForNothing(c)
      PROVE  Shape' /\ StreamInv'
  <2>1. Shape' /\ \A d \in Call : Waits(d)' => Waits(d)
    BY <1>0, <1>4 DEF PlayedForNothing, Shape, Waits, NoCall, CallState, Stages
  <2> QED
    BY <2>1, <1>4, QuietStep DEF PlayedForNothing, page
<1>5. ASSUME NEW c \in Call, PlayRefused(c)
      PROVE  Shape' /\ StreamInv'
  <2>1. cam' \in Camera /\ cam'.stream = NoStream /\ StopTracks
    BY <1>5, OffCamera DEF PlayRefused, FailAndStop, StopInternal, Phases
  <2>2. Shape' /\ \A d \in Call : Waits(d)' => Waits(d)
    BY <1>0, <1>5, <2>1 DEF PlayRefused, Shape, Waits, NoCall, CallState, Stages
  <2> QED
    BY <2>1, <2>2, <1>5, FailStep DEF PlayRefused
<1>6. ASSUME NEW f \in Frame, ReadFrame(f) \/ NothingFound(f)
      PROVE  Shape' /\ StreamInv'
  <2>1. cam' \in Camera /\ cam'.stream = cam.stream
    BY <1>0, <1>6 DEF ReadFrame, NothingFound, Camera
  <2>2. UNCHANGED <<live, calls, hidden, destroyed>>
    BY <1>6 DEF ReadFrame, NothingFound, page
  <2> QED
    BY <1>0, <2>1, <2>2, QuietStep DEF Shape, Waits
<1>7. ASSUME NEW f \in Frame, Found(f)
      PROVE  Shape' /\ StreamInv'
  <2>1. Stop
    BY <1>7 DEF Found
  <2> QED
    BY <1>0, <2>1, OffCamera, OvertakenCalls, StopStep
       DEF Stop, StopInternal, Shape, Waits, Phases
<1>8. ASSUME DrawFails
      PROVE  Shape' /\ StreamInv'
  <2>1. cam' \in Camera /\ cam'.stream = NoStream /\ StopTracks
    BY <1>8, OffCamera DEF DrawFails, FailAndStop, StopInternal, Phases
  <2>2. UNCHANGED <<calls, hidden, destroyed>>
    BY <1>8 DEF DrawFails
  <2> QED
    BY <1>0, <2>1, <2>2, FailStep DEF Shape, Waits
<1> QED
  BY <1>1, <1>2, <1>3, <1>4, <1>5, <1>6, <1>7, <1>8 DEF Service

\* The steps of the user and of the page.
LEMMA StreamUser ==
    ASSUME Shape, StreamInv, User
    PROVE  Shape' /\ StreamInv'
<1>0. cam \in Camera /\ calls \in [Call -> CallState]
  BY DEF Shape
<1>1. ASSUME NEW c \in Call, NEW video \in BOOLEAN, StartCamera(c, video)
      PROVE  Shape' /\ StreamInv'
  <2>1. cam' \in Camera /\ cam'.stream = NoStream /\ StopTracks
    BY <1>1, OffCamera DEF StartCamera, StopInternal, Phases
  <2>2. calls' = [Overtaken(calls) EXCEPT ![c] = [stage |-> "asking", current |-> TRUE]]
    BY <1>1 DEF StartCamera
  <2>3. calls' \in [Call -> CallState]
    BY <2>2, <1>0, OvertakenCalls DEF CallState, Stages
  <2>4. \A d \in Call : d # c => ~Waits(d)'
    BY <2>2, <1>0, OvertakenCalls DEF Waits
  <2>5. ~hidden' /\ ~destroyed'
    BY <1>1 DEF StartCamera
  <2> QED
    BY <2>1, <2>3, <2>4, <2>5
       DEF Shape, StreamInv, NoStrayStream, OneComing, Dark, StopTracks
<1>2. ASSUME Stop
      PROVE  Shape' /\ StreamInv'
  BY <1>0, <1>2, OffCamera, OvertakenCalls, StopStep
     DEF Stop, StopInternal, Shape, Waits, Phases
<1>3. ASSUME UNCHANGED <<cam, live, calls, destroyed>>, hidden' => hidden
      PROVE  Shape' /\ StreamInv'
  BY <1>3 DEF Shape, StreamInv, NoStrayStream, OneComing, Dark, Waits
<1>4. ASSUME StopCamera \/ HidePage \/ Dispose
      PROVE  Shape' /\ StreamInv'
  BY <1>2, <1>4 DEF StopCamera, HidePage, Dispose
<1>5. ASSUME ShowPage \/ TypeText
      PROVE  Shape' /\ StreamInv'
  BY <1>3, <1>5 DEF ShowPage, TypeText
<1>6. ASSUME NEW t \in Tabs, ChangeTab(t) \/ GoToTab(t)
      PROVE  Shape' /\ StreamInv'
  BY <1>2, <1>3, <1>6 DEF ChangeTab, GoToTab
<1>7. cam.video \in BOOLEAN
  BY <1>0 DEF Camera
<1> QED
  BY <1>1, <1>4, <1>5, <1>6, <1>7 DEF User

-----------------------------------------------------------------------------

\* StreamInv is an invariant.
LEMMA StreamInvariant == Spec => []StreamInv
<1>1. (Shape /\ StreamInv) /\ [Next]_vars => (Shape /\ StreamInv)'
  <2> SUFFICES ASSUME Shape, StreamInv, [Next]_vars PROVE Shape' /\ StreamInv'
    OBVIOUS
  <2>1. CASE Next
    BY <2>1, StreamService, StreamUser DEF Next
  <2>2. CASE UNCHANGED vars
    BY <2>2 DEF vars, page, StreamInv, Shape, NoStrayStream, OneComing, Dark, Waits
  <2> QED
    BY <2>1, <2>2
<1> QED
  BY <1>1, StreamInit, PTL DEF Spec

\* However many starts, stops and failures overlap, every live MediaStream is the one
\* the service holds and can stop.
THEOREM NothingStray == Spec => []NoStrayStream
<1>1. StreamInv => NoStrayStream
  BY DEF StreamInv
<1> QED
  BY <1>1, StreamInvariant, PTL

\* No stream runs behind a hidden page or after dispose, also when permission is
\* granted only then.
THEOREM NothingHidden == Spec => []HiddenIsOff
<1>1. StreamInv => HiddenIsOff
  BY DEF StreamInv, NoStrayStream, Dark, HiddenIsOff
<1> QED
  BY <1>1, StreamInvariant, PTL
-----------------------------------------------------------------------------
(* Type correctness.                                                        *)

\* What a camera and a call are, one field at a time.
LEMMA CameraFields ==
    ASSUME NEW k \in Camera, NEW phase \in Phases, NEW s \in Call \cup {NoStream},
           NEW b \in BOOLEAN
    PROVE  /\ [k EXCEPT !.phase = phase] \in Camera /\ [k EXCEPT !.active = b] \in Camera
           /\ [k EXCEPT !.stream = s] \in Camera /\ [k EXCEPT !.video = b] \in Camera
           /\ [k EXCEPT !.loop = b] \in Camera /\ [k EXCEPT !.inFlight = b] \in Camera
BY DEF Camera

\* The timer of a camera runs on a stream and an element, and a frame only while it does.
Sound(k) == /\ k \in Camera
            /\ k.loop => k.stream # NoStream /\ k.video
            /\ k.inFlight => k.loop

\* The rest of the type.
Around == /\ live \subseteq Call /\ frames \subseteq Frame
          /\ tab \in Tabs /\ view \in [tab : Tabs, active : BOOLEAN]
          /\ suppressed \in BOOLEAN /\ hidden \in BOOLEAN /\ destroyed \in BOOLEAN
          /\ late \in BOOLEAN /\ scans \in Nat

LEMMA TypeParts == TypeOK <=> Sound(cam) /\ calls \in [Call -> CallState] /\ Around
BY DEF TypeOK, Sound, Around

LEMMA TypeNext ==
    ASSUME Sound(cam'), calls' \in [Call -> CallState], Around' PROVE TypeOK'
BY DEF TypeOK, Sound, Around

LEMMA OffSound ==
    ASSUME NEW phase \in Phases, NEW video \in BOOLEAN PROVE Sound(Off(phase, video))
BY DEF Off, Sound, Camera

LEMMA OvertakenType ==
    ASSUME NEW cs \in [Call -> CallState] PROVE Overtaken(cs) \in [Call -> CallState]
BY OvertakenCalls

LEMMA CallTypes ==
    /\ NoCall \in CallState
    /\ \A stage \in Stages : [stage |-> stage, current |-> TRUE] \in CallState
BY DEF NoCall, CallState, Stages

LEMMA RenderedType ==
    ASSUME Around, NEW t \in Tabs, NEW k \in Camera
    PROVE  Rendered(t, k) \in [tab : Tabs, active : BOOLEAN]
BY DEF Around, Rendered, Camera

LEMMA StopType ==
    ASSUME TypeOK, Stop
    PROVE  /\ Sound(cam') /\ calls' \in [Call -> CallState] /\ live' \subseteq Call
           /\ late' \in BOOLEAN
BY OffSound, OvertakenType, TypeParts DEF Stop, StopInternal, StopTracks, Around, Phases

LEMMA ResumeType ==
    ASSUME TypeOK, NEW c \in Call, NEW k, Sound(k), Resume(c, k)
    PROVE  /\ Sound(cam') /\ calls' \in [Call -> CallState] /\ suppressed' \in BOOLEAN
           /\ view' \in [tab : Tabs, active : BOOLEAN]
<1>0. calls \in [Call -> CallState] /\ tab \in Tabs /\ k \in Camera
  BY TypeParts DEF Around, Sound
<1>1. Sound(cam')
  <2>1. CASE cam' = [k EXCEPT !.video = TRUE]
    <3>1. cam' \in Camera
      BY <1>0, <2>1, CameraFields DEF Phases
    <3> QED
      BY <1>0, <2>1, <3>1 DEF Sound, Camera
  <2> QED
    BY <2>1 DEF Resume
<1>2. calls' \in [Call -> CallState]
  BY <1>0, CallTypes DEF Resume, Stages
<1> QED
  BY <1>0, <1>1, <1>2 DEF Resume, Camera

LEMMA ServiceType ==
    ASSUME TypeOK, Service PROVE TypeOK'
<1>0. /\ Sound(cam) /\ cam \in Camera /\ calls \in [Call -> CallState] /\ Around
  BY TypeParts DEF Sound
<1>1. ASSUME NEW c \in Call, Granted(c) PROVE TypeOK'
  <2> DEFINE k == [cam EXCEPT !.phase = "ready", !.active = TRUE, !.stream = c]
  <2>1. Sound(k)
    <3>1. k = [[[cam EXCEPT !.phase = "ready"] EXCEPT !.active = TRUE] EXCEPT !.stream = c]
      BY <1>0 DEF Camera
    <3>2. k \in Camera
      BY <1>0, <3>1, CameraFields DEF Phases
    <3> QED
      BY <1>0, <3>2, CameraAssumption DEF Sound, Camera
  <2>2. /\ Sound(cam') /\ calls' \in [Call -> CallState] /\ suppressed' \in BOOLEAN
        /\ view' \in [tab : Tabs, active : BOOLEAN] /\ live' \subseteq Call
    <3>1. CASE Resume(c, cam) /\ live' = live
      BY <1>0, <3>1, ResumeType DEF Around
    <3>2. CASE Resume(c, k) /\ live' = live \cup {c}
      <4> HIDE DEF k
      <4> QED
        BY <1>0, <2>1, <3>2, ResumeType DEF Around
    <3>3. CASE /\ cam' = k /\ calls' = [calls EXCEPT ![c].stage = "binding"]
               /\ view' = Rendered(tab, k) /\ UNCHANGED suppressed /\ live' = live \cup {c}
      <4>1. calls' \in [Call -> CallState]
        BY <1>0, <3>3 DEF CallState, Stages
      <4>2. view' \in [tab : Tabs, active : BOOLEAN]
        BY <1>0, <2>1, <3>3, RenderedType DEF Sound, Around
      <4> QED
        BY <1>0, <2>1, <3>3, <4>1, <4>2 DEF Around
    <3> QED
      BY <1>1, <3>1, <3>2, <3>3 DEF Granted
  <2> QED
    BY <1>0, <1>1, <2>2, TypeNext DEF Granted, Around
<1>2. ASSUME NEW c \in Call, NEW phase \in {"denied", "failure"}, Refused(c, phase)
      PROVE  TypeOK'
  <2>1. Sound(cam')
    <3>1. cam' = [[cam EXCEPT !.phase = phase] EXCEPT !.active = FALSE]
      BY <1>0, <1>2 DEF Refused, Camera
    <3>2. cam' \in Camera
      BY <1>0, <3>1, CameraFields DEF Phases
    <3> QED
      BY <1>0, <3>1, <3>2 DEF Sound, Camera
  <2>2. calls' \in [Call -> CallState]
    BY <1>0, <1>2, CallTypes DEF Refused
  <2> QED
    BY <1>0, <1>2, <2>1, <2>2, TypeNext DEF Refused, Around
<1>3. ASSUME NEW c \in Call, Played(c) PROVE TypeOK'
  <2> DEFINE starts == ~destroyed /\ calls[c].current
             k == IF ~starts THEN cam
                  ELSE [cam EXCEPT !.phase = "scanning", !.active = TRUE, !.video = TRUE,
                                   !.loop = TRUE]
  <2>1. Sound(k)
    <3>1. CASE starts
      <4>1. k = [[[[cam EXCEPT !.phase = "scanning"] EXCEPT !.active = TRUE]
                     EXCEPT !.video = TRUE] EXCEPT !.loop = TRUE]
        BY <1>0, <3>1 DEF Camera
      <4>2. k \in Camera
        BY <1>0, <4>1, CameraFields DEF Phases
      <4>3. k.stream = cam.stream /\ k.video = TRUE /\ k.loop = TRUE
        BY <1>0, <3>1 DEF Camera
      <4>4. cam.stream # NoStream
        BY <1>3, <3>1 DEF Played
      <4> HIDE DEF k
      <4> QED
        BY <4>2, <4>3, <4>4 DEF Sound
    <3> QED
      BY <1>0, <3>1
  <2>2. /\ Sound(cam') /\ calls' \in [Call -> CallState] /\ suppressed' \in BOOLEAN
        /\ view' \in [tab : Tabs, active : BOOLEAN]
    <3>1. CASE Resume(c, k)
      <4> HIDE DEF k
      <4> QED
        BY <2>1, <3>1, ResumeType
    <3>2. CASE /\ cam' = k /\ calls' = [calls EXCEPT ![c] = NoCall]
               /\ (view' = Rendered(tab, k) \/ view' = view) /\ UNCHANGED suppressed
      <4>1. view' \in [tab : Tabs, active : BOOLEAN]
        <5> HIDE DEF k
        <5> QED
          BY <1>0, <2>1, <3>2, RenderedType DEF Sound, Around
      <4>2. calls' \in [Call -> CallState]
        BY <1>0, <3>2, CallTypes
      <4> HIDE DEF k
      <4> QED
        BY <1>0, <2>1, <3>2, <4>1, <4>2 DEF Around
    <3> HIDE DEF k
    <3> QED
      BY <1>3, <3>1, <3>2 DEF Played, k
  <2> HIDE DEF k
  <2> QED
    BY <1>0, <1>3, <2>2, TypeNext DEF Played, Around
<1>4. ASSUME NEW c \in Call, PlayedForNothing(c) PROVE TypeOK'
  BY <1>0, <1>4, CallTypes, TypeNext DEF PlayedForNothing, page, Around
<1>5. ASSUME NEW c \in Call, PlayRefused(c) PROVE TypeOK'
  <2>1. Sound(cam') /\ live' \subseteq Call
    BY <1>0, <1>5, OffSound DEF PlayRefused, FailAndStop, StopInternal, StopTracks, Around, Phases
  <2>2. calls' \in [Call -> CallState]
    BY <1>0, <1>5, CallTypes DEF PlayRefused
  <2>3. view' \in [tab : Tabs, active : BOOLEAN]
    <3>1. Rendered(tab, Off("failure", FALSE)) \in [tab : Tabs, active : BOOLEAN]
      BY <1>0, OffSound, RenderedType DEF Around, Sound, Phases
    <3>2. [tab |-> tab, active |-> FALSE] \in [tab : Tabs, active : BOOLEAN]
      BY <1>0 DEF Around
    <3> QED
      BY <1>5, <3>1, <3>2 DEF PlayRefused
  <2> QED
    BY <1>0, <1>5, <2>1, <2>2, <2>3, TypeNext DEF PlayRefused, Around
<1>6. ASSUME NEW f \in Frame, ReadFrame(f) \/ NothingFound(f) PROVE TypeOK'
  <2>1. Sound(cam')
    <3>1. PICK b \in BOOLEAN : cam' = [cam EXCEPT !.inFlight = b] /\ (b => cam.loop)
      BY <1>6 DEF ReadFrame, NothingFound, MayScan
    <3>2. cam' \in Camera
      BY <1>0, <3>1 DEF Camera
    <3> QED
      BY <1>0, <3>1, <3>2 DEF Sound, Camera
  <2>2. UNCHANGED <<live, calls, page, scans, late>> /\ frames' \subseteq Frame
    BY <1>0, <1>6 DEF ReadFrame, NothingFound, Around
  <2> QED
    BY <1>0, <2>1, <2>2, TypeNext DEF page, Around
<1>7. ASSUME NEW f \in Frame, Found(f) PROVE TypeOK'
  <2>1. /\ Sound(cam') /\ calls' \in [Call -> CallState] /\ live' \subseteq Call
        /\ late' \in BOOLEAN
    BY <1>7, StopType DEF Found
  <2>2. view' \in [tab : Tabs, active : BOOLEAN]
    BY <1>0, <1>7, OffSound, RenderedType DEF Found, Around, Sound, Phases
  <2> QED
    <3>1. scans' \in Nat
      BY <1>0, <1>7 DEF Found, Around
    <3> QED
      BY <1>0, <1>7, <2>1, <2>2, <3>1, TypeNext DEF Found, Around
<1>8. ASSUME DrawFails PROVE TypeOK'
  <2>1. Sound(cam') /\ live' \subseteq Call
    BY <1>0, <1>8, OffSound DEF DrawFails, FailAndStop, StopInternal, StopTracks, Around, Phases
  <2>2. view' \in [tab : Tabs, active : BOOLEAN]
    BY <1>0, <1>8, OffSound, RenderedType DEF DrawFails, Around, Sound, Phases
  <2> QED
    BY <1>0, <1>8, <2>1, <2>2, TypeNext DEF DrawFails, Around
<1> QED
  BY <1>1, <1>2, <1>3, <1>4, <1>5, <1>6, <1>7, <1>8 DEF Service

LEMMA UserType ==
    ASSUME TypeOK, User PROVE TypeOK'
<1>0. /\ Sound(cam) /\ cam \in Camera /\ calls \in [Call -> CallState] /\ Around
  BY TypeParts DEF Sound
<1>1. ASSUME NEW c \in Call, NEW video \in BOOLEAN, StartCamera(c, video) PROVE TypeOK'
  <2>1. Sound(cam') /\ live' \subseteq Call
    BY <1>0, <1>1, OffSound DEF StartCamera, StopInternal, StopTracks, Around, Phases
  <2>2. calls' \in [Call -> CallState]
    BY <1>0, <1>1, OvertakenType, CallTypes DEF StartCamera, Stages
  <2> QED
    BY <1>0, <1>1, <2>1, <2>2, TypeNext DEF StartCamera, Around
<1>2. ASSUME Stop, NEW t \in Tabs, view' = Rendered(t, Off("idle", FALSE)), tab' \in Tabs,
             hidden' \in BOOLEAN, destroyed' \in BOOLEAN, UNCHANGED <<frames, suppressed, scans>>
      PROVE  TypeOK'
  <2>1. /\ Sound(cam') /\ calls' \in [Call -> CallState] /\ live' \subseteq Call
        /\ late' \in BOOLEAN
    BY <1>2, StopType
  <2>2. view' \in [tab : Tabs, active : BOOLEAN]
    BY <1>0, <1>2, OffSound, RenderedType DEF Sound, Phases
  <2> QED
    BY <1>0, <1>2, <2>1, <2>2, TypeNext DEF Around
<1>3. CASE StopCamera \/ HidePage \/ Dispose
  BY <1>0, <1>2, <1>3 DEF StopCamera, HidePage, Dispose, Around
<1>4. CASE ShowPage \/ TypeText
  BY <1>0, <1>4, TypeNext DEF ShowPage, TypeText, Around
<1>5. ASSUME NEW t \in Tabs, ChangeTab(t) \/ GoToTab(t) PROVE TypeOK'
  <2>1. CASE Stop /\ view' = Rendered(t, Off("idle", FALSE))
    <3>1. /\ tab' = t /\ UNCHANGED <<frames, suppressed, hidden, destroyed, scans>>
          /\ hidden \in BOOLEAN /\ destroyed \in BOOLEAN
      BY <1>0, <1>5 DEF ChangeTab, GoToTab, Around
    <3> QED
      BY <1>2, <2>1, <3>1
  <2>2. CASE view' = Rendered(t, cam) /\ UNCHANGED <<cam, live, calls, late>>
    BY <1>0, <1>5, <2>2, RenderedType, TypeNext DEF ChangeTab, GoToTab, Around
  <2> QED
    BY <1>5, <2>1, <2>2 DEF ChangeTab, GoToTab
<1>6. cam.video \in BOOLEAN
  BY <1>0 DEF Camera
<1> QED
  BY <1>1, <1>3, <1>4, <1>5, <1>6 DEF User

\* The camera service is well formed in every state: in particular its timer runs only on
\* a stream with an element to read from, and a frame is in flight only while it runs.
THEOREM TypeCorrect == Spec => []TypeOK
<1>1. Init => TypeOK
  <2> SUFFICES ASSUME Init PROVE TypeOK
    OBVIOUS
  <2>1. Sound(cam)
    BY DEF Init, Sound, Camera, Phases
  <2>2. calls \in [Call -> CallState]
    BY CallTypes DEF Init
  <2>3. Around
    BY DEF Init, Around, Tabs
  <2> QED
    BY <2>1, <2>2, <2>3, TypeParts
<1>2. TypeOK /\ [Next]_vars => TypeOK'
  <2>1. TypeOK /\ UNCHANGED vars => TypeOK'
    BY DEF TypeOK, vars, page
  <2> QED
    BY <2>1, ServiceType, UserType DEF Next
<1> QED
  BY <1>1, <1>2, PTL DEF Spec

-----------------------------------------------------------------------------
(* One code per start.                                                      *)

\* Once a start has reported a code the camera is off, and no call is left that could
\* turn it on: not even an overtaken one, which attaches the element of a running camera.
Reported == /\ cam.phase # "scanning" /\ ~cam.active
            /\ \A c \in Call : ~calls[c].current

ScanInv == OneScanPerStart /\ (scans > 0 => Reported)

LEMMA OffReports ==
    ASSUME TypeOK, Stop PROVE Reported'
BY OvertakenCalls DEF TypeOK, Stop, StopInternal, Off, Reported

LEMMA ResumeReported ==
    ASSUME TypeOK, Reported, NEW c \in Call, Resume(c, cam) PROVE Reported'
BY DEF TypeOK, Reported, Resume, NoCall

LEMMA ScanStep ==
    ASSUME TypeOK, ScanInv, [Next]_vars PROVE ScanInv'
<1>0. calls \in [Call -> CallState] /\ scans \in Nat /\ cam \in Camera
  BY DEF TypeOK
<1>1. ASSUME scans' = scans, Reported => Reported' PROVE ScanInv'
  BY <1>1 DEF ScanInv, OneScanPerStart
<1>2. ASSUME Stop, scans' = scans PROVE ScanInv'
  BY <1>1, <1>2, OffReports
<1>3. ASSUME NEW c \in Call, Granted(c) PROVE ScanInv'
  BY <1>1, <1>3, ResumeReported DEF Granted, Reported
<1>4. ASSUME NEW c \in Call, NEW phase \in {"denied", "failure"}, Refused(c, phase)
      PROVE ScanInv'
  BY <1>0, <1>1, <1>4 DEF Refused, Reported, Camera, NoCall
<1>5. ASSUME NEW c \in Call, Played(c) PROVE ScanInv'
  <2>1. ASSUME Reported PROVE Reported'
    <3>1. \/ Resume(c, cam)
          \/ cam' = cam /\ calls' = [calls EXCEPT ![c] = NoCall]
      BY <1>5, <2>1 DEF Played, Reported
    <3> QED
      BY <1>0, <2>1, <3>1, ResumeReported DEF Reported, NoCall
  <2> QED
    BY <1>1, <1>5, <2>1 DEF Played
<1>6. ASSUME NEW c \in Call, PlayedForNothing(c) \/ PlayRefused(c) PROVE ScanInv'
  BY <1>0, <1>1, <1>6
     DEF PlayedForNothing, PlayRefused, FailAndStop, StopInternal, Off, Reported, NoCall
<1>7. ASSUME NEW f \in Frame, ReadFrame(f) \/ NothingFound(f) PROVE ScanInv'
  BY <1>0, <1>1, <1>7 DEF ReadFrame, NothingFound, Reported, Camera
<1>8. ASSUME NEW f \in Frame, Found(f) PROVE ScanInv'
  <2>1. scans = 0
    BY <1>0, <1>8 DEF Found, ScanInv, Reported
  <2> QED
    BY <1>8, <2>1, OffReports DEF Found, ScanInv, OneScanPerStart
<1>9. CASE DrawFails
  BY <1>0, <1>1, <1>9 DEF DrawFails, FailAndStop, StopInternal, Off, Reported
<1>10. ASSUME NEW c \in Call, NEW video, StartCamera(c, video) PROVE ScanInv'
  BY <1>10 DEF StartCamera, ScanInv, OneScanPerStart
<1>11. CASE StopCamera \/ HidePage \/ Dispose
  BY <1>2, <1>11 DEF StopCamera, HidePage, Dispose
<1>12. CASE ShowPage \/ TypeText
  BY <1>1, <1>12 DEF ShowPage, TypeText, Reported
<1>13. ASSUME NEW t \in Tabs, ChangeTab(t) \/ GoToTab(t) PROVE ScanInv'
  BY <1>1, <1>2, <1>13 DEF ChangeTab, GoToTab, Reported
<1>14. CASE UNCHANGED vars
  BY <1>1, <1>14 DEF vars, page, Reported
<1> QED
  BY <1>3, <1>4, <1>5, <1>6, <1>7, <1>8, <1>9, <1>10, <1>11, <1>12, <1>13, <1>14
     DEF Next, Service, User

\* A start reports at most one code, whatever overlaps, however many frames are still
\* being decoded when the first one has it.
THEOREM ReportsOnce == Spec => []OneScanPerStart
<1>1. Init => ScanInv
  BY DEF Init, ScanInv, OneScanPerStart
<1>2. ScanInv => OneScanPerStart
  BY DEF ScanInv
<1> QED
  BY <1>1, <1>2, TypeCorrect, ScanStep, PTL DEF Spec
-----------------------------------------------------------------------------
(* Rendering.                                                               *)

\* While rendering is suppressed the newest start is the only one with a current token, is
\* still on its way to allow rendering again, and has its stream unless that is excused.
Thawing ==
    /\ ~late => \E c \in Call : calls[c].stage \in {"asking", "binding"}
    /\ \A c \in Call : calls[c].current => calls[c].stage \in {"asking", "binding"}
    /\ \A c, d \in Call : calls[c].current /\ calls[d].current => c = d
    /\ \A c \in Call : calls[c].current /\ calls[c].stage = "binding" =>
          cam.phase # "scanning" /\ (cam.stream = NoStream => late)

FrozenInv == suppressed => Thawing

LEMMA FrozenStep ==
    ASSUME TypeOK, FrozenInv, [Next]_vars PROVE FrozenInv'
<1>0. calls \in [Call -> CallState] /\ cam \in Camera
  BY DEF TypeOK
<1>1. ASSUME ~suppressed' PROVE FrozenInv'
  BY <1>1 DEF FrozenInv
<1>2. ASSUME NEW c \in Call, NEW k, Resume(c, k) PROVE FrozenInv'
  BY <1>1, <1>2 DEF Resume
<1>3. ASSUME suppressed' = suppressed, Thawing => Thawing' PROVE FrozenInv'
  BY <1>3 DEF FrozenInv
<1>4. ASSUME Stop, suppressed' = suppressed PROVE FrozenInv'
  <2>1. calls' = Overtaken(calls) /\ late' = late
    BY <1>4 DEF Stop
  <2>2. \A c \in Call : calls'[c].stage = calls[c].stage /\ ~calls'[c].current
    BY <1>0, <2>1 DEF Overtaken, CallState
  <2> QED
    BY <1>3, <1>4, <2>1, <2>2 DEF Thawing
<1>5. ASSUME NEW c \in Call, Granted(c) PROVE FrozenInv'
  <2>1. CASE /\ ~destroyed /\ calls[c].current /\ calls[c].stage = "asking"
             /\ cam' = [cam EXCEPT !.phase = "ready", !.active = TRUE, !.stream = c]
             /\ calls' = [calls EXCEPT ![c].stage = "binding"]
             /\ UNCHANGED <<suppressed, late>>
    <3>1. cam'.phase = "ready" /\ cam'.stream # NoStream
      BY <1>0, <2>1, CameraAssumption DEF Camera
    <3>2. /\ calls'[c].stage = "binding" /\ calls'[c].current = calls[c].current
          /\ \A d \in Call \ {c} : calls'[d] = calls[d]
      BY <1>0, <2>1 DEF CallState
    <3> QED
      BY <1>3, <2>1, <3>1, <3>2 DEF Thawing
  <2> QED
    BY <1>2, <1>5, <2>1 DEF Granted
<1>6. ASSUME NEW c \in Call, NEW phase \in {"denied", "failure"}, Refused(c, phase)
      PROVE FrozenInv'
  BY <1>1, <1>6 DEF Refused
<1>7. ASSUME NEW c \in Call, Played(c) PROVE FrozenInv'
  <2>1. CASE calls[c].stage = "binding"
    BY <1>2, <1>7, <2>1 DEF Played
  <2>2. CASE calls[c].stage = "attaching"
    <3>1. ASSUME Thawing PROVE Thawing'
      <4>1. cam' = cam /\ calls' = [calls EXCEPT ![c] = NoCall] /\ UNCHANGED late
        BY <1>7, <2>2, <3>1 DEF Played, Thawing
      <4> QED
        BY <1>0, <2>2, <3>1, <4>1 DEF Thawing, NoCall
    <3> QED
      BY <1>3, <1>7, <2>2, <3>1 DEF Played
  <2> QED
    BY <1>7, <2>1, <2>2 DEF Played, Playing
<1>8. ASSUME NEW c \in Call, PlayedForNothing(c) PROVE FrozenInv'
  BY <1>0, <1>3, <1>8 DEF PlayedForNothing, page, Thawing, NoCall, Playing
<1>9. ASSUME NEW c \in Call, PlayRefused(c) PROVE FrozenInv'
  <2>1. CASE calls[c].stage = "binding"
    BY <1>1, <1>9, <2>1 DEF PlayRefused
  <2>2. CASE calls[c].stage = "attaching"
    <3>1. /\ cam'.phase = "failure" /\ calls' = [calls EXCEPT ![c] = NoCall]
          /\ late' = (late \/ (~calls[c].current /\ cam.stream # NoStream))
          /\ UNCHANGED suppressed
      BY <1>9, <2>2 DEF PlayRefused, FailAndStop, StopInternal, Off
    <3> QED
      BY <1>0, <1>3, <2>2, <3>1 DEF Thawing, NoCall
  <2> QED
    BY <1>9, <2>1, <2>2 DEF PlayRefused, Playing
<1>10. ASSUME NEW f \in Frame, ReadFrame(f) \/ NothingFound(f) PROVE FrozenInv'
  <2>1. cam'.phase = cam.phase /\ cam'.stream = cam.stream
    BY <1>0, <1>10 DEF ReadFrame, NothingFound, Camera
  <2> QED
    BY <1>3, <1>10, <2>1 DEF ReadFrame, NothingFound, page, Thawing
<1>11. ASSUME NEW f \in Frame, Found(f) PROVE FrozenInv'
  BY <1>4, <1>11 DEF Found
<1>12. CASE DrawFails
  BY <1>3, <1>12 DEF DrawFails, MayScan, FailAndStop, StopInternal, Off, Thawing
<1>13. ASSUME NEW c \in Call, NEW video, StartCamera(c, video) PROVE FrozenInv'
  <2>1. /\ calls' = [Overtaken(calls) EXCEPT ![c] = [stage |-> "asking", current |-> TRUE]]
        /\ Overtaken(calls) \in [Call -> CallState]
        /\ \A d \in Call : ~Overtaken(calls)[d].current
    BY <1>0, <1>13, OvertakenCalls DEF StartCamera
  <2>2. /\ calls'[c].stage = "asking"
        /\ \A d \in Call : calls'[d].current => d = c
    BY <2>1
  <2> QED
    BY <2>2 DEF FrozenInv, Thawing
<1>14. CASE StopCamera \/ HidePage \/ Dispose
  BY <1>4, <1>14 DEF StopCamera, HidePage, Dispose
<1>15. CASE ShowPage \/ TypeText
  BY <1>1, <1>3, <1>15 DEF ShowPage, TypeText, Thawing
<1>16. ASSUME NEW t \in Tabs, ChangeTab(t) \/ GoToTab(t) PROVE FrozenInv'
  <2>1. suppressed' = suppressed /\ (Stop \/ UNCHANGED <<cam, calls, late>>)
    BY <1>16 DEF ChangeTab, GoToTab
  <2>2. CASE UNCHANGED <<cam, calls, late>>
    BY <1>3, <2>1, <2>2 DEF Thawing
  <2> QED
    BY <1>4, <2>1, <2>2
<1>17. CASE UNCHANGED vars
  BY <1>3, <1>17 DEF vars, page, Thawing
<1> QED
  BY <1>5, <1>6, <1>7, <1>8, <1>9, <1>10, <1>11, <1>12, <1>13, <1>14, <1>15, <1>16, <1>17
     DEF Next, Service, User

\* The page is never left frozen: while rendering is suppressed some start is still going
\* to allow it again, unless an overtaken start's failure took the newer one's stream.
THEOREM Thaws == Spec => []NeverFrozen
<1>1. Init => FrozenInv
  BY DEF Init, FrozenInv
<1>2. FrozenInv => NeverFrozen
  BY DEF FrozenInv, Thawing, NeverFrozen
<1> QED
  BY <1>1, <1>2, TypeCorrect, FrozenStep, PTL DEF Spec

=============================================================================
