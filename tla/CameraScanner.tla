--------------------------- MODULE CameraScanner ----------------------------
(***************************************************************************)
(* The camera of the scan tab: CameraScannerService and the part of         *)
(* RewriteAppController that starts it, shows it and leaves its tab.        *)
(*                                                                          *)
(* getUserMedia, video.play and the decoding of a frame are awaited, and    *)
(* anything may happen meanwhile: another start, a stop, another tab, a     *)
(* hidden page.  sessionToken is only ever compared with the current one,   *)
(* so a call keeps whether its token is still current.                      *)
(***************************************************************************)
EXTENDS Naturals

CONSTANTS
    Call,       \* calls of startCamera that may be under way at once
    Frame,      \* frames that may be in decoding at once
    NoStream    \* stream = null

ASSUME CameraAssumption == NoStream \notin Call

VARIABLES
    cam,         \* CameraScannerService, its snapshot included
    live,        \* the camera itself: calls whose MediaStream still has live tracks
    calls,       \* the calls of startCamera
    frames,      \* frames being decoded
    tab,         \* activeTab
    view,        \* what the page shows since its last render
    suppressed,  \* renderSuppressed
    hidden,      \* document.hidden
    destroyed,   \* the controller was disposed of
    scans,       \* history: codes reported since the last start
    late         \* history: since the last start, an overtaken one failed and hit a newer stream

page == <<tab, view, suppressed, hidden, destroyed>>
vars == <<cam, live, calls, frames, page, scans, late>>

Phases == {"idle", "requestingPermission", "ready", "scanning", "denied", "failure"}
Tabs == {"scan", "other"}

\* snapshot.phase and activeStream; stream and videoElement; the timer; inFlight.
Camera == [phase : Phases, active : BOOLEAN, stream : Call \cup {NoStream},
           video : BOOLEAN, loop : BOOLEAN, inFlight : BOOLEAN]

\* Where a call awaits: getUserMedia, play() inside start, or play() of the element
\* that startCamera attaches afterwards.
Stages == {"none", "asking", "binding", "attaching"}
CallState == [stage : Stages, current : BOOLEAN]
NoCall == [stage |-> "none", current |-> FALSE]

Init ==
    /\ cam = [phase |-> "idle", active |-> FALSE, stream |-> NoStream, video |-> FALSE,
              loop |-> FALSE, inFlight |-> FALSE]
    /\ live = {}
    /\ calls = [c \in Call |-> NoCall]
    /\ frames = {}
    /\ tab = "scan"
    /\ view = [tab |-> "scan", active |-> FALSE]
    /\ suppressed = FALSE /\ hidden = FALSE /\ destroyed = FALSE
    /\ scans = 0
    /\ late = FALSE

-----------------------------------------------------------------------------
(* Pieces of the handlers.                                                  *)

TimerGoesOn(phase, video) ==                                          \* mutant
    [cam EXCEPT !.phase = phase, !.active = FALSE, !.stream = NoStream,
                !.video = video, !.inFlight = FALSE]

\* stopInternal; failAndStop differs in the phase.
Off(phase, video) == [phase |-> phase, active |-> FALSE, stream |-> NoStream,
                      video |-> video, loop |-> FALSE, inFlight |-> FALSE]

ForgetsToken(cs) == cs                                               \* mutant

\* sessionToken += 1
Overtaken(cs) == [c \in Call |-> [cs[c] EXCEPT !.current = FALSE]]

\* patch renders unless told not to; the page is rendered for tab t and camera k.
Rendered(t, k) == IF suppressed THEN view ELSE [tab |-> t, active |-> k.active]

\* The tracks of the stream the service holds are stopped, and no other.
StopTracks == live' = live \ {cam.stream}

StopInternal(phase, video) == /\ cam' = Off(phase, video)
                              /\ StopTracks

\* stop()
Stop == /\ StopInternal("idle", FALSE)
        /\ calls' = Overtaken(calls)
        /\ UNCHANGED late

\* failAndStop, which leaves sessionToken alone.
FailAndStop == StopInternal("failure", FALSE)

\* The call goes on in startCamera: it renders and attaches the video element, if the
\* page has one.  An element that is being scanned already is left as it is, unless
\* the page has a new one.
Resume(c, k) ==
    /\ suppressed' = FALSE
    /\ view' = [tab |-> tab, active |-> k.active]
    /\ \/ /\ tab = "scan" /\ k.active
          /\ cam' = [k EXCEPT !.video = TRUE]
          /\ calls' = [calls EXCEPT ![c] = [stage |-> "attaching", current |-> TRUE]]
       \/ /\ tab # "scan" \/ ~k.active \/ k.phase = "scanning"
          /\ cam' = k
          /\ calls' = [calls EXCEPT ![c] = NoCall]

-----------------------------------------------------------------------------
(* Starting.                                                                *)

\* A tap on the scanner, "Retry camera" or "Scan next", which stops first: start() up
\* to its await.  The page offers them while it does not show a running camera.
StartCamera(c, video) ==
    /\ view.tab = "scan" /\ ~view.active /\ ~hidden /\ ~destroyed
    /\ calls[c].stage = "none"
    /\ StopInternal("requestingPermission", video)
    /\ calls' = [Overtaken(calls) EXCEPT ![c] = [stage |-> "asking", current |-> TRUE]]
    /\ suppressed' = TRUE
    /\ scans' = 0
    /\ late' = FALSE
    /\ UNCHANGED <<frames, tab, view, hidden, destroyed>>

GrantedAnyway(c) ==                                                  \* mutant
    /\ calls[c].stage = "asking"
    /\ LET k == [cam EXCEPT !.phase = "ready", !.active = TRUE, !.stream = c]
       IN  live' = live \cup {c} /\ Resume(c, k)
    /\ UNCHANGED <<frames, tab, hidden, destroyed, scans, late>>

\* getUserMedia has a stream; start() stops it at once if the call was overtaken.
Granted(c) ==
    /\ calls[c].stage = "asking"
    /\ LET k == [cam EXCEPT !.phase = "ready", !.active = TRUE, !.stream = c]
       IN  \/ /\ destroyed \/ ~calls[c].current
              /\ live' = live
              /\ Resume(c, cam)
           \/ /\ ~destroyed /\ calls[c].current
              /\ live' = live \cup {c}
              /\ \/ ~cam.video /\ Resume(c, k)
                 \/ /\ cam.video
                    /\ cam' = k
                    /\ calls' = [calls EXCEPT ![c].stage = "binding"]
                    /\ view' = Rendered(tab, k)
                    /\ UNCHANGED suppressed
    /\ UNCHANGED <<frames, tab, hidden, destroyed, scans, late>>

StaysSuppressed(c, phase) ==                                         \* mutant
    /\ calls[c].stage = "asking"
    /\ cam' = [cam EXCEPT !.phase = phase, !.active = FALSE]
    /\ late' = (late \/ cam.stream # NoStream)
    /\ view' = [tab |-> tab, active |-> FALSE]
    /\ calls' = [calls EXCEPT ![c] = NoCall]
    /\ UNCHANGED <<live, frames, tab, suppressed, hidden, destroyed, scans>>

\* getUserMedia failed; its catch does not look at the token.
Refused(c, phase) ==
    /\ calls[c].stage = "asking"
    /\ cam' = [cam EXCEPT !.phase = phase, !.active = FALSE]
    /\ late' = (late \/ cam.stream # NoStream)
    /\ suppressed' = FALSE
    /\ view' = [tab |-> tab, active |-> FALSE]
    /\ calls' = [calls EXCEPT ![c] = NoCall]
    /\ UNCHANGED <<live, frames, tab, hidden, destroyed, scans>>

Playing(c) == calls[c].stage \in {"binding", "attaching"}

\* play() resolved, or was aborted because the element plays by itself.
Played(c) ==
    /\ Playing(c)
    /\ LET starts == ~destroyed /\ calls[c].current
           k == IF ~starts THEN cam
                ELSE [cam EXCEPT !.phase = "scanning", !.active = TRUE, !.video = TRUE,
                                 !.loop = TRUE]
       IN  /\ starts => cam.stream # NoStream
           /\ \/ calls[c].stage = "binding" /\ Resume(c, k)
              \/ /\ calls[c].stage = "attaching"
                 /\ cam' = k
                 /\ calls' = [calls EXCEPT ![c] = NoCall]
                 /\ view' = IF starts THEN Rendered(tab, k) ELSE view
                 /\ UNCHANGED suppressed
    /\ UNCHANGED <<live, frames, tab, hidden, destroyed, scans, late>>

\* The same when the stream went with another failure: reading its track throws, and
\* startCamera ends there.
PlayedForNothing(c) ==
    /\ Playing(c) /\ ~destroyed /\ calls[c].current
    /\ cam.stream = NoStream
    /\ calls' = [calls EXCEPT ![c] = NoCall]
    /\ UNCHANGED <<cam, live, frames, page, scans, late>>

\* play() rejected; nor does this look at the token.
PlayRefused(c) ==
    /\ Playing(c)
    /\ FailAndStop
    /\ late' = (late \/ (~calls[c].current /\ cam.stream # NoStream))
    /\ calls' = [calls EXCEPT ![c] = NoCall]
    /\ \/ /\ calls[c].stage = "binding"
          /\ suppressed' = FALSE
          /\ view' = [tab |-> tab, active |-> FALSE]
       \/ /\ calls[c].stage = "attaching"
          /\ view' = Rendered(tab, Off("failure", FALSE))
          /\ UNCHANGED suppressed
    /\ UNCHANGED <<frames, tab, hidden, destroyed, scans>>

-----------------------------------------------------------------------------
(* Scanning.                                                                *)

\* What scanFrame asks for when the timer fires.
MayScan == /\ cam.loop /\ ~destroyed
           /\ ~cam.inFlight /\ cam.stream # NoStream /\ cam.video /\ cam.phase = "scanning"

\* scanFrame up to its await.
ReadFrame(f) ==
    /\ MayScan
    /\ f \notin frames
    /\ frames' = frames \cup {f}
    /\ cam' = [cam EXCEPT !.inFlight = TRUE]
    /\ UNCHANGED <<live, calls, page, scans, late>>

\* No canvas, or the frame cannot be drawn.
DrawFails ==
    /\ MayScan
    /\ FailAndStop
    /\ view' = Rendered(tab, Off("failure", FALSE))
    /\ UNCHANGED <<calls, frames, tab, suppressed, hidden, destroyed, scans, late>>

\* The frame has no code, or nobody waits for it any more.
NothingFound(f) ==
    /\ f \in frames
    /\ frames' = frames \ {f}
    /\ cam' = [cam EXCEPT !.inFlight = FALSE]
    /\ UNCHANGED <<live, calls, page, scans, late>>

FoundAnyway(f) ==                                                    \* mutant
    /\ f \in frames
    /\ ~destroyed
    /\ frames' = frames \ {f}
    /\ Stop
    /\ view' = Rendered(tab, Off("idle", FALSE))
    /\ scans' = scans + 1
    /\ UNCHANGED <<tab, suppressed, hidden, destroyed>>

\* acceptCode: the camera stops and the code is reported.
Found(f) ==
    /\ f \in frames
    /\ ~destroyed /\ cam.phase = "scanning"
    /\ frames' = frames \ {f}
    /\ Stop
    /\ view' = Rendered(tab, Off("idle", FALSE))
    /\ scans' = scans + 1
    /\ UNCHANGED <<tab, suppressed, hidden, destroyed>>

-----------------------------------------------------------------------------
(* The user and the page.                                                   *)

\* "Stop camera", "Scan next" of a typed code, logging out.
StopCamera ==
    /\ ~destroyed
    /\ Stop
    /\ view' = Rendered(tab, Off("idle", FALSE))
    /\ UNCHANGED <<frames, tab, suppressed, hidden, destroyed, scans>>

\* visibilitychange
HidePage ==
    /\ ~hidden /\ ~destroyed
    /\ hidden' = TRUE
    /\ Stop
    /\ view' = Rendered(tab, Off("idle", FALSE))
    /\ UNCHANGED <<frames, tab, suppressed, destroyed, scans>>

ShowPage ==
    /\ hidden
    /\ hidden' = FALSE
    /\ UNCHANGED <<cam, live, calls, frames, tab, view, suppressed, destroyed, scans, late>>

\* A click on a tab.
ChangeTab(t) ==
    /\ t # tab /\ ~hidden /\ ~destroyed
    /\ tab' = t
    /\ \/ /\ t # "scan" /\ cam.active
          /\ Stop
          /\ view' = Rendered(t, Off("idle", FALSE))
       \/ /\ t = "scan" \/ ~cam.active
          /\ view' = Rendered(t, cam)
          /\ UNCHANGED <<cam, live, calls, late>>
    /\ UNCHANGED <<frames, suppressed, hidden, destroyed, scans>>

\* Another tab by arrow key or by the browser's history, or back to the scan tab to
\* correct a code.
GoToTab(t) ==
    /\ t # tab /\ ~hidden /\ ~destroyed
    /\ tab' = t
    /\ view' = Rendered(t, cam)
    /\ UNCHANGED <<cam, live, calls, frames, suppressed, hidden, destroyed, scans, late>>

\* Text typed into a form: handleInput suppresses and allows renders again.
TypeText ==
    /\ ~hidden /\ ~destroyed
    /\ suppressed' = FALSE
    /\ UNCHANGED <<cam, live, calls, frames, tab, view, hidden, destroyed, scans, late>>

\* dispose and destroy
Dispose ==
    /\ ~destroyed
    /\ destroyed' = TRUE
    /\ Stop
    /\ view' = Rendered(tab, Off("idle", FALSE))
    /\ UNCHANGED <<frames, tab, suppressed, hidden, scans>>

-----------------------------------------------------------------------------
Service ==
    \/ \E c \in Call :
          \/ Granted(c)
          \/ \E phase \in {"denied", "failure"} : Refused(c, phase)
          \/ Played(c) \/ PlayedForNothing(c) \/ PlayRefused(c)
    \/ \E f \in Frame : ReadFrame(f) \/ NothingFound(f) \/ Found(f)
    \/ DrawFails

User ==
    \/ \E c \in Call, video \in {cam.video, FALSE} : StartCamera(c, video)
    \/ StopCamera \/ HidePage \/ ShowPage \/ TypeText \/ Dispose
    \/ \E t \in Tabs : ChangeTab(t) \/ GoToTab(t)

Next == Service \/ User

Spec == Init /\ [][Next]_vars

-----------------------------------------------------------------------------
(* Properties.                                                              *)

\* The type, and: the timer runs only on a stream with a video element to read, and a
\* frame is in flight only while it runs.
TypeOK ==
    /\ cam \in Camera
    /\ cam.loop => cam.stream # NoStream /\ cam.video
    /\ cam.inFlight => cam.loop
    /\ live \subseteq Call
    /\ calls \in [Call -> CallState]
    /\ frames \subseteq Frame
    /\ tab \in Tabs
    /\ view \in [tab : Tabs, active : BOOLEAN]
    /\ {suppressed, hidden, destroyed, late} \subseteq BOOLEAN
    /\ scans \in Nat

\* However starts and stops overlap, no stream is left running that the service has
\* lost sight of and could never stop.
NoStrayStream == live = {cam.stream} \ {NoStream}

\* The camera never runs behind a hidden page or after the controller is gone, also
\* when the permission is granted only then.
HiddenIsOff == hidden \/ destroyed => live = {}

\* A start reports one code at most, also while frames of an earlier one are still
\* being decoded.
OneScanPerStart == scans <= 1

\* Rendering is suppressed only while some start is under way, so the page never
\* freezes.  Excused is the failure of an overtaken start that comes after a newer start
\* has its stream: the newer start then ends with an exception.
NeverFrozen == suppressed /\ ~late => \E c \in Call : calls[c].stage \in {"asking", "binding"}

=============================================================================
