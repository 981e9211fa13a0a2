---------------------------- MODULE LocalCamera ----------------------------
(***************************************************************************)
(* A camera of the computer on a Mac: the stream's source                  *)
(* (src/videolib/stream_local.cpp) calls a library                         *)
(* (src/localVideoLib/srcMac/localVideo.cpp) that starts a server process  *)
(* (localVideoServer.cpp), in which a callback of the system fills the     *)
(* frame buffer (localCapture.mm).  Requests and answers go through two    *)
(* pipes, parameters, results and pixels through a shared file.            *)
(*                                                                         *)
(* Either process may die at any time.  The library's globals are used by  *)
(* one stream, and its calls are made one after the other.  Its process    *)
(* ignores SIGPIPE, as the Python interpreter does that loads it.          *)
(***************************************************************************)
EXTENDS Integers, Sequences, FiniteSets

CONSTANTS
  MaxFrames,     \* bound: frames the camera takes
  MaxOpens,      \* bound: calls to open
  MaxTries,      \* 5000 ms of attempts, 10 ms apart
  MaxAttempts,   \* kMaxGrabAttempts
  SkippedFrames  \* framesToSkip

ASSUME LocalCameraAssumption ==
  {MaxFrames, MaxOpens, MaxTries, MaxAttempts, SkippedFrames} \subseteq Nat

Torn == -1
NoFrame == 0

\* the requests the source makes, in the order of lvl_stream_open_in; those that use the shared file
Mapped == {"verbose", "list", "setup", "width", "height", "pixels", "stop"}
Request == Mapped \cup {"listTest", "listOnly", "test"}

VARIABLES
  \* the client
  cpc,         \* a request being made, or "idle", "listNew", "new", "delete", "dead"
  sent,        \* the request has been written
  opened,      \* lvlHandle
  afterDelete, \* what lvlDelete returns to
  serverPid, pipeOpen,     \* gServerPid # 0, gPipeOutput # -1
  skipped, tries, opens,
  got,         \* history: the frame that was returned last
  \* the two pipes and the shared file
  toServer, toClient,
  shm,         \* the request whose parameters it holds, whether its results are there, and the pixels
  \* the server process
  server,      \* "none", "running", "exited", or "clone": a copy of the client in its place
  spc, attempts, request,
  grabbing, frameUpdated, frameLock, frameBuffer,
  \* the callback
  capturing, frames

client == <<cpc, sent, opened, afterDelete, serverPid, pipeOpen, skipped, tries, opens, got>>
pipes  == <<toServer, toClient>>
place  == <<server, spc, attempts, request>>
device == <<grabbing, frameUpdated, frameLock, frameBuffer>>
camera == <<capturing, frames>>
localCameraVars == <<client, pipes, shm, place, device, camera>>

LocalCameraInit ==
  /\ cpc = "idle" /\ sent = FALSE /\ opened = FALSE /\ afterDelete = "idle"
  /\ serverPid = FALSE /\ pipeOpen = FALSE
  /\ skipped = 0 /\ tries = 0 /\ opens = 0 /\ got = NoFrame
  /\ toServer = << >> /\ toClient = << >>
  /\ shm = [of |-> "none", answered |-> FALSE, success |-> FALSE, frame |-> NoFrame]
  /\ server = "none" /\ spc = "read" /\ attempts = 0 /\ request = "none"
  /\ grabbing = FALSE /\ frameUpdated = FALSE /\ frameLock = "none" /\ frameBuffer = NoFrame
  /\ capturing = FALSE /\ frames = 0

-----------------------------------------------------------------------------
(***************************************************************************)
(* The client's calls of the server: sendMessageAndVerifyAck, with the     *)
(* parameters put into the shared file before the request is written.      *)
(***************************************************************************)
Goto(p) == cpc' = p /\ sent' = FALSE

\* a process, server or not, holds the other ends of the pipes
Up == server \in {"running", "clone"}

Send ==
  /\ cpc \in Request /\ ~sent /\ Up
  /\ sent' = TRUE
  /\ toServer' = Append(toServer, cpc)
  /\ shm' = IF cpc \in Mapped THEN [shm EXCEPT !.of = cpc, !.answered = FALSE] ELSE shm
  /\ UNCHANGED <<cpc, opened, afterDelete, serverPid, pipeOpen, skipped, tries, opens, got,
                 toClient, place, device, camera>>

\* the request cannot be written, or the server has closed its pipe without an answer
Fails == ~Up /\ toClient = << >>
Answered == sent /\ toClient # << >>

\* the end of the request r: received, or failed
Ends(r, ok) ==
  /\ cpc = r
  /\ ok => Answered /\ toClient' = Tail(toClient) /\ UNCHANGED toServer
  /\ ~ok => Fails /\ UNCHANGED pipes

\* When neither path can be executed, the child returns the error from startServer and goes on as
\* a copy of the client, which keeps its ends of the pipes: all that is modelled of it is that it
\* does not serve them, and may exit.
StartServer ==
  /\ server' \in {"running", "clone"} /\ serverPid' = TRUE /\ pipeOpen' = TRUE
  /\ spc' = "read" /\ attempts' = 0 /\ request' = "none"
  /\ toServer' = << >> /\ toClient' = << >>
  /\ shm' = [of |-> "none", answered |-> FALSE, success |-> FALSE, frame |-> NoFrame]
  /\ grabbing' = FALSE /\ frameUpdated' = FALSE /\ frameLock' = "none" /\ frameBuffer' = NoFrame
  /\ capturing' = FALSE

noServer == <<pipes, shm, place, device, serverPid, pipeOpen, capturing>>

-----------------------------------------------------------------------------
(***************************************************************************)
(* lvl_stream_open_in                                                      *)
(***************************************************************************)
\* lvlSetVerbose and lvlListDevices use a server that runs, or did when it was last heard of
StreamOpen ==
  /\ cpc = "idle" /\ ~opened /\ opens < MaxOpens
  /\ opens' = opens + 1
  /\ Goto(IF serverPid THEN "verbose" ELSE "listNew")
  /\ UNCHANGED <<opened, afterDelete, skipped, tries, got, noServer, frames>>

SetVerbose ==
  /\ \E ok \in BOOLEAN : Ends("verbose", ok)
  /\ Goto("list")
  /\ UNCHANGED <<opened, afterDelete, serverPid, pipeOpen, skipped, tries, opens, got,
                 shm, place, device, camera>>

\* _lvl_get_local_device_id_from_uri; without an answer there are no devices
ListDevices ==
  /\ \E ok, found \in BOOLEAN : Ends("list", ok) /\ Goto(IF ok /\ found THEN "new" ELSE "idle")
  /\ UNCHANGED <<opened, afterDelete, serverPid, pipeOpen, skipped, tries, opens, got,
                 shm, place, device, camera>>

\* listDevicesWithoutServer starts a server for this request, without a shared file
ListNew ==
  /\ cpc = "listNew"
  /\ \/ StartServer /\ Goto("listTest") /\ UNCHANGED afterDelete
     \/ /\ Goto("delete") /\ afterDelete' = "idle"     \* a pipe cannot be created
        /\ UNCHANGED noServer
  /\ UNCHANGED <<opened, skipped, tries, opens, got, frames>>

\* the failure of lvlNew is not looked at
ListTest ==
  /\ \E ok \in BOOLEAN : Ends("listTest", ok)
  /\ Goto("listOnly")
  /\ UNCHANGED <<opened, afterDelete, serverPid, pipeOpen, skipped, tries, opens, got,
                 shm, place, device, camera>>

\* the answer is read until the server has closed its pipe
ListOnly ==
  /\ \E ok \in BOOLEAN :
       /\ Ends("listOnly", ok)
       /\ ok => ~Up
       /\ afterDelete' = "idle" \/ (ok /\ afterDelete' = "new")
  /\ Goto("delete")
  /\ UNCHANGED <<opened, serverPid, pipeOpen, skipped, tries, opens, got, shm, place, device, camera>>

\* startServer; a failure leaves nothing open
New ==
  /\ cpc = "new"
  /\ \/ StartServer /\ Goto("test")
     \/ Goto("idle") /\ UNCHANGED noServer
  /\ UNCHANGED <<opened, afterDelete, skipped, tries, opens, got, frames>>

\* without an answer lvlNew returns NULL, and nothing deletes the server that was started
Test ==
  /\ \E ok \in BOOLEAN : /\ Ends("test", ok)
                         /\ IF ok THEN Goto("setup") ELSE Goto("idle")
                         /\ opened' = ok
  /\ UNCHANGED <<afterDelete, serverPid, pipeOpen, skipped, tries, opens, got, shm, place, device, camera>>

\* lvlSetupDevice; a failure closes the stream again
Setup ==
  /\ \E ok \in BOOLEAN : /\ Ends("setup", ok)
                         /\ IF ok /\ shm.success THEN Goto("width") ELSE Goto("stop")
  /\ UNCHANGED <<opened, afterDelete, serverPid, pipeOpen, skipped, tries, opens, got,
                 shm, place, device, camera>>

\* a size that is not answered is taken to be 0
Size ==
  /\ \E ok \in BOOLEAN : \/ Ends("width", ok) /\ Goto("height")
                         \/ Ends("height", ok) /\ Goto("idle")
  /\ UNCHANGED <<opened, afterDelete, serverPid, pipeOpen, skipped, tries, opens, got,
                 shm, place, device, camera>>

-----------------------------------------------------------------------------
(***************************************************************************)
(* lvl_stream_read_frame and lvl_stream_close                              *)
(***************************************************************************)
StreamRead ==
  /\ cpc = "idle" /\ opened
  /\ Goto("pixels") /\ tries' = 0
  /\ UNCHANGED <<opened, afterDelete, serverPid, pipeOpen, skipped, opens, got,
                 pipes, shm, place, device, camera>>

\* lvlGetPixels; the first frames are skipped, and a frame may follow the last one too closely
GotPixels ==
  /\ Ends("pixels", TRUE) /\ shm.success
  /\ \/ /\ skipped <= SkippedFrames /\ skipped' = skipped + 1
        /\ Goto("pixels") /\ UNCHANGED got
     \/ /\ skipped > SkippedFrames /\ UNCHANGED skipped
        /\ \/ got' = shm.frame /\ Goto("idle")
           \/ UNCHANGED got /\ Goto("pixels")
  /\ UNCHANGED <<opened, afterDelete, serverPid, pipeOpen, tries, opens, shm, place, device, camera>>

\* no frame: tried again until the time is up
\* faulty: a read of a server that is gone is tried again for ever, see DeathIsNoticed
NoPixelsForEver ==
  /\ \E ok \in BOOLEAN : Ends("pixels", ok) /\ (ok => ~shm.success)
  /\ Goto("pixels")
  /\ UNCHANGED <<tries, opened, afterDelete, serverPid, pipeOpen, skipped, opens, got, shm, place, device, camera>>

NoPixels ==
  /\ \E ok \in BOOLEAN : Ends("pixels", ok) /\ (ok => ~shm.success)
  /\ \/ tries < MaxTries /\ tries' = tries + 1 /\ Goto("pixels")
     \/ tries = MaxTries /\ UNCHANGED tries /\ Goto("idle")
  /\ UNCHANGED <<opened, afterDelete, serverPid, pipeOpen, skipped, opens, got, shm, place, device, camera>>

\* lvl_stream_close; the stream may be closed although it failed to open, which does nothing
StreamClose ==
  /\ cpc = "idle" /\ opened
  /\ Goto("stop")
  /\ UNCHANGED <<opened, afterDelete, serverPid, pipeOpen, skipped, tries, opens, got,
                 pipes, shm, place, device, camera>>

\* lvlStopDevice, of which a failure is only logged
Stop ==
  /\ \E ok \in BOOLEAN : Ends("stop", ok)
  /\ Goto("delete") /\ afterDelete' = "idle"
  /\ UNCHANGED <<opened, serverPid, pipeOpen, skipped, tries, opens, got, shm, place, device, camera>>

\* lvlDelete closes the pipe to the server, and waits for it to exit
DeleteClosesPipe ==
  /\ cpc = "delete" /\ pipeOpen
  /\ pipeOpen' = FALSE
  /\ UNCHANGED <<cpc, sent, opened, afterDelete, serverPid, skipped, tries, opens, got,
                 pipes, shm, place, device, camera>>

\* faulty: does not wait for the server, see OneServerAnswers
DeleteReturnsAtOnce ==
  /\ cpc = "delete" /\ ~pipeOpen
  /\ Goto(afterDelete)
  /\ serverPid' = FALSE /\ opened' = FALSE
  /\ skipped' = 0
  /\ UNCHANGED <<afterDelete, pipeOpen, tries, opens, got, shm, spc, attempts, request,
                 server, pipes, device, camera>>

DeleteWaits ==
  /\ cpc = "delete" /\ ~pipeOpen
  /\ serverPid => server = "exited"
  /\ Goto(afterDelete)
  /\ serverPid' = FALSE /\ opened' = FALSE
  /\ skipped' = 0
  /\ server' = "none"
  /\ toServer' = << >> /\ toClient' = << >>
  /\ UNCHANGED <<afterDelete, pipeOpen, tries, opens, got, shm, spc, attempts, request, device, camera>>

ClientDies ==
  /\ cpc # "dead"
  /\ cpc' = "dead" /\ pipeOpen' = FALSE
  /\ UNCHANGED <<sent, opened, afterDelete, serverPid, skipped, tries, opens, got,
                 pipes, shm, place, device, camera>>

Client ==
  \/ Send \/ SetVerbose \/ ListDevices \/ ListNew \/ ListTest \/ ListOnly \/ New \/ Test \/ Setup
  \/ Size \/ GotPixels \/ NoPixels \/ Stop \/ DeleteClosesPipe \/ DeleteWaits

-----------------------------------------------------------------------------
(***************************************************************************)
(* The server's main loop, LVS_getPixels, and the callback that takes the  *)
(* camera's frames.                                                        *)
(***************************************************************************)
Running == server = "running"
noClient == <<client, camera>>

ReadRequest ==
  /\ Running /\ spc = "read" /\ toServer # << >>
  /\ request' = Head(toServer) /\ toServer' = Tail(toServer)
  /\ spc' = IF request' = "pixels" THEN "pixels" ELSE "handle"
  /\ attempts' = 0
  /\ UNCHANGED <<noClient, toClient, shm, server, device>>

\* LVS_setupDevice and LVS_stopDevice change whether frames are taken
Handle ==
  /\ Running /\ spc = "handle" /\ spc' = "reply"
  /\ \E ok \in BOOLEAN :
       /\ shm' = IF request \in Mapped THEN [shm EXCEPT !.answered = TRUE, !.success = ok] ELSE shm
       /\ grabbing' = CASE request = "setup" -> ok
                        [] request = "stop"  -> FALSE
                        [] OTHER             -> grabbing
  /\ UNCHANGED <<noClient, pipes, server, attempts, request, frameUpdated, frameLock, frameBuffer>>

\* a frame that was taken is copied, under a lock that is tried
BeginCopy ==
  /\ Running /\ spc = "pixels" /\ grabbing /\ frameUpdated /\ frameLock = "none"
  /\ frameLock' = "server" /\ spc' = "copy"
  /\ UNCHANGED <<noClient, pipes, shm, server, attempts, request, grabbing, frameUpdated, frameBuffer>>

EndCopy ==
  /\ Running /\ spc = "copy" /\ spc' = "reply"
  /\ shm' = [shm EXCEPT !.answered = TRUE, !.success = TRUE, !.frame = frameBuffer]
  /\ frameUpdated' = FALSE /\ frameLock' = "none"
  /\ UNCHANGED <<noClient, pipes, server, attempts, request, grabbing, frameBuffer>>

NoFrameYet ==
  /\ Running /\ spc = "pixels" /\ grabbing
  /\ ~frameUpdated \/ frameLock # "none"
  /\ attempts < MaxAttempts /\ attempts' = attempts + 1
  /\ UNCHANGED <<noClient, pipes, shm, server, spc, request, device>>

GiveUp ==
  /\ Running /\ spc = "pixels"
  /\ grabbing => attempts = MaxAttempts /\ (~frameUpdated \/ frameLock # "none")
  /\ shm' = [shm EXCEPT !.answered = TRUE, !.success = FALSE]
  /\ spc' = "reply"
  /\ UNCHANGED <<noClient, pipes, server, attempts, request, device>>

\* faulty: a break is missing, and the request is answered once more, see OneServerAnswers
ReplyFallsThrough ==
  /\ Running /\ spc = "reply" /\ spc' = "read"
  /\ toClient' = IF request = "stop" THEN toClient \o <<request, request>> ELSE Append(toClient, request)
  /\ server' = IF request = "listOnly" THEN "exited" ELSE server
  /\ UNCHANGED <<noClient, toServer, shm, attempts, request, device>>

\* the answer; the server that only lists the devices exits after it
Reply ==
  /\ Running /\ spc = "reply" /\ spc' = "read"
  /\ toClient' = Append(toClient, request)
  /\ server' = IF request = "listOnly" THEN "exited" ELSE server
  /\ UNCHANGED <<noClient, toServer, shm, attempts, request, device>>

ServerGone ==
  /\ server' = "exited" /\ spc' = "read" /\ toServer' = << >>
  /\ grabbing' = FALSE /\ frameLock' = "none" /\ capturing' = FALSE
  /\ UNCHANGED <<client, toClient, shm, attempts, request, frameUpdated, frameBuffer, frames>>

\* read returns 0 when no one has the pipe open for writing
ClientGone ==
  /\ Running /\ spc = "read" /\ toServer = << >> /\ ~pipeOpen
  /\ ServerGone

ServerDies == Up /\ ServerGone

\* faulty: the frame is written over while it is copied, see FramesAreFresh
BeginCaptureAnyway ==
  /\ Running /\ grabbing /\ ~capturing /\ frames < MaxFrames
  /\ frames' = frames + 1
  /\ frameLock' = "camera" /\ capturing' = TRUE /\ frameBuffer' = Torn
  /\ UNCHANGED <<client, pipes, shm, place, grabbing, frameUpdated>>

\* captureOutput: a frame that finds the lock taken, or has another size, is dropped
BeginCapture ==
  /\ Running /\ grabbing /\ ~capturing /\ frames < MaxFrames
  /\ frames' = frames + 1
  /\ \/ /\ frameLock = "none" /\ frameLock' = "camera"
        /\ capturing' = TRUE /\ frameBuffer' = Torn
     \/ UNCHANGED <<frameLock, capturing, frameBuffer>>
  /\ UNCHANGED <<client, pipes, shm, place, grabbing, frameUpdated>>

EndCapture ==
  /\ Running /\ capturing
  /\ capturing' = FALSE
  /\ frameBuffer' = frames /\ frameUpdated' = TRUE /\ frameLock' = "none"
  /\ UNCHANGED <<client, pipes, shm, place, grabbing, frames>>

Server ==
  \/ ReadRequest \/ Handle \/ BeginCopy \/ EndCopy \/ NoFrameYet \/ GiveUp \/ Reply \/ ClientGone

-----------------------------------------------------------------------------
LocalCameraNext ==
  \/ StreamOpen \/ StreamRead \/ StreamClose \/ Client \/ ClientDies
  \/ Server \/ ServerDies
  \/ BeginCapture \/ EndCapture

LocalCameraSpec == LocalCameraInit /\ [][LocalCameraNext]_localCameraVars

\* both processes are run by the system; nobody need call, no camera need deliver, no one need die
FairSpec == LocalCameraSpec /\ WF_localCameraVars(Client) /\ WF_localCameraVars(Server) /\ WF_localCameraVars(EndCapture)

-----------------------------------------------------------------------------
(***************************************************************************)
(* Properties.                                                             *)
(***************************************************************************)
\* An answer that the client finds in the pipe is that of the request it is waiting for, and
\* the shared file, which both processes write without a lock, then holds its results: no
\* death of a server leaves an answer behind for the next one's client.  One message is under
\* way at a time.
OwnAnswer ==
  /\ toClient # << >> /\ cpc \in Request =>
       /\ sent /\ Head(toClient) = cpc
       /\ cpc \in Mapped => shm.of = cpc /\ shm.answered
  /\ Len(toServer) + Len(toClient) + (IF spc = "read" THEN 0 ELSE 1) <= 1

\* The source returns whole frames, and none of them twice: the callback that writes the
\* buffer and the server that copies it only try the lock, and each goes on without it.
FramesAreFresh == [][got' # got => got' > got]_localCameraVars

\* The library's globals have room for one server: a process that runs is the one they know,
\* so that every process that was started can still be waited for (lvlDelete).
OneServer == Up => serverPid \/ cpc = "dead"

\* Every call of the source returns, however the server answers, hangs without frames or dies,
\* unless a copy of the client lives on in its place.
EveryCallReturns == cpc # "idle" ~> cpc \in {"idle", "dead"}
CallsReturn == EveryCallReturns \/ <>[](server = "clone")

\* A client that dies takes its server with it: only the closed pipe tells it.
ServerFollowsClient == cpc = "dead" ~> ~Running

\* One server at a time, and its answers are those of the requests: what the library, whose
\* globals hold one server and one pair of pipes, relies on in every call.
OneServerAnswers == OneServer /\ OwnAnswer

\* However one process dies the other does not wait for it: calls return, servers exit.
DeathIsNoticed == CallsReturn /\ ServerFollowsClient
=============================================================================
