--------------------------- MODULE DriverProcess ----------------------------
(***************************************************************************)
(* The process that carries the servers: main and handle                   *)
(* (cmd/nfsplugin/main.go), Driver.Run (pkg/nfs/nfs.go) and the gRPC       *)
(* server (pkg/nfs/server.go), as the goroutines they are: main waits for  *)
(* SIGTERM, handle sets the driver up and waits for the server, serve      *)
(* listens on the Unix socket and accepts calls. The container is started  *)
(* again whenever the process ends; its socket file stays on the host.     *)
(*                                                                         *)
(* Run(true), with which tests stop the server, is not part of it.         *)
(***************************************************************************)
EXTENDS Integers

CONSTANT ProcessFaults  \* "kill": the process is killed at any moment;
                        \* "error": a step of the start fails for a reason
                        \* outside the driver

ASSUME ProcessAssumption == ProcessFaults \subseteq {"kill", "error"}

VARIABLES
    flags,       \* the command line
    main,        \* where main is: "off", "boot", "wait", "cancelled"
    handle,      \* where handle and Run are: "off", "config", "run", "wait"
    serve,       \* where serve is: "off", "remove", "listen", "register",
                 \* "serving"
    socket,      \* the socket file exists
    created,     \* the servers Run has created
    registered,  \* the services of the gRPC server
    calls,       \* the services with a call in progress
    signalled,   \* SIGTERM is in the channel of main
    nfs,         \* the NFS services: "none", "running", "told" to stop, or
                 \* "killed" without having been told
    exit         \* how the process last ended: "none" (it runs, or was never
                 \* started), "term", "killed", "panic", or with klog.Fatal:
                 \* "config" (no addresses), "inuse" (net.Listen finds the
                 \* socket file), "outside" (a failure outside the driver)

vars == <<flags, main, handle, serve, socket, created, registered, calls,
          signalled, nfs, exit>>

Services == {"identity", "controller", "node"}

\* --run-controller-server, --run-node-server, --run-nfs-services, and
\* whether --ip-addresses is given.
Flags == [controller : BOOLEAN, node : BOOLEAN, nfs : BOOLEAN, ips : BOOLEAN]

-----------------------------------------------------------------------------
(***************************************************************************)
(* The process.                                                            *)
(***************************************************************************)

\* The process ends with all its goroutines; it is the first process of its
\* container (ENTRYPOINT), which takes the NFS services down with it.
Die(how) ==
    /\ main' = "off" /\ handle' = "off" /\ serve' = "off"
    /\ created' = {} /\ registered' = {} /\ calls' = {}
    /\ signalled' = FALSE
    /\ nfs' = IF nfs = "running" THEN "killed" ELSE nfs
    /\ exit' = how
    /\ UNCHANGED <<flags, socket>>

\* main: cmd.Start, and go handle().
Boot ==
    /\ main = "off"
    /\ main' = "boot"
    /\ handle' = "config"
    /\ nfs' = IF flags.nfs /\ ~flags.controller THEN "running" ELSE "none"
    /\ exit' = "none"
    /\ UNCHANGED <<flags, serve, socket, created, registered, calls, signalled>>

\* main: signal.Notify.
Notify ==
    /\ main = "boot"
    /\ main' = "wait"
    /\ UNCHANGED <<flags, handle, serve, socket, created, registered, calls,
                   signalled, nfs, exit>>

\* SIGTERM. Before Notify it ends the process (Kill) or, once NewLBController
\* has installed the handler of controller-runtime, passes main by.
Signal ==
    /\ main = "wait"
    /\ ~signalled
    /\ signalled' = TRUE
    /\ UNCHANGED <<flags, main, handle, serve, socket, created, registered,
                   calls, nfs, exit>>

\* Mutant: main waits for the server, as Run does.
CancelAfterServe ==
    /\ main = "wait"
    /\ signalled
    /\ handle # "wait"
    /\ main' = "cancelled"
    /\ UNCHANGED <<flags, handle, serve, socket, created, registered, calls,
                   signalled, nfs, exit>>

\* main: <-c and cancel().
Cancel ==
    /\ main = "wait"
    /\ signalled
    /\ main' = "cancelled"
    /\ UNCHANGED <<flags, handle, serve, socket, created, registered, calls,
                   signalled, nfs, exit>>

\* The goroutine of exec.CommandContext sees the context done: cmd.Cancel.
TellServices ==
    /\ main = "cancelled"
    /\ nfs = "running"
    /\ nfs' = "told"
    /\ UNCHANGED <<flags, main, handle, serve, socket, created, registered,
                   calls, signalled, exit>>

\* main: os.Exit(0).
Exit ==
    /\ main = "cancelled"
    /\ Die("term")

Kill ==
    /\ "kill" \in ProcessFaults
    /\ main # "off"
    /\ Die("killed")

\* klog.Fatal of a failure that is not the driver's: the NFS services, the
\* cluster configuration, the list of the nodes, the socket.
StartFails ==
    /\ "error" \in ProcessFaults
    /\ main # "off"
    /\ handle \in {"config", "run"} \/ serve \in {"remove", "listen"}
    /\ Die("outside")

-----------------------------------------------------------------------------
(***************************************************************************)
(* handle, Run, Start and serve.                                           *)
(***************************************************************************)

\* handle: a controller without addresses ends the process.
Configure ==
    /\ handle = "config"
    /\ IF flags.controller /\ ~flags.ips
       THEN Die("config")
       ELSE /\ handle' = "run"
            /\ UNCHANGED <<flags, main, serve, socket, created, registered,
                           calls, signalled, nfs, exit>>

\* Mutant: Run waits without having started serve.
RunBlocked ==
    /\ handle = "run"
    /\ handle' = "wait"
    /\ UNCHANGED <<flags, main, serve, socket, created, registered, calls,
                   signalled, nfs, exit>>

\* NewDriver and Run: the servers the flags ask for; Start, then Wait, which
\* nothing ends.
Run ==
    /\ handle = "run"
    /\ created' = {"identity"}
                  \cup (IF flags.controller THEN {"controller"} ELSE {})
                  \cup (IF flags.node THEN {"node"} ELSE {})
    /\ serve' = "remove"
    /\ handle' = "wait"
    /\ UNCHANGED <<flags, main, socket, registered, calls, signalled, nfs, exit>>

\* Mutant: the old socket file is left where it is.
RemoveNothing ==
    /\ serve = "remove"
    /\ serve' = "listen"
    /\ UNCHANGED <<flags, main, handle, socket, created, registered, calls,
                   signalled, nfs, exit>>

\* serve: os.Remove of the socket file; that there is none is not an error.
RemoveSocket ==
    /\ serve = "remove"
    /\ socket' = FALSE
    /\ serve' = "listen"
    /\ UNCHANGED <<flags, main, handle, created, registered, calls,
                   signalled, nfs, exit>>

\* serve: net.Listen binds the address, which makes the file, or fails when
\* the file is there already, whether or not anybody listens behind it.
Listen ==
    /\ serve = "listen"
    /\ IF socket
       THEN Die("inuse")
       ELSE /\ socket' = TRUE
            /\ serve' = "register"
            /\ UNCHANGED <<flags, main, handle, created, registered, calls,
                           signalled, nfs, exit>>

\* serve: cs and ns are interfaces, and an interface that holds a nil pointer
\* is not nil: all three services are registered, created or not. Then Serve.
Register ==
    /\ serve = "register"
    /\ registered' = Services
    /\ serve' = "serving"
    /\ UNCHANGED <<flags, main, handle, socket, created, calls, signalled,
                   nfs, exit>>

\* A call reaches the method of its server.
Accept(s) ==
    /\ serve = "serving"
    /\ s \in registered
    /\ s \notin calls
    /\ calls' = calls \cup {s}
    /\ UNCHANGED <<flags, main, handle, serve, socket, created, registered,
                   signalled, nfs, exit>>

Answer(s) ==
    /\ s \in calls
    /\ calls' = calls \ {s}
    /\ UNCHANGED <<flags, main, handle, serve, socket, created, registered,
                   signalled, nfs, exit>>

\* A method of a server that was not created uses its fields, and nothing
\* recovers from the panic. (A method that uses none is answered.)
NilServer(s) ==
    /\ s \in calls \ created
    /\ Die("panic")

\* A call to provision something mounts through the node server of the same
\* process (internalMount), which a process for the controller alone lacks.
NilNodeServer ==
    /\ "controller" \in calls \cap created
    /\ "node" \notin created
    /\ Die("panic")

-----------------------------------------------------------------------------

Init ==
    /\ flags \in Flags
    /\ main = "off" /\ handle = "off" /\ serve = "off"
    /\ socket \in BOOLEAN
    /\ created = {} /\ registered = {} /\ calls = {}
    /\ signalled = FALSE
    /\ nfs = "none"
    /\ exit = "none"

Next ==
    \/ Boot \/ Notify \/ Signal \/ Cancel \/ TellServices \/ Exit
    \/ Kill \/ StartFails
    \/ Configure \/ Run \/ RemoveSocket \/ Listen \/ Register
    \/ \E s \in Services : Accept(s) \/ Answer(s) \/ NilServer(s)
    \/ NilNodeServer

Spec == Init /\ [][Next]_vars

\* Every goroutine that can run does.
FairSpec ==
    /\ Spec
    /\ WF_vars(Notify) /\ WF_vars(Cancel) /\ WF_vars(Exit)
    /\ WF_vars(Configure) /\ WF_vars(Run)
    /\ WF_vars(RemoveSocket) /\ WF_vars(Listen) /\ WF_vars(Register)

-----------------------------------------------------------------------------
(***************************************************************************)
(* Properties.                                                             *)
(***************************************************************************)

\* Wherever the process was killed, and whether or not an earlier process left
\* its socket file, the next one never finds its own address in use: the file
\* outlives every exit (nothing closes the listener), and between os.Remove and
\* net.Listen nothing brings it back.
RestartsCleanly == exit # "inuse"

\* A process that is started comes to serve calls, or ends.
ServesEventually == main = "wait" ~> serve = "serving" \/ main = "off"

\* From Notify on, SIGTERM ends the process, whatever the other goroutines are
\* doing: setting the driver up, waiting for the nodes, or serving calls that
\* do not end.
TermStops == signalled ~> main = "off"

=============================================================================
