---------------------------- MODULE ServeEndpoint ----------------------------
(***************************************************************************)
(* `fa-local-run serve`: one thread that answers GET requests for single   *)
(* capabilities from a registry it holds in memory, and that reloads the   *)
(* registry from its file after a SIGHUP.                                  *)
(*                                                                         *)
(* Around it, unsynchronised: somebody who rewrites the registry file in   *)
(* place, somebody who sends SIGHUP, and HTTP clients.  The signal handler *)
(* sets a flag and nothing else; the loop of run_server looks at it        *)
(* between two requests.                                                   *)
(***************************************************************************)
EXTENDS Integers, FiniteSets

CONSTANTS
    Capabilities, \* the capability ids that occur
    KeyMaps,      \* the kid -> key configurations the daemon may start with
    Requests,     \* the requests clients send
    MaxWrites,    \* bound on the rewrites of the file
    MaxHangups,   \* bound on the SIGHUPs
    MaxRequests,  \* bound on the requests
    MaxErrors     \* bound on the failures to receive a request

ASSUME BoundsAssumption ==
    /\ MaxWrites \in Nat
    /\ MaxHangups \in Nat
    /\ MaxRequests \in Nat
    /\ MaxErrors \in Nat

VARIABLES
    file,            \* the registry file
    written,         \* every whole document the file has ever held
    pc,              \* where the daemon stands
    handler,         \* the SIGHUP handler is installed
    reloadRequested, \* RELOAD_REQUESTED
    keys,            \* the public keys, by kid
    registry,        \* the registry in memory
    fresh,           \* the one a reload has read and not yet put in place
    waiting,         \* requests received by the listener, not by the loop
    request,         \* the request being answered
    answer,          \* the answer just given
    asked,           \* the file's version at the last SIGHUP, 0 if not whole
    spent            \* how much of each bound is used up

daemon == <<pc, registry, fresh, request, answer>>
outside == <<file, written>>
vars == <<file, written, pc, handler, reloadRequested, keys, registry, fresh,
          waiting, request, answer, asked, spent>>

(* A registry document; one that does not load is torn, empty, missing or  *)
(* not valid against the schema.                                           *)
Document(version, capabilities, loads) ==
    [version |-> version, capabilities |-> capabilities, loads |-> loads]

Documents ==
    {Document(v, cs, l) : v \in 0..(MaxWrites + 1), cs \in SUBSET Capabilities, l \in BOOLEAN}

NoRegistry == Document(0, {}, FALSE)

NoRequest == [method |-> "none"]

NoAnswer == [status |-> "none", version |-> 0]

Statuses == {"none", "200", "404_not_found", "404_capability_not_found", "400", "401", "503"}

Stages == {"starting", "loaded", "handling", "check", "reload", "install",
           "receive", "answer", "down"}

Listening == pc \in {"check", "reload", "install", "receive", "answer"}

(* Every variable has its type.                                            *)
TypeOK ==
    /\ file \in Documents
    /\ written \subseteq Documents
    /\ pc \in Stages
    /\ handler \in BOOLEAN
    /\ reloadRequested \in BOOLEAN
    /\ keys \in KeyMaps
    /\ registry \in Documents
    /\ fresh \in Documents
    /\ waiting \in 0..MaxRequests
    /\ request \in Requests \union {NoRequest}
    /\ answer \in [status : Statuses, version : 0..(MaxWrites + 1)]
    /\ asked \in 0..(MaxWrites + 1)
    /\ spent \in [{"hangups", "requests", "errors"} -> Nat]

Init ==
    /\ \E cs \in SUBSET Capabilities, l \in BOOLEAN :
          /\ file = Document(1, cs, l)
          /\ written = IF l THEN {file} ELSE {}
    /\ pc = "starting"
    /\ handler = FALSE
    /\ reloadRequested = FALSE
    /\ keys \in KeyMaps
    /\ registry = NoRegistry
    /\ fresh = NoRegistry
    /\ waiting = 0
    /\ request = NoRequest
    /\ answer = NoAnswer
    /\ asked = 0
    /\ spent = [b \in {"hangups", "requests", "errors"} |-> 0]

Spend(bound) == spent' = [spent EXCEPT ![bound] = @ + 1]

-----------------------------------------------------------------------------
(* The world around the daemon (external).                                 *)

(* The file is rewritten in place: emptied first, ...                      *)
TruncateFile ==
    /\ file.loads
    /\ file.version <= MaxWrites
    /\ file' = Document(file.version + 1, {}, FALSE)
    /\ UNCHANGED <<written, daemon, handler, reloadRequested, keys, waiting, asked,
                   spent>>

(* ... and filled later, if ever.                                          *)
WriteFile ==
    /\ ~file.loads
    /\ \E cs \in SUBSET Capabilities : file' = Document(file.version, cs, TRUE)
    /\ written' = written \union {file'}
    /\ UNCHANGED <<daemon, handler, reloadRequested, keys, waiting, asked, spent>>

(* A client's request reaches the listener.  What it asks for does not     *)
(* matter before the loop takes it, and is chosen then.                    *)
SendRequest ==
    /\ Listening
    /\ spent["requests"] < MaxRequests
    /\ waiting' = waiting + 1
    /\ Spend("requests")
    /\ UNCHANGED <<outside, daemon, handler, reloadRequested, keys, asked>>

(* request_reload, run by the kernel between any two steps of the daemon.  *)
RequestReload ==
    /\ reloadRequested' = TRUE
    /\ asked' = IF file.loads THEN file.version ELSE 0
    /\ UNCHANGED pc

(* A SIGHUP; without a handler its default is to end the process.          *)
Hangup ==
    /\ pc # "down"
    /\ spent["hangups"] < MaxHangups
    /\ Spend("hangups")
    /\ \/ handler /\ RequestReload
       \/ /\ ~handler
          /\ pc' = "down"
          /\ UNCHANGED <<reloadRequested, asked>>
    /\ UNCHANGED <<outside, handler, keys, registry, fresh, waiting, request, answer>>

-----------------------------------------------------------------------------
(* Startup.                                                                *)

(* The serve arm of main: the gate, the arguments and the keys are read,   *)
(* then ServeService::load; the first that fails ends the process.         *)
ServeCommand ==
    /\ pc = "starting"
    /\ \/ /\ file.loads
          /\ registry' = file
          /\ pc' = "loaded"
       \/ /\ pc' = "down"
          /\ UNCHANGED registry
    /\ UNCHANGED <<outside, handler, reloadRequested, keys, fresh, waiting, request,
                   answer, asked, spent>>

InstallSighupHandler ==
    /\ pc = "loaded"
    /\ handler' = TRUE
    /\ pc' = "handling"
    /\ UNCHANGED <<outside, reloadRequested, keys, registry, fresh, waiting, request,
                   answer, asked, spent>>

(* Server::http: the port is bound, or the process ends.                   *)
Bind ==
    /\ pc = "handling"
    /\ pc' \in {"check", "down"}
    /\ UNCHANGED <<outside, handler, reloadRequested, keys, registry, fresh, waiting,
                   request, answer, asked, spent>>

-----------------------------------------------------------------------------
(* The loop of run_server.                                                 *)

(* RELOAD_REQUESTED.swap(false): what is set from here on asks for another *)
(* reload.                                                                 *)
CheckReload ==
    /\ pc = "check"
    /\ pc' = IF reloadRequested THEN "reload" ELSE "receive"
    /\ reloadRequested' = FALSE
    /\ request' = NoRequest
    /\ answer' = NoAnswer
    /\ UNCHANGED <<outside, handler, keys, registry, fresh, waiting, asked, spent>>

(* A plausible slip: the registry is cleared while the file is read.       *)
BugReadRegistryFile ==
    /\ pc = "reload"
    /\ registry' = NoRegistry
    /\ \/ /\ file.loads
          /\ fresh' = file
          /\ pc' = "install"
       \/ /\ ~file.loads
          /\ pc' = "receive"
          /\ UNCHANGED fresh
    /\ UNCHANGED <<outside, handler, reloadRequested, keys, waiting, request, answer,
                   asked, spent>>

(* A plausible slip: a reload that fails is tried again at once.           *)
BugRetryReload ==
    /\ pc = "reload"
    /\ file.loads
    /\ fresh' = file
    /\ pc' = "install"
    /\ UNCHANGED <<outside, handler, reloadRequested, keys, registry, waiting, request,
                   answer, asked, spent>>

(* load_registry_from_file, as reload calls it: a document that does not   *)
(* load is an error that is logged, and the registry stays.                *)
ReadRegistryFile ==
    /\ pc = "reload"
    /\ \/ /\ file.loads
          /\ fresh' = file
          /\ pc' = "install"
       \/ /\ ~file.loads
          /\ pc' = "receive"
          /\ UNCHANGED fresh
    /\ UNCHANGED <<outside, handler, reloadRequested, keys, registry, waiting, request,
                   answer, asked, spent>>

(* A plausible slip: the flag is cleared again when the reload is over.    *)
BugInstallRegistry ==
    /\ pc = "install"
    /\ registry' = fresh
    /\ fresh' = NoRegistry
    /\ reloadRequested' = FALSE
    /\ pc' = "receive"
    /\ UNCHANGED <<outside, handler, keys, waiting, request, answer, asked,
                   spent>>

(* *guard = Some(fresh).                                                   *)
InstallRegistry ==
    /\ pc = "install"
    /\ registry' = fresh
    /\ fresh' = NoRegistry
    /\ pc' = "receive"
    /\ UNCHANGED <<outside, handler, reloadRequested, keys, waiting, request, answer,
                   asked, spent>>

(* recv_timeout: a request, or none within the poll interval, or an error  *)
(* that is logged.                                                         *)
Receive ==
    /\ pc = "receive"
    /\ \/ /\ waiting > 0
          /\ waiting' = waiting - 1
          /\ request' \in Requests
          /\ pc' = "answer"
          /\ UNCHANGED spent
       \/ /\ waiting = 0
          /\ pc' = "check"
          /\ UNCHANGED <<waiting, request, spent>>
       \/ /\ spent["errors"] < MaxErrors
          /\ Spend("errors")
          /\ pc' = "check"
          /\ UNCHANGED <<waiting, request>>
    /\ UNCHANGED <<outside, handler, reloadRequested, keys, registry, fresh, answer,
                   asked>>

-----------------------------------------------------------------------------
(* Answering a request.                                                    *)

(* An Authorization header.  bearer: there is a non-empty "Bearer " value; *)
(* jws: its header decodes; kid: the key it names, or "none"; alg; signer: *)
(* whose private key signed it; exp: whether it has expired, "grace" being *)
(* within the leeway of jsonwebtoken's default validation; scope.          *)
Tokens(kids) ==
    [bearer : BOOLEAN, jws : BOOLEAN, kid : kids \union {"none"},
     alg : {"EdDSA", "other"}, signer : kids \union {"stranger"},
     exp : {"live", "grace", "expired", "missing"},
     scope : {"capability:read", "other", "none"}]

(* verify_bearer_token; which check fails is not told to anybody.          *)
VerifyBearerToken(token) ==
    /\ keys # <<>>
    /\ token.bearer
    /\ token.jws
    /\ token.kid \in DOMAIN keys
    /\ keys[token.kid] = "usable"
    /\ token.alg = "EdDSA"
    /\ token.signer = token.kid
    /\ token.exp \in {"live", "grace"}
    /\ token.scope = "capability:read"

(* ServeService::lookup.                                                   *)
Lookup(document, capability) ==
    CASE ~document.loads -> "503"
      [] document.loads /\ capability \in document.capabilities -> "200"
      [] OTHER -> "404_capability_not_found"

(* A plausible slip: what is not there is reported before the token is     *)
(* looked at.                                                              *)
BugBuildResponse(req, document) ==
    IF req.method # "GET" \/ req.path # "capability" THEN "404_not_found"
    ELSE IF req.capability = "malformed" THEN "400"
    ELSE IF Lookup(document, req.capability) = "200" /\ ~VerifyBearerToken(req.token)
         THEN "401"
    ELSE Lookup(document, req.capability)

(* build_response on a registry.  path: whether it is the prefix with one  *)
(* more segment; a segment that is not of uuid_string shape is malformed.  *)
BuildResponse(req, document) ==
    IF req.method # "GET" \/ req.path # "capability" THEN "404_not_found"
    ELSE IF req.capability = "malformed" THEN "400"
    ELSE IF ~VerifyBearerToken(req.token) THEN "401"
    ELSE Lookup(document, req.capability)

(* handle_request; a response that cannot be written is logged.            *)
HandleRequest ==
    /\ pc = "answer"
    /\ answer' = [status |-> BuildResponse(request, registry), version |-> registry.version]
    /\ pc' = "check"
    /\ UNCHANGED <<outside, handler, reloadRequested, keys, registry, fresh, waiting,
                   request, asked, spent>>

Serve ==
    \/ ServeCommand
    \/ InstallSighupHandler
    \/ Bind
    \/ CheckReload
    \/ ReadRegistryFile
    \/ InstallRegistry
    \/ Receive
    \/ HandleRequest

Next ==
    \/ TruncateFile
    \/ WriteFile
    \/ SendRequest
    \/ Hangup
    \/ Serve

(* The daemon's thread runs; nobody has to write, signal or send.          *)
Spec == Init /\ [][Next]_vars /\ WF_vars(Serve)

-----------------------------------------------------------------------------
(* Properties.                                                             *)

(* Every answer comes from one registry that was once in the file as a     *)
(* whole, however the file is rewritten around the reloads: a document     *)
(* that does not load never replaces the registry, and no request is ever  *)
(* told that there is none (reload, lookup).                               *)
AnswersAreWhole ==
    answer.status \in {"200", "404_capability_not_found", "503"} =>
        \E document \in written :
            /\ document.version = answer.version
            /\ (answer.status = "200") = (request.capability \in document.capabilities)
            /\ answer.status # "503"

(* Whose token it is: the holder of a configured key signed it for this    *)
(* scope.                                                                  *)
Issued(token) ==
    \E kid \in {k \in DOMAIN keys : keys[k] = "usable"} :
        /\ token.bearer /\ token.kid = kid /\ token.signer = kid
        /\ token.scope = "capability:read"

(* Whom the documents admit: a token that is not past its exp ...          *)
Entitled(token) == Issued(token) /\ token.exp = "live"

(* ... and whom jsonwebtoken's leeway admits as well: one that is past its *)
(* exp, by no more than that.                                              *)
Lingering(token) == Issued(token) /\ token.exp = "grace"

(* The answer says nothing of the registry: it would have been the same    *)
(* over any other one.                                                     *)
LearntNothing ==
    \A document \in Documents : BuildResponse(request, document) = answer.status

(* Nobody learns anything of the registry without a token of a configured  *)
(* key that is live or within the leeway: nobody with a token that ran out *)
(* before, that names no expiry, another scope or another's key (the order *)
(* of build_response's checks, and the empty key map that admits nobody).  *)
StrangersLearnNothing ==
    answer # NoAnswer /\ ~Entitled(request.token) /\ ~Lingering(request.token) =>
        LearntNothing

Current(v) == registry.version = v

(* No SIGHUP is lost, not even one that arrives while a reload is reading  *)
(* or while a request is answered: a file that was whole when it was sent, *)
(* and stays, is eventually the one served.                                *)
HangupTakesEffect ==
    \A v \in 1..(MaxWrites + 1) :
        (asked = v /\ file.version = v /\ file.loads)
            ~> (Current(v) \/ file.version # v \/ pc = "down")

(* Every request that reached the listener is answered.                    *)
EveryRequestIsAnswered == (waiting > 0) ~> (waiting = 0 /\ pc # "answer")

-----------------------------------------------------------------------------
(* What documents of the code say and the code does not do.                *)

(* "The token's `exp` claim is in the past." (AuthDenyReason::Expired):    *)
(* whoever holds such a token is denied and learns nothing.                *)
ExpiredLearnNothing ==
    answer # NoAnswer /\ request.token.exp \in {"grace", "expired"} => LearntNothing
=============================================================================
