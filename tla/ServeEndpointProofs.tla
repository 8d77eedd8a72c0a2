------------------------- MODULE ServeEndpointProofs -------------------------
(***************************************************************************)
(* Proofs about ServeEndpoint, for every set of capabilities, keys and     *)
(* requests, and for any number of rewrites, signals and requests.         *)
(***************************************************************************)
EXTENDS ServeEndpoint, TLAPS

(* Requests in the listener are requests that were sent.                   *)
SentInv ==
    /\ waiting <= spent["requests"]
    /\ spent["requests"] <= MaxRequests

(* What the file ever held as a whole.                                     *)
WrittenInv ==
    /\ \A document \in written : document.loads
    /\ file.loads => file \in written

(* The registry in memory, and the one about to replace it, were each in   *)
(* the file as a whole, from the startup on.                               *)
RegistryInv ==
    /\ pc \notin {"starting", "down"} => registry \in written
    /\ pc = "install" => fresh \in written

(* An answer is gone before the registry or the request it was given for   *)
(* may change.                                                             *)
AnswerInv ==
    /\ pc \in {"starting", "loaded", "handling", "reload", "install", "receive", "answer"} =>
          answer = NoAnswer
    /\ AnswersAreWhole
    /\ StrangersLearnNothing

IInv ==
    /\ TypeOK
    /\ SentInv
    /\ WrittenInv
    /\ RegistryInv
    /\ AnswerInv

-----------------------------------------------------------------------------
(* Lemmas about verify_bearer_token and build_response.                    *)

(* A token that is accepted was issued to its holder and is not past its   *)
(* exp, or not longer than the leeway lasts.                               *)
LEMMA VerifiedIsAdmitted ==
    ASSUME NEW token, VerifyBearerToken(token)
    PROVE  Entitled(token) \/ Lingering(token)
  BY DEF VerifyBearerToken, Entitled, Lingering, Issued

(* Without such a token the registry does not matter.                      *)
LEMMA UnverifiedSeesNothing ==
    ASSUME NEW req, ~VerifyBearerToken(req.token), NEW d1, NEW d2
    PROVE  BuildResponse(req, d1) = BuildResponse(req, d2)
  BY DEF BuildResponse

(* Over a registry that loaded, a lookup finds or does not find.           *)
LEMMA WholeRegistryAnswers ==
    ASSUME NEW req, NEW document, document.loads
    PROVE  LET status == BuildResponse(req, document)
           IN  /\ status \in Statuses \ {"none", "503"}
               /\ status = "200" => req.capability \in document.capabilities
               /\ status = "404_capability_not_found" =>
                     req.capability \notin document.capabilities
  BY DEF BuildResponse, Lookup, Statuses

-----------------------------------------------------------------------------
(* The invariant.                                                          *)

(* What a document is made of.                                             *)
LEMMA DocumentType ==
    ASSUME NEW v \in 0..(MaxWrites + 1), NEW cs \in SUBSET Capabilities, NEW l \in BOOLEAN
    PROVE  /\ Document(v, cs, l) \in Documents
           /\ Document(v, cs, l).version = v
           /\ Document(v, cs, l).loads = l
  BY DEF Document, Documents

(* And what its parts are.                                                 *)
LEMMA DocumentParts ==
    ASSUME NEW document \in Documents
    PROVE  /\ document.version \in 0..(MaxWrites + 1)
           /\ document.loads \in BOOLEAN
  BY DEF Document, Documents

(* The registry of a daemon that has read none.                            *)
LEMMA NoRegistryType == NoRegistry \in Documents
<1>1. 0 \in 0..(MaxWrites + 1) /\ {} \in SUBSET Capabilities /\ FALSE \in BOOLEAN
  BY BoundsAssumption
<1> QED
  BY <1>1, DocumentType DEF NoRegistry

(* The first state: nothing is read, sent or answered.                     *)
LEMMA InitInv == Init => IInv
<1> SUFFICES ASSUME Init
             PROVE  IInv
  OBVIOUS
<1>1. PICK cs \in SUBSET Capabilities, l \in BOOLEAN :
        file = Document(1, cs, l) /\ written = IF l THEN {file} ELSE {}
  BY DEF Init
<1>2. file \in Documents /\ file.loads = l
  BY <1>1, DocumentType, BoundsAssumption
<1>3. written \subseteq Documents
  BY <1>1, <1>2
<1>4. TypeOK
  <2>1. /\ answer \in [status : Statuses, version : 0..(MaxWrites + 1)]
        /\ waiting \in 0..MaxRequests /\ asked \in 0..(MaxWrites + 1)
    BY BoundsAssumption DEF Init, NoAnswer, Statuses
  <2>2. spent \in [{"hangups", "requests", "errors"} -> Nat]
    BY DEF Init
  <2>3. registry \in Documents /\ fresh \in Documents
    BY NoRegistryType DEF Init
  <2> QED
    BY <1>2, <1>3, <2>1, <2>2, <2>3 DEF Init, TypeOK, Stages
<1>5. SentInv
  BY BoundsAssumption DEF Init, SentInv
<1>6. WrittenInv
  BY <1>1, <1>2 DEF WrittenInv
<1>7. RegistryInv
  BY DEF Init, RegistryInv
<1>8. AnswerInv
  BY DEF Init, AnswerInv, AnswersAreWhole, StrangersLearnNothing, NoAnswer
<1> QED
  BY <1>4, <1>5, <1>6, <1>7, <1>8 DEF IInv

(* The answer, the request and the keys unchanged, and the file's history  *)
(* only longer: what was true of the answer still is.                      *)
LEMMA AnswerStays ==
    ASSUME AnswerInv, UNCHANGED <<answer, request, keys>>, written \subseteq written'
    PROVE  AnswersAreWhole' /\ StrangersLearnNothing'
<1>1. AnswersAreWhole'
  BY DEF AnswerInv, AnswersAreWhole
<1>2. StrangersLearnNothing'
  BY DEF AnswerInv, StrangersLearnNothing, LearntNothing, BuildResponse,
         VerifyBearerToken, Entitled, Lingering, Issued, Lookup
<1> QED
  BY <1>1, <1>2

(* With no answer standing there is nothing to say of it.                  *)
LEMMA NoAnswerIsFine ==
    ASSUME answer' = NoAnswer
    PROVE  AnswersAreWhole' /\ StrangersLearnNothing'
  BY DEF AnswersAreWhole, StrangersLearnNothing, NoAnswer

(* Those who write the file: its emptying is never a document it held.     *)
LEMMA FileStep ==
    ASSUME IInv, TruncateFile \/ WriteFile
    PROVE  IInv'
<1> USE DEF daemon
<1>1. CASE TruncateFile
  <2>1. file' \in Documents /\ ~file'.loads
    <3>1. file.version + 1 \in 0..(MaxWrites + 1)
      BY <1>1, DocumentParts, BoundsAssumption DEF TruncateFile, IInv, TypeOK
    <3> QED
      BY <1>1, <3>1, DocumentType DEF TruncateFile
  <2>2. UNCHANGED <<written, daemon, handler, reloadRequested, keys, waiting, asked, spent>>
    BY <1>1 DEF TruncateFile
  <2>3. AnswersAreWhole' /\ StrangersLearnNothing'
    BY <2>2, AnswerStays DEF IInv
  <2> QED
    BY <2>1, <2>2, <2>3 DEF IInv, TypeOK, SentInv, WrittenInv, RegistryInv, AnswerInv
<1>2. CASE WriteFile
  <2>1. file' \in Documents /\ file'.loads
    <3>1. PICK cs \in SUBSET Capabilities : file' = Document(file.version, cs, TRUE)
      BY <1>2 DEF WriteFile
    <3>2. file.version \in 0..(MaxWrites + 1) /\ TRUE \in BOOLEAN
      BY DocumentParts DEF IInv, TypeOK
    <3> QED
      BY <3>1, <3>2, DocumentType
  <2>2. written' = written \union {file'}
    BY <1>2 DEF WriteFile
  <2>3. UNCHANGED <<daemon, handler, reloadRequested, keys, waiting, asked, spent>>
    BY <1>2 DEF WriteFile
  <2>4. AnswersAreWhole' /\ StrangersLearnNothing'
    BY <2>2, <2>3, AnswerStays DEF IInv
  <2> QED
    BY <2>1, <2>2, <2>3, <2>4 DEF IInv, TypeOK, SentInv, WrittenInv, RegistryInv, AnswerInv
<1> QED
  BY <1>1, <1>2

(* Those who signal and ask.                                               *)
LEMMA ClientStep ==
    ASSUME IInv, SendRequest \/ Hangup
    PROVE  IInv'
<1> USE DEF daemon, outside
<1>1. AnswersAreWhole' /\ StrangersLearnNothing'
  BY AnswerStays DEF SendRequest, Hangup, IInv
<1>2. CASE SendRequest
  BY <1>1, <1>2, BoundsAssumption
  DEF SendRequest, Spend, Listening, IInv, TypeOK, SentInv, WrittenInv, RegistryInv, AnswerInv
<1>3. CASE Hangup
  <2>1. asked' \in 0..(MaxWrites + 1)
    BY <1>3, DocumentParts, BoundsAssumption DEF Hangup, RequestReload, IInv, TypeOK
  <2>2. /\ spent' \in [{"hangups", "requests", "errors"} -> Nat]
        /\ spent'["requests"] = spent["requests"]
    BY <1>3 DEF Hangup, Spend, IInv, TypeOK
  <2>3. \/ pc' = pc /\ reloadRequested' = TRUE
        \/ pc' = "down" /\ reloadRequested' = reloadRequested
    BY <1>3 DEF Hangup, RequestReload
  <2> QED
    BY <1>1, <1>3, <2>1, <2>2, <2>3
    DEF Hangup, IInv, TypeOK, Stages, SentInv, WrittenInv, RegistryInv, AnswerInv
<1> QED
  BY <1>2, <1>3

(* The daemon up to its loop: it gets there with a registry only.          *)
LEMMA StartupStep ==
    ASSUME IInv, ServeCommand \/ InstallSighupHandler \/ Bind
    PROVE  IInv'
<1> USE DEF outside
<1>1. AnswersAreWhole' /\ StrangersLearnNothing'
  BY AnswerStays DEF ServeCommand, InstallSighupHandler, Bind, IInv
<1>2. CASE ServeCommand
  BY <1>1, <1>2
  DEF ServeCommand, IInv, TypeOK, Stages, SentInv, WrittenInv, RegistryInv, AnswerInv
<1>3. CASE InstallSighupHandler
  BY <1>1, <1>3
  DEF InstallSighupHandler, IInv, TypeOK, Stages, SentInv, WrittenInv, RegistryInv, AnswerInv
<1>4. CASE Bind
  BY <1>1, <1>4
  DEF Bind, IInv, TypeOK, Stages, SentInv, WrittenInv, RegistryInv, AnswerInv
<1> QED
  BY <1>2, <1>3, <1>4

(* The reload: a registry is replaced by a whole one or not at all.        *)
LEMMA ReloadStep ==
    ASSUME IInv, CheckReload \/ ReadRegistryFile \/ InstallRegistry
    PROVE  IInv'
<1> USE DEF outside
<1>1. answer' = NoAnswer
  BY DEF CheckReload, ReadRegistryFile, InstallRegistry, IInv, AnswerInv
<1>2. AnswersAreWhole' /\ StrangersLearnNothing'
  BY <1>1, NoAnswerIsFine
<1>3. NoAnswer \in [status : Statuses, version : 0..(MaxWrites + 1)]
  BY BoundsAssumption DEF NoAnswer, Statuses
<1>4. CASE CheckReload
  BY <1>1, <1>2, <1>3, <1>4
  DEF CheckReload, IInv, TypeOK, Stages, SentInv, WrittenInv, RegistryInv, AnswerInv
<1>5. CASE ReadRegistryFile
  BY <1>1, <1>2, <1>3, <1>5
  DEF ReadRegistryFile, IInv, TypeOK, Stages, SentInv, WrittenInv, RegistryInv, AnswerInv
<1>6. CASE InstallRegistry
  BY <1>1, <1>2, <1>3, <1>6, NoRegistryType
  DEF InstallRegistry, IInv, TypeOK, Stages, SentInv, WrittenInv, RegistryInv, AnswerInv
<1> QED
  BY <1>4, <1>5, <1>6

(* recv_timeout.                                                           *)
LEMMA ReceiveStep ==
    ASSUME IInv, Receive
    PROVE  IInv'
<1> USE DEF outside
<1>1. answer' = NoAnswer
  BY DEF Receive, IInv, AnswerInv
<1>2. AnswersAreWhole' /\ StrangersLearnNothing'
  BY <1>1, NoAnswerIsFine
<1>3. /\ spent' \in [{"hangups", "requests", "errors"} -> Nat]
      /\ spent'["requests"] = spent["requests"]
  BY DEF Receive, Spend, IInv, TypeOK
<1>4. waiting' \in 0..MaxRequests /\ waiting' <= waiting
  BY BoundsAssumption DEF Receive, IInv, TypeOK
<1>5. request' \in Requests \union {NoRequest} /\ pc' \in {"answer", "check"}
  BY DEF Receive, IInv, TypeOK
<1>6. TypeOK'
  BY <1>3, <1>4, <1>5 DEF Receive, IInv, TypeOK, Stages
<1>7. SentInv'
  BY <1>3, <1>4, BoundsAssumption DEF IInv, TypeOK, SentInv
<1> QED
  BY <1>1, <1>2, <1>5, <1>6, <1>7 DEF Receive, IInv, WrittenInv, RegistryInv, AnswerInv

(* handle_request: an answer over the registry in memory is an answer over *)
(* a document the file once held, and tells a stranger nothing of it.      *)
LEMMA HandleStep ==
    ASSUME IInv, HandleRequest
    PROVE  IInv'
<1> USE DEF outside
<1>1. /\ pc = "answer" /\ pc' = "check"
      /\ answer' = [status |-> BuildResponse(request, registry), version |-> registry.version]
      /\ UNCHANGED <<outside, handler, reloadRequested, keys, registry, fresh, waiting,
                     request, asked, spent>>
  BY DEF HandleRequest
<1>2. registry \in written /\ registry \in Documents /\ registry.loads
  BY <1>1 DEF IInv, RegistryInv, WrittenInv, TypeOK
<1>3. /\ BuildResponse(request, registry) \in Statuses \ {"none", "503"}
      /\ BuildResponse(request, registry) = "200" =>
            request.capability \in registry.capabilities
      /\ BuildResponse(request, registry) = "404_capability_not_found" =>
            request.capability \notin registry.capabilities
  BY <1>2, WholeRegistryAnswers
<1>4. AnswersAreWhole'
  BY <1>1, <1>2, <1>3 DEF AnswersAreWhole
<1>5. StrangersLearnNothing'
  <2> SUFFICES ASSUME ~Entitled(request.token)', ~Lingering(request.token)',
                      NEW document \in Documents
               PROVE  BuildResponse(request, document)' = answer'.status
    BY DEF StrangersLearnNothing, LearntNothing
  <2>1. ~Entitled(request.token) /\ ~Lingering(request.token)
    BY <1>1 DEF Entitled, Lingering, Issued
  <2>2. BuildResponse(request, document) = BuildResponse(request, registry)
    BY <2>1, VerifiedIsAdmitted, UnverifiedSeesNothing
  <2>3. BuildResponse(request, document)' = BuildResponse(request, document)
    BY <1>1 DEF BuildResponse, VerifyBearerToken, Lookup
  <2> QED
    BY <1>1, <2>2, <2>3
<1>6. TypeOK'
  <2>1. answer' \in [status : Statuses, version : 0..(MaxWrites + 1)]
    BY <1>1, <1>2, <1>3, DocumentParts
  <2> QED
    BY <1>1, <2>1 DEF IInv, TypeOK, Stages
<1> QED
  BY <1>1, <1>4, <1>5, <1>6 DEF IInv, SentInv, WrittenInv, RegistryInv, AnswerInv

(* Nothing changes in a stuttering step.                                   *)
LEMMA StutterStep ==
    ASSUME IInv, UNCHANGED vars
    PROVE  IInv'
<1>1. AnswersAreWhole' /\ StrangersLearnNothing'
  BY AnswerStays DEF vars, IInv
<1> QED
  BY <1>1 DEF vars, IInv, TypeOK, SentInv, WrittenInv, RegistryInv, AnswerInv

(* The invariant holds for good.                                           *)
THEOREM Invariance == Spec => []IInv
<1>1. Init => IInv
  BY InitInv
<1>2. IInv /\ [Next]_vars => IInv'
  BY FileStep, ClientStep, StartupStep, ReloadStep, ReceiveStep, HandleStep, StutterStep
  DEF Next, Serve
<1> QED
  BY <1>1, <1>2, PTL DEF Spec

-----------------------------------------------------------------------------
(* The properties.                                                         *)

(* However the file is rewritten around the reloads, every answer is given *)
(* over one document the file once held as a whole, and none says that     *)
(* there is no registry (reload, lookup).                                  *)
THEOREM AnswersAreAlwaysWhole == Spec => []AnswersAreWhole
<1>1. IInv => AnswersAreWhole
  BY DEF IInv, AnswerInv
<1> QED
  BY <1>1, Invariance, PTL

(* Whoever holds no token that a configured key issued, or one that is     *)
(* past its exp by more than the leeway, learns nothing of the registry    *)
(* (build_response, verify_bearer_token).                                  *)
THEOREM StrangersNeverLearn == Spec => []StrangersLearnNothing
<1>1. IInv => StrangersLearnNothing
  BY DEF IInv, AnswerInv
<1> QED
  BY <1>1, Invariance, PTL
=============================================================================
