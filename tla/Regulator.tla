----------------------------- MODULE Regulator ------------------------------
(***************************************************************************)
(* systems/team1-regulator_operation_devsecops: the regulator that         *)
(* certifies firmware, drones and operators, and revokes certificates.     *)
(*                                                                         *)
(* One event loop takes the requests of all topics in their order, and no  *)
(* handler ever really waits, so that each runs in one step.  The          *)
(* certificates are in memory and, after every change, in two files        *)
(* written one after the other; the process may die at any point, and a    *)
(* write may fail.  The REST API is another process: each of its calls     *)
(* connects to the broker, publishes its request and takes the first       *)
(* message of the result topic.                                            *)
(*                                                                         *)
(* The tests of a firmware pass and certificates do not expire: the first  *)
(* are mocked in the code, and a year is beyond the model.  Signatures are *)
(* left out; nobody changes a file but the regulator.                      *)
(***************************************************************************)
EXTENDS Naturals, Sequences, FiniteSets

CONSTANTS Commits, Serials, Operators, \* what firmware, drones, operators are called
          SuffixOf,     \* the last eight characters of a name
          Callers,      \* calls of the REST API
          MaxSeconds,   \* bound: how long the model's clock runs
          MaxRequests,  \* bound: requests ever published
          MaxFaults,    \* bound: how often the process dies or a write fails
          None

Subjects == Commits \cup Serials \cup Operators

VARIABLES certificates, crl, \* in memory
          files,             \* what the two files hold
          running,
          inbox,             \* requests published and not yet handled
          asked,             \* how many requests were published
          outbox,            \* results published that the broker has not yet delivered
          calls,             \* what each API call sent and got
          second,            \* the time
          faults,            \* how often the process died or a write failed
          answered,          \* ghost: the results published
          unsaved            \* ghost: revocations in memory whose write failed,
                             \* and none succeeded since

regulatorVars == <<certificates, crl, files, running, inbox, asked, outbox, calls, second,
                   faults, answered, unsaved>>
storeVars == <<certificates, crl, files, unsaved>>

Kinds == {"firmware", "drone", "operator"}

\* CERT-<type>-<time in seconds>-<end of the subject's name>.
Id == [type : Kinds, second : 0 .. MaxSeconds, suffix : {SuffixOf[s] : s \in Subjects}]
CertificateId(type, subject) ==
  [type |-> type, second |-> second, suffix |-> SuffixOf[subject]]

ASSUME RegulatorAssumption ==
  /\ DOMAIN SuffixOf = Subjects
  /\ MaxSeconds \in Nat /\ MaxRequests \in Nat /\ MaxFaults \in Nat
  /\ None \notin Id

\* None stands for an id that the regulator never gave.  revokedThen is a ghost:
\* the revocations answered when a drone's request was published.
RegulatorRequest ==
  [kind : {"firmware", "operator"}, number : Nat, subject : Commits \cup Operators]
  \cup [kind : {"drone"}, number : Nat, subject : Serials, firmware : Id \cup {None},
        revokedThen : SUBSET Id]
  \cup [kind : {"insurer"}, number : Nat]
  \cup [kind : {"verify", "revoke"}, number : Nat, certificate : Id \cup {None}]

\* A certificate; firmware and revokedThen are those of the drone's request.
Certificate == [subject : Subjects, firmware : Id \cup {None}, revokedThen : SUBSET Id]

\* A file whose writing was broken off cannot be read.
Cut == [cut |-> TRUE]
Whole(content) == [cut |-> FALSE, content |-> content]

RegulatorTypeOK ==
  /\ DOMAIN certificates \subseteq Id
  /\ \A id \in DOMAIN certificates : certificates[id] \in Certificate
  /\ crl \subseteq Id
  /\ DOMAIN files = {"certificates", "crl"}
  /\ running \in BOOLEAN
  /\ inbox \in Seq(RegulatorRequest)
  /\ asked \in 0 .. MaxRequests /\ second \in 0 .. MaxSeconds
  /\ faults \in 0 .. MaxFaults
  /\ unsaved \subseteq crl

RegulatorInit ==
  /\ certificates = <<>> /\ crl = {}
  /\ files = [certificates |-> Whole(<<>>), crl |-> Whole({})]
  /\ running = TRUE
  /\ inbox = <<>> /\ asked = 0 /\ outbox = <<>>
  /\ calls = [c \in Callers |-> None]
  /\ second = 0 /\ faults = 0
  /\ answered = {} /\ unsaved = {}

Tick ==
  /\ second < MaxSeconds
  /\ second' = second + 1
  /\ UNCHANGED <<storeVars, running, inbox, asked, outbox, calls, faults, answered>>

-----------------------------------------------------------------------------
(* Requests.  Certificates are named that somebody was told of, or no      *)
(* certificate.                                                            *)

\* What was answered to be issued; what was answered to be revoked, but for
\* answers given while the revocation was unsaved.
Issued == {a.certificate : a \in {b \in answered : b.kind \in Kinds}} \ {None}
Revoked ==
  {a.certificate : a \in {b \in answered : b.kind = "revoke" /\ b.saved}} \ {None}

Requested(n) ==
  [kind : {"firmware"}, number : {n}, subject : Commits]
  \cup [kind : {"operator"}, number : {n}, subject : Operators]
  \cup [kind : {"drone"}, number : {n}, subject : Serials,
        firmware : Issued \cup {None}, revokedThen : {Revoked}]
  \cup [kind : {"insurer"}, number : {n}]
  \cup [kind : {"verify", "revoke"}, number : {n}, certificate : Issued \cup {None}]

\* A request for a regulator that is not there is lost.
Sent(m) ==
  /\ asked < MaxRequests
  /\ asked' = asked + 1
  /\ inbox' = IF running THEN Append(inbox, m) ELSE inbox

Waits(c) == calls[c] # None /\ calls[c].got = None
UnderWay(kind) ==
  \/ \E i \in DOMAIN inbox : inbox[i].kind = kind
  \/ \E i \in DOMAIN outbox : outbox[i].kind = kind
  \/ \E c \in Callers : Waits(c) /\ calls[c].request.kind = kind

\* The ghost alone says that no other request of its kind was under way during
\* a call.
NotAlone(kind) ==
  [c \in Callers |-> IF Waits(c) /\ calls[c].request.kind = kind
                     THEN [calls[c] EXCEPT !.alone = FALSE] ELSE calls[c]]

\* Other systems publish and do not wait.
Publish(m) ==
  /\ Sent(m)
  /\ calls' = NotAlone(m.kind)
  /\ UNCHANGED <<storeVars, running, outbox, second, faults, answered>>

\* send_and_wait, up to the wait.  It subscribes before it publishes, on one
\* connection: a result that the broker forwards later reaches the call.
Call(c, m) ==
  /\ calls[c] = None
  /\ m.kind \in {"firmware", "drone", "insurer"}
  /\ Sent(m)
  /\ calls' = [NotAlone(m.kind) EXCEPT ![c] =
                 [request |-> m, got |-> None, alone |-> ~UnderWay(m.kind)]]
  /\ UNCHANGED <<storeVars, running, outbox, second, faults, answered>>

\* wait_for ends after ten seconds.
CallTimeout(c) ==
  /\ Waits(c)
  /\ calls' = [calls EXCEPT ![c].got = [number |-> 0]]
  /\ UNCHANGED <<storeVars, running, inbox, asked, outbox, second, faults, answered>>

\* Mutant: a call takes whatever result comes.
DeliverToAll ==
  /\ outbox # <<>>
  /\ outbox' = Tail(outbox)
  /\ calls' = [c \in Callers |->
       IF Waits(c) THEN [calls[c] EXCEPT !.got = Head(outbox)] ELSE calls[c]]
  /\ UNCHANGED <<storeVars, running, inbox, asked, second, faults, answered>>

\* The broker forwards a result; the calls that wait on its topic take it.
Deliver ==
  /\ outbox # <<>>
  /\ outbox' = Tail(outbox)
  /\ calls' = [c \in Callers |->
       IF Waits(c) /\ calls[c].request.kind = Head(outbox).kind
       THEN [calls[c] EXCEPT !.got = Head(outbox)] ELSE calls[c]]
  /\ UNCHANGED <<storeVars, running, inbox, asked, second, faults, answered>>

-----------------------------------------------------------------------------
(* CertificateManager *)

\* Mutant: the list of the revoked ones is not looked at.
ValidUnlisted(id) == id \in DOMAIN certificates

\* verify_certificate.
Valid(id) == id \in DOMAIN certificates /\ id \notin crl

WithCertificate(m, firmware, revokedThen) ==
  LET id == CertificateId(m.kind, m.subject)
  IN  [i \in DOMAIN certificates \cup {id} |->
         IF i = id
         THEN [subject |-> m.subject, firmware |-> firmware, revokedThen |-> revokedThen]
         ELSE certificates[i]]

\* What the files may hold before _save is through.
Unfinished(certs, list) ==
  {files, [files EXCEPT !.certificates = Cut],
   [files EXCEPT !.certificates = Whole(certs)],
   [certificates |-> Whole(certs), crl |-> Cut]}

Written(certs, list) == [certificates |-> Whole(certs), crl |-> Whole(list)]

\* Mutant: the files are written before the change.
SaveBefore(certs, list) ==
  /\ certificates' = certs /\ crl' = list
  /\ files' = Written(certificates, crl)
  /\ unsaved' = {}
  /\ UNCHANGED faults

\* _save, when nothing stops it.
Save(certs, list) ==
  /\ certificates' = certs /\ crl' = list
  /\ files' = Written(certs, list)
  /\ unsaved' = {}
  /\ UNCHANGED faults

\* _save raises: the change stays in memory.
SaveFails(certs, list) ==
  /\ faults < MaxFaults /\ faults' = faults + 1
  /\ certificates' = certs /\ crl' = list
  /\ files' \in Unfinished(certs, list)
  /\ unsaved' = unsaved \cup (list \ crl)

-----------------------------------------------------------------------------
(* The handlers *)

Takes(m) ==
  /\ running
  /\ inbox # <<>> /\ m = Head(inbox)
  /\ inbox' = Tail(inbox)
  /\ UNCHANGED <<running, asked, calls, second>>

\* The result is published.
Answer(result) ==
  /\ answered' = answered \cup {result}
  /\ outbox' = Append(outbox, result)

NoAnswer == UNCHANGED <<answered, outbox>>

\* A handler that changes certificates.  If _save raises it only logs that.
Change(certs, list, result) ==
  \/ Save(certs, list) /\ Answer(result)
  \/ SaveFails(certs, list) /\ NoAnswer

NoChange == UNCHANGED <<storeVars, faults>>

Certified(m, id) ==
  [kind |-> m.kind, number |-> m.number, subject |-> m.subject, certificate |-> id]

\* FirmwareHandler and OperatorHandler.
HandleIssue(m) ==
  /\ m.kind \in {"firmware", "operator"}
  /\ Takes(m)
  /\ Change(WithCertificate(m, None, {}), crl,
            Certified(m, CertificateId(m.kind, m.subject)))

\* DroneHandler.  The certificate named may be one of anything.
HandleDrone(m) ==
  /\ m.kind = "drone"
  /\ Takes(m)
  /\ IF Valid(m.firmware)
     THEN Change(WithCertificate(m, m.firmware, m.revokedThen), crl,
                 Certified(m, CertificateId("drone", m.subject)))
     ELSE NoChange /\ Answer(Certified(m, None))

\* InsurerHandler approves whatever it is asked.
HandleInsurer(m) ==
  /\ m.kind = "insurer"
  /\ Takes(m)
  /\ NoChange
  /\ Answer([kind |-> "insurer", number |-> m.number])

\* The answer about a valid certificate carries its dates, which publish cannot
\* turn into JSON: only the other answer leaves the regulator.
HandleVerify(m) ==
  /\ m.kind = "verify"
  /\ Takes(m)
  /\ IF Valid(m.certificate)
     THEN NoAnswer
     ELSE Answer([kind |-> "verify", number |-> m.number, certificate |-> m.certificate])
  /\ NoChange

\* saved is a ghost.
Revocation(m, pending) ==
  [kind |-> "revoke", number |-> m.number, certificate |-> m.certificate,
   saved |-> m.certificate \notin pending]

\* The answer is the same whether the certificate is known or not, and whether
\* an earlier revocation of it was saved or not.
HandleRevoke(m) ==
  /\ m.kind = "revoke"
  /\ Takes(m)
  /\ IF m.certificate \in DOMAIN certificates \ crl
     THEN Change(certificates, crl \cup {m.certificate}, Revocation(m, {}))
     ELSE NoChange /\ Answer(Revocation(m, unsaved))

-----------------------------------------------------------------------------
(* Crashes *)

\* Memory and the requests that wait are lost, and the last results with them
\* if they have not left the process.
Dies ==
  /\ running /\ faults < MaxFaults
  /\ running' = FALSE /\ faults' = faults + 1
  /\ certificates' = <<>> /\ crl' = {} /\ unsaved' = {}
  /\ inbox' = <<>>
  /\ \E n \in 0 .. Len(outbox) : outbox' = SubSeq(outbox, 1, n)
  /\ UNCHANGED <<asked, calls, second, answered>>

\* What the files may hold when the process dies while it saves.
Interrupted(certs, list) == Unfinished(certs, list) \cup {Written(certs, list)}

Crash == Dies /\ UNCHANGED files

CrashWhileSaving(m) ==
  /\ inbox # <<>> /\ m = Head(inbox)
  /\ Dies
  /\ \/ /\ m.kind \in {"firmware", "operator"}
        /\ files' \in Interrupted(WithCertificate(m, None, {}), crl)
     \/ /\ m.kind = "drone" /\ Valid(m.firmware)
        /\ files' \in Interrupted(WithCertificate(m, m.firmware, m.revokedThen), crl)
     \/ /\ m.kind = "revoke" /\ m.certificate \in DOMAIN certificates \ crl
        /\ files' \in Interrupted(certificates, crl \cup {m.certificate})

\* _load; a cut file ends every attempt to start.
Restart ==
  /\ ~running
  /\ \A f \in DOMAIN files : ~files[f].cut
  /\ running' = TRUE
  /\ certificates' = files.certificates.content
  /\ crl' = files.crl.content
  /\ UNCHANGED <<files, inbox, asked, outbox, calls, second, faults, answered, unsaved>>

RegulatorNext ==
  \/ Tick
  \/ \E m \in Requested(asked + 1) : Publish(m) \/ \E c \in Callers : Call(c, m)
  \/ \E c \in Callers : CallTimeout(c)
  \/ Deliver
  \/ inbox # <<>> /\ LET m == Head(inbox)
                     IN  HandleIssue(m) \/ HandleDrone(m) \/ HandleInsurer(m)
                         \/ HandleVerify(m) \/ HandleRevoke(m) \/ CrashWhileSaving(m)
  \/ Crash \/ Restart

RegulatorSpec == RegulatorInit /\ [][RegulatorNext]_regulatorVars

-----------------------------------------------------------------------------
\* Once the regulator has answered that a certificate is revoked it never calls
\* it valid again, however often the process dies and wherever, and whatever
\* write of the files fails: but for an answer to a request that only repeats
\* one whose own write failed, and after which no write succeeded yet.
RevokedStaysRevoked == running => \A id \in Revoked : ~Valid(id)

\* No drone is certified on a firmware certificate that had been answered to be
\* revoked, as above, before the drone's request was published.
DronesOnGoodFirmware ==
  \A id \in DOMAIN certificates :
    LET cert == certificates[id]
    IN  cert.firmware = None \/ cert.firmware \notin cert.revokedThen

\* A certificate somebody was told of is there, after a restart or a write that
\* failed as well, and names its subject, unless another name with the same end got a certificate
\* in the same second: the two have one id.
IssuedAreStored ==
  running =>
    \A a \in {b \in answered : b.kind \in Kinds /\ b.certificate # None} :
      /\ a.certificate \in DOMAIN certificates
      /\ \/ certificates[a.certificate].subject = a.subject
         \/ LET other == certificates[a.certificate].subject
            IN  other # a.subject /\ SuffixOf[other] = SuffixOf[a.subject]

\* A call of the API that got the result of another request was not the only
\* one of its kind: alone it gets its own result or none.
AloneGetsOwn ==
  \A c \in Callers :
    calls[c] # None /\ calls[c].got # None /\ calls[c].alone =>
      calls[c].got.number \in {0, calls[c].request.number}
=============================================================================
