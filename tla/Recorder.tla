------------------------------ MODULE Recorder ------------------------------
(***************************************************************************)
(* `imposter proxy` (internal/proxy): handlers forward requests upstream   *)
(* and hand each exchange over an unbuffered channel to one recorder       *)
(* goroutine, which writes the response to a file, unless an equal one is  *)
(* there, and rewrites the configuration with all resources so far.        *)
(* Writes may fail; the proxy may be stopped anywhere and started again in *)
(* the same directory.                                                     *)
(***************************************************************************)
EXTENDS Naturals

CONSTANTS
    Requests,      \* [base, url, soap]: what its file is named after; method, path and query; SOAP action
    Bodies,        \* response bodies, after the rewriting of URLs
    Absent,        \* no body, no file, no configuration
    Broken,        \* a file whose writing was cut short
    MaxExchanges   \* bound on the exchanges

VARIABLES
    ignoreDuplicates,  \* the option
    recorder,   \* the recorder goroutine: [pc, exchange, prefix, file], pc "stopped" without a proxy
    seen,       \* requestHashes
    stored,     \* responseHashes: body -> its file
    resources,  \* recorded resources: [request, file]; the body it stands for (history)
    disk,       \* response file -> body or Broken
    conf,       \* the configuration file: Absent, Broken or the resources in it
    exchanges,  \* exchanges received, also the source of fresh UUIDs
    handedOver, \* requests the recorder received in this run (history)
    notWritten  \* requests whose recording failed in this run (history)

recorderVars == <<ignoreDuplicates, recorder, seen, stored, resources, disk, conf,
                  exchanges, handedOver, notWritten>>

\* The names of response files.
ResponseNames ==
    {req.base : req \in Requests} \X {req.soap : req \in Requests} \X Nat
    \X ({<<>>} \cup {<<req.url>> : req \in Requests} \cup ({"uuid"} \X Nat))
ASSUME AbsentAssumption == Absent \notin ResponseNames

Waiting == [pc |-> "receive", exchange |-> Absent, prefix |-> 0, file |-> Absent]

RecorderInit ==
    /\ ignoreDuplicates \in BOOLEAN
    /\ recorder = Waiting
    /\ seen = {} /\ stored = <<>> /\ resources = {} /\ disk = <<>> /\ conf = Absent
    /\ exchanges = 0 /\ handedOver = {} /\ notWritten = {}

\* Mutant: SOAP operations of one endpoint are not told apart.
HashOfUrl(req) == <<req.url>>
RequestHash(req) == <<req.url, req.soap>>

Remember(req) == seen \cup {RequestHash(req)}

\* The exchange of one of the handlers that wait at the channel: they share nothing
\* else, so which of them is next is all there is to their concurrency.  A handler
\* answers its client once its exchange is received; one whose upstream failed
\* answers 502 and hands over nothing.
Handle(req, body) ==
    /\ recorder.pc = "receive" /\ exchanges < MaxExchanges
    /\ exchanges' = exchanges + 1
    /\ handedOver' = handedOver \cup {req}
    /\ LET duplicate == RequestHash(req) \in seen
       IN IF duplicate /\ ignoreDuplicates THEN UNCHANGED <<recorder, seen>>
          ELSE /\ recorder' = [Waiting EXCEPT !.pc = "file", !.exchange = [request |-> req, body |-> body],
                                  !.prefix = IF duplicate THEN exchanges' ELSE 0]
               /\ seen' = Remember(req)
    /\ UNCHANGED <<ignoreDuplicates, stored, resources, disk, conf, notWritten>>

\* A response file's name ends in nothing, a hash of the URL or a UUID.
HashOf(req) == <<req.url>>
FreshUuid   == <<"uuid", exchanges>>

\* Mutant: the file is named after the request alone.
PlainFileName(req, prefix) == <<req.base, req.soap, prefix, <<>>>>
\* A name that is taken gets a hash of the URL, and then a UUID.
RespFileName(req, prefix) ==
    LET name(suffix) == <<req.base, req.soap, prefix, suffix>>
    IN IF name(<<>>) \notin DOMAIN disk THEN name(<<>>)
       ELSE IF name(HashOf(req)) \notin DOMAIN disk THEN name(HashOf(req)) ELSE name(FreshUuid)

With(files, name, content) ==
    [n \in DOMAIN files \cup {name} |-> IF n = name THEN content ELSE files[n]]

ResourceFor(e, file) == [request |-> e.request, file |-> file, body |-> e.body]

\* Mutant: the body's hash is stored before the file is written.
StoredThoughNotWritten(e, name) ==
    /\ recorder' = Waiting
    /\ disk' \in {disk, With(disk, name, Broken)}
    /\ stored' = With(stored, e.body, name)
    /\ notWritten' = notWritten \cup {e.request}

\* Half way, or at once.  A proxy that is stopped in the write leaves the same.
ResponseNotWritten(e, name) ==
    /\ recorder' = Waiting
    /\ disk' \in {disk, With(disk, name, Broken)}
    /\ notWritten' = notWritten \cup {e.request}
    /\ UNCHANGED stored

GetResponseFile ==
    /\ recorder.pc = "file"
    /\ LET e == recorder.exchange
           name == RespFileName(e.request, recorder.prefix)
           written == [recorder EXCEPT !.pc = "config"]
       IN \/ /\ e.body = Absent
             /\ recorder' = [written EXCEPT !.file = Absent]
             /\ UNCHANGED <<stored, disk, notWritten>>
          \/ /\ e.body # Absent /\ e.body \in DOMAIN stored
             /\ recorder' = [written EXCEPT !.file = stored[e.body]]
             /\ UNCHANGED <<stored, disk, notWritten>>
          \/ /\ e.body # Absent /\ e.body \notin DOMAIN stored
             /\ recorder' = [written EXCEPT !.file = name]
             /\ disk' = With(disk, name, e.body)
             /\ stored' = With(stored, e.body, name)
             /\ UNCHANGED notWritten
          \/ e.body # Absent /\ e.body \notin DOMAIN stored /\ ResponseNotWritten(e, name)
    /\ UNCHANGED <<ignoreDuplicates, seen, resources, conf, exchanges, handedOver>>

UpdateConfigFile ==
    /\ recorder.pc = "config"
    /\ resources' = resources \cup {ResourceFor(recorder.exchange, recorder.file)}
    /\ \/ conf' = Broken /\ recorder' = [recorder EXCEPT !.pc = "fill"]
       \/ UNCHANGED conf /\ recorder' = Waiting               \* it cannot be opened
    /\ UNCHANGED <<ignoreDuplicates, seen, stored, disk, exchanges, handedOver, notWritten>>

\* The text replaces the truncated file, or the disk is full.
FillConfigFile ==
    /\ recorder.pc = "fill"
    /\ conf' \in {resources, Broken}
    /\ recorder' = Waiting
    /\ UNCHANGED <<ignoreDuplicates, seen, stored, resources, disk, exchanges, handedOver, notWritten>>

ProxyStopped ==
    /\ recorder.pc # "stopped"
    /\ recorder' = [Waiting EXCEPT !.pc = "stopped"]
    /\ UNCHANGED <<ignoreDuplicates, seen, stored, resources, disk, conf, exchanges, handedOver, notWritten>>

\* A configuration that exists is not overwritten: StartRecorder refuses to start.
StartRecorder ==
    /\ recorder.pc = "stopped" /\ conf = Absent
    /\ recorder' = Waiting
    /\ seen' = {} /\ stored' = <<>> /\ resources' = {} /\ handedOver' = {} /\ notWritten' = {}
    /\ UNCHANGED <<ignoreDuplicates, disk, conf, exchanges>>

\* The user makes room for another recording, and leaves the responses.
ConfigRemoved ==
    /\ recorder.pc = "stopped" /\ conf # Absent
    /\ conf' = Absent
    /\ UNCHANGED <<ignoreDuplicates, recorder, seen, stored, resources, disk, exchanges, handedOver, notWritten>>

RecorderNext ==
    \/ \E req \in Requests, body \in Bodies \cup {Absent} : Handle(req, body)
    \/ GetResponseFile \/ UpdateConfigFile \/ FillConfigFile \/ ProxyStopped \/ StartRecorder
    \/ ConfigRemoved

RecorderSpec == RecorderInit /\ [][RecorderNext]_recorderVars
-----------------------------------------------------------------------------
RecorderTypeOK ==
    /\ recorder.pc \in {"receive", "file", "config", "fill", "stopped"}
    /\ \A b \in DOMAIN stored : stored[b] \in DOMAIN disk
    /\ handedOver \subseteq Requests /\ notWritten \subseteq handedOver

Readable == conf \notin {Absent, Broken}

(* The mock recorded answers as the upstream did: the file of each resource *)
(* in the configuration holds the body of its exchange, although requests   *)
(* share file names, equal bodies share files and writes fail or are cut    *)
(* short, now or in an earlier run (files.go:108-118).                      *)
MockAnswersAsUpstream ==
    Readable => \A r \in conf : IF r.file = Absent THEN r.body = Absent ELSE disk[r.file] = r.body

SameRequest(q, r) == q.url = r.url /\ q.soap = r.soap

(* Every request the recorder received is among its resources, unless       *)
(* writing its response failed: it then counts as a duplicate from there on *)
(* (recorder.go:74) and is not recorded in this run.                        *)
OnlyFailuresAreMissing ==
    recorder.pc = "receive" =>
        \A req \in handedOver : \E r \in notWritten \cup {res.request : res \in resources} : SameRequest(r, req)
=============================================================================
