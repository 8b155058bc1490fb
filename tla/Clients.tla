------------------------------- MODULE Clients ------------------------------
(***************************************************************************)
(* The programs that use the asset store over HTTP: the bulk loader        *)
(* (tools/bulk-loader), which puts the rows of a manifest and retries, and *)
(* the worker (tools/worker-sim), which reads inputs by alias, checks them *)
(* against trusted checksums, puts its outputs and publishes a manifest of *)
(* them last.  The server's side of PUT /objects is write_object in two    *)
(* steps, reservation and commit; a name stays bound to the asset it was   *)
(* reserved for, also when the upload failed.  A request may be lost or    *)
(* served after its client has given up; an answer may be lost.            *)
(***************************************************************************)
EXTENDS Integers, Sequences

CONSTANTS
  Loaders, Workers,
  Names,       \* qualified aliases
  Rows,        \* Rows[l]: the loader's manifest, [name, data] by [name, data]
  MaxRetries,  \* --max-retries
  Inputs,      \* Inputs[w]: the task's inputs, [name, checksum]
  Outputs,     \* Outputs[w]: output-0001.bin and so on under result_prefix
  ManifestOf,  \* ManifestOf[w]: manifest.json under result_prefix
  None

Clients == Loaders \cup Workers

ASSUME ClientsAssumption ==
  /\ MaxRetries \in Nat /\ Loaders \cap Workers = {} /\ None \notin Clients \cup Nat
  /\ \A l \in Loaders :
       /\ Len(Rows[l]) \in Nat /\ DOMAIN Rows[l] = 1..Len(Rows[l])
       /\ \A i \in DOMAIN Rows[l] : Rows[l][i].name \in Names
  /\ \A w \in Workers :
       /\ Len(Inputs[w]) \in Nat \ {0} /\ DOMAIN Inputs[w] = 1..Len(Inputs[w])
       /\ ManifestOf[w] \in Names
       /\ \A i \in DOMAIN Inputs[w] :
            Inputs[w][i].name \in Names /\ Outputs[w][i] \in Names \ {ManifestOf[w]}

VARIABLES
  owner,    \* owner[k]: the request that reserved name k, or Unbound
  content,  \* content[k]: the committed payload, or None
  retired,  \* names whose committed asset has expired or been deleted
  wire,     \* PUT requests the server has not looked at
  serving,  \* those it has reserved a name for
  reply,    \* reply[c]: the status of c's current request, or None
  fail_fast,  \* loaders started with --fail-fast
  pc, item, attempt,  \* a client's step, row or input, and try
  body,     \* body[w]: the input as read
  done,     \* done[l]: rows reported ok; done[w]: outputs for the manifest
  status    \* what a client reports in the end: ok or failed

server == <<owner, content, retired, wire, serving>>
local == <<pc, item, attempt, body, done, status>>
clientVars == <<owner, content, retired, wire, serving, reply, fail_fast,
                pc, item, attempt, body, done, status>>

Unbound == [client |-> None]  \* no row in aliases

Go(c, to) == pc' = [pc EXCEPT ![c] = to]
Report(c, s) == Go(c, "end") /\ status' = [status EXCEPT ![c] = s]

-----------------------------------------------------------------------------
(* The asset store: PUT /objects/{alias} *)

Current(r) == pc[r.client] = "wait" /\ r.item = item[r.client] /\ r.attempt = attempt[r.client]

\* The answer to r, which reaches its client or not.
Answer(r, code) ==
  \/ Current(r) /\ reply' = [reply EXCEPT ![r.client] = code]
  \/ UNCHANGED reply

\* 403 or 503 before anything is reserved (capability, admission, capacity), 409
\* for a name that is bound, or 500 when its reservation has only just won the
\* race for it; otherwise the name is reserved.
Serve(r) ==
  /\ r \in wire /\ wire' = wire \ {r}
  /\ \/ \E code \in {403, 503} : Answer(r, code) /\ UNCHANGED <<owner, serving>>
     \/ /\ owner[r.name].client # None /\ UNCHANGED <<owner, serving>>
        /\ \E code \in {409, 500} : Answer(r, code)
     \/ /\ owner[r.name].client = None
        /\ owner' = [owner EXCEPT ![r.name] = r]
        /\ serving' = serving \cup {r}
        /\ UNCHANGED reply
  /\ UNCHANGED <<content, retired, local>>

\* PUT and commit; or a failure that leaves the name bound to a deleted asset.
Finish(r) ==
  /\ r \in serving /\ serving' = serving \ {r}
  /\ \/ content' = [content EXCEPT ![r.name] = r.data] /\ Answer(r, 201)
     \/ Answer(r, 500) /\ UNCHANGED content
  /\ UNCHANGED <<owner, retired, wire, local>>

LoseRequest(r) ==
  /\ r \in wire /\ wire' = wire \ {r}
  /\ UNCHANGED <<owner, content, retired, serving, reply, local>>

\* TTL, eviction or an administrator takes an input out of service.  (What
\* becomes of outputs later is nothing the clients see.)
Retire(k) ==
  /\ content[k] # None /\ k \notin retired
  /\ retired' = retired \cup {k}
  /\ UNCHANGED <<owner, content, wire, serving, reply, local>>

Send(c, name, data) ==
  /\ wire' = wire \cup {[client |-> c, item |-> item[c], attempt |-> attempt[c],
                         name |-> name, data |-> data]}
  /\ Go(c, "wait")
  /\ UNCHANGED <<owner, content, retired, serving, reply>>

-----------------------------------------------------------------------------
(* bulk_loader.run_bulk_load *)

\* mint_write_capability: a failure is fatal for the run.  A manifest of a header
\* only has no rows.
LoadMint(l) ==
  /\ pc[l] = "start"
  /\ \/ IF Len(Rows[l]) = 0 THEN Report(l, "ok") ELSE Go(l, "row") /\ UNCHANGED status
     \/ Report(l, "failed")
  /\ UNCHANGED <<server, reply, item, attempt, body, done>>

\* The run goes on with the next row, unless --fail-fast, or reports.
RowResult(l, ok) ==
  LET n == item[l] IN
  /\ done' = IF ok THEN [done EXCEPT ![l] = Append(@, Rows[l][n])] ELSE done
  /\ IF n < Len(Rows[l]) /\ (ok \/ l \notin fail_fast)
     THEN /\ Go(l, "row") /\ item' = [item EXCEPT ![l] = n + 1]
          /\ attempt' = [attempt EXCEPT ![l] = 0] /\ UNCHANGED status
     ELSE /\ Report(l, IF Len(done'[l]) = n THEN "ok" ELSE "failed")
          /\ UNCHANGED <<item, attempt>>

\* upload_row: the file cannot be read, or is sent.
LoadRow(l) ==
  /\ pc[l] = "row"
  /\ \/ attempt[l] = 0 /\ RowResult(l, FALSE) /\ UNCHANGED <<server, reply>>
     \/ /\ Send(l, Rows[l][item[l]].name, Rows[l][item[l]].data)
        /\ UNCHANGED <<item, attempt, done, status>>
  /\ UNCHANGED body

\* Mutant: tries are not counted.
Retry_Forever(l) == Go(l, "row") /\ UNCHANGED <<item, attempt, done, status>>

\* A transport error or a 5xx is tried again, up to max_retries times.
Retry(l) ==
  IF attempt[l] < MaxRetries
  THEN /\ Go(l, "row") /\ attempt' = [attempt EXCEPT ![l] = @ + 1]
       /\ UNCHANGED <<item, done, status>>
  ELSE RowResult(l, FALSE)

\* Mutant: a conflict on a retry is taken for the success of the first try.
LoadAnswer_ConflictIsOk(l) ==
  /\ pc[l] = "wait" /\ reply[l] # None
  /\ IF reply[l] = 201 \/ (reply[l] = 409 /\ attempt[l] > 0) THEN RowResult(l, TRUE)
     ELSE IF reply[l] < 500 THEN RowResult(l, FALSE) ELSE Retry(l)
  /\ reply' = [reply EXCEPT ![l] = None]
  /\ UNCHANGED <<server, body>>

LoadAnswer(l) ==
  /\ pc[l] = "wait" /\ reply[l] # None
  /\ IF reply[l] = 201 THEN RowResult(l, TRUE)
     ELSE IF reply[l] < 500 THEN RowResult(l, FALSE) ELSE Retry(l)
  /\ reply' = [reply EXCEPT ![l] = None]
  /\ UNCHANGED <<server, body>>

LoadTimeout(l) ==
  /\ pc[l] = "wait" /\ reply[l] = None
  /\ Retry(l)
  /\ UNCHANGED <<server, reply, body>>

-----------------------------------------------------------------------------
(* worker_sim.run_task, for a task with a result_prefix *)

\* The write capability is minted before anything is read.
WorkMint(w) ==
  /\ pc[w] = "start"
  /\ \/ Go(w, "read") /\ UNCHANGED status
     \/ Report(w, "failed")
  /\ UNCHANGED <<server, reply, item, attempt, body, done>>

\* Mint and GET: the input must be served and have the checksum of the task.
WorkRead(w) ==
  LET k == Inputs[w][item[w]].name IN
  /\ pc[w] = "read"
  /\ \/ /\ content[k] # None /\ k \notin retired /\ content[k] = Inputs[w][item[w]].checksum
        /\ body' = [body EXCEPT ![w] = content[k]] /\ Go(w, "write") /\ UNCHANGED status
     \/ Report(w, "failed") /\ UNCHANGED body
  /\ UNCHANGED <<server, reply, item, attempt, done>>

\* _put of the next output, or of the manifest after the last.
WorkPut(w) ==
  /\ pc[w] = "write"
  /\ IF item[w] <= Len(Inputs[w])
     THEN Send(w, Outputs[w][item[w]], body[w])
     ELSE Send(w, ManifestOf[w], done[w])
  /\ UNCHANGED <<item, attempt, body, done, status>>

\* The output's entry in the manifest: alias, asset and checksum.
Entry(w) == [name |-> Outputs[w][item[w]], asset |-> owner[Outputs[w][item[w]]], data |-> body[w]]

NextStage(w) ==
  /\ item' = [item EXCEPT ![w] = @ + 1]
  /\ IF item[w] > Len(Inputs[w])
     THEN Report(w, "ok") /\ UNCHANGED done
     ELSE /\ done' = [done EXCEPT ![w] = Append(@, Entry(w))]
          /\ Go(w, IF item[w] < Len(Inputs[w]) THEN "read" ELSE "write")
          /\ UNCHANGED status

\* Mutant: an output that is already there need not be put again.
WorkAnswer_ConflictIsOk(w) ==
  /\ pc[w] = "wait" /\ reply[w] # None
  /\ IF reply[w] \in {201, 409} THEN NextStage(w)
     ELSE Report(w, "failed") /\ UNCHANGED <<item, done>>
  /\ reply' = [reply EXCEPT ![w] = None]
  /\ UNCHANGED <<server, attempt, body>>

\* _check: anything but 201 ends the task; there are no retries.
WorkAnswer(w) ==
  /\ pc[w] = "wait" /\ reply[w] # None
  /\ IF reply[w] = 201 THEN NextStage(w)
     ELSE Report(w, "failed") /\ UNCHANGED <<item, done>>
  /\ reply' = [reply EXCEPT ![w] = None]
  /\ UNCHANGED <<server, attempt, body>>

WorkTimeout(w) ==
  /\ pc[w] = "wait" /\ reply[w] = None
  /\ Report(w, "failed")
  /\ UNCHANGED <<server, reply, item, attempt, body, done>>

-----------------------------------------------------------------------------
ClientsInit ==
  /\ owner = [k \in Names |-> Unbound] /\ content = [k \in Names |-> None] /\ retired = {}
  /\ wire = {} /\ serving = {} /\ reply = [c \in Clients |-> None]
  /\ fail_fast \in SUBSET Loaders
  /\ pc = [c \in Clients |-> "start"] /\ item = [c \in Clients |-> 1]
  /\ attempt = [c \in Clients |-> 0] /\ body = [w \in Workers |-> None]
  /\ done = [c \in Clients |-> <<>>] /\ status = [c \in Clients |-> "running"]

LoaderStep(l) == LoadMint(l) \/ LoadRow(l) \/ LoadAnswer(l) \/ LoadTimeout(l)
WorkerStep(w) == WorkMint(w) \/ WorkRead(w) \/ WorkPut(w) \/ WorkAnswer(w) \/ WorkTimeout(w)

ClientsNext ==
  /\ \/ \E l \in Loaders : LoaderStep(l)
     \/ \E w \in Workers : WorkerStep(w)
     \/ \E r \in wire : Serve(r) \/ LoseRequest(r)
     \/ \E r \in serving : Finish(r)
     \/ \E w \in Workers : \E i \in DOMAIN Inputs[w] : Retire(Inputs[w][i].name)
  /\ UNCHANGED fail_fast

\* The programs run on; httpx gives up after its timeout, answered or not.
ClientsSpec ==
  /\ ClientsInit /\ [][ClientsNext]_clientVars
  /\ \A l \in Loaders : WF_clientVars(LoaderStep(l) /\ UNCHANGED fail_fast)
  /\ \A w \in Workers : WF_clientVars(WorkerStep(w) /\ UNCHANGED fail_fast)

-----------------------------------------------------------------------------
(* Properties *)

\* What the programs report is so: a row reported ok is the loader's own file
\* under its name, and a task reported ok has its manifest published by itself,
\* whatever other runs put under the same names and whatever answers were lost.
ReportTrue ==
  /\ \A l \in Loaders : \A i \in DOMAIN done[l] :
       /\ owner[done[l][i].name].client = l
       /\ content[done[l][i].name] = done[l][i].data
  /\ \A w \in Workers : status[w] = "ok" =>
       owner[ManifestOf[w]].client = w /\ content[ManifestOf[w]] = done[w]

\* "never publish after a failed artifact": a manifest that is published names
\* every output of its task, each committed by the attempt that published it and
\* equal to the trusted input, also when another attempt used the same prefix,
\* requests were served late, or the task has been reported failed.
ManifestVouches ==
  \A w \in Workers :
    LET m == ManifestOf[w] IN
    content[m] # None /\ owner[m].client = w =>
      /\ Len(content[m]) = Len(Inputs[w])
      /\ \A i \in DOMAIN Inputs[w] :
           LET e == content[m][i] IN
           /\ e.asset = owner[e.name] /\ e.asset.client = w
           /\ e.name = Outputs[w][i] /\ content[e.name] = Inputs[w][i].checksum

\* Every run ends with a report, whatever the server does with its requests.
ClientsEnd == \A c \in Clients : <>(status[c] # "running")
=============================================================================
