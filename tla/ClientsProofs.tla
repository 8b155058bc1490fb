---------------------------- MODULE ClientsProofs ---------------------------
(* Theorems about Clients, for any number of programs, rows and inputs. *)
EXTENDS Clients, TLAPS

-----------------------------------------------------------------------------
(* Lists *)

IsList(s) == s \in Seq({s[i] : i \in DOMAIN s})

\* What Append does to a list of anything.
LEMMA Appended ==
  ASSUME NEW s, IsList(s), NEW e
  PROVE  /\ IsList(Append(s, e)) /\ Len(s) \in Nat /\ DOMAIN s = 1..Len(s)
         /\ Len(Append(s, e)) = Len(s) + 1 /\ DOMAIN Append(s, e) = 1..(Len(s) + 1)
         /\ Append(s, e)[Len(s) + 1] = e /\ \A i \in DOMAIN s : Append(s, e)[i] = s[i]
<1> DEFINE S == {s[i] : i \in DOMAIN s} \cup {e}
<1>1. s \in Seq(S)
  BY DEF IsList
<1>2. /\ Append(s, e) \in Seq(S) /\ Len(s) \in Nat /\ DOMAIN s = 1..Len(s)
      /\ Len(Append(s, e)) = Len(s) + 1 /\ DOMAIN Append(s, e) = 1..(Len(s) + 1)
      /\ Append(s, e)[Len(s) + 1] = e /\ \A i \in DOMAIN s : Append(s, e)[i] = s[i]
  BY <1>1
<1>3. S \subseteq {Append(s, e)[i] : i \in DOMAIN Append(s, e)}
  BY <1>2
<1>4. \A T, U : T \subseteq U => Seq(T) \subseteq Seq(U)
  OBVIOUS
<1> QED
  BY <1>2, <1>3, <1>4 DEF IsList

-----------------------------------------------------------------------------
(* Requests and names *)

\* The name a worker puts at its item i: an output, and after the last the manifest.
Stage(w, i) == IF i <= Len(Inputs[w]) THEN Outputs[w][i] ELSE ManifestOf[w]

\* A request the clients have made: a row of a manifest, an output equal to the
\* trusted input, or the complete manifest of a task that has no output left.
Made(r) ==
  /\ r.client \in Clients /\ r.name \in Names
  /\ r.client \in Loaders =>
       /\ r.item \in DOMAIN Rows[r.client]
       /\ r.name = Rows[r.client][r.item].name /\ r.data = Rows[r.client][r.item].data
  /\ r.client \in Workers =>
       /\ r.item \in 1..(Len(Inputs[r.client]) + 1) /\ r.item <= item[r.client]
       /\ r.name = Stage(r.client, r.item)
       /\ r.item <= Len(Inputs[r.client]) => r.data = Inputs[r.client][r.item].checksum
       /\ r.item > Len(Inputs[r.client]) => r.data = done[r.client]

\* Name k was put by c at its item i and holds d for good.
Committed(k, c, i, d) ==
  owner[k].client = c /\ owner[k].item = i /\ owner[k] \notin serving /\ content[k] = d

NamesInv ==
  /\ owner = [k \in Names |-> owner[k]] /\ content = [k \in Names |-> content[k]]
  /\ \A r \in wire \cup serving : Made(r)
  /\ \A r \in serving : owner[r.name] = r /\ content[r.name] = None
  /\ \A k \in Names :
       /\ owner[k].client # None => Made(owner[k]) /\ owner[k].name = k
       /\ content[k] # None => owner[k].client # None /\ content[k] = owner[k].data

-----------------------------------------------------------------------------
(* Programs *)

ProgramTypes ==
  /\ reply \in [Clients -> {None, 201, 403, 409, 500, 503}]
  /\ pc \in [Clients -> {"start", "row", "read", "write", "wait", "end"}]
  /\ item \in [Clients -> Nat \ {0}] /\ attempt \in [Clients -> Nat]
  /\ body = [w \in Workers |-> body[w]] /\ done = [c \in Clients |-> done[c]]
  /\ status \in [Clients -> {"running", "ok", "failed"}]
  /\ \A c \in Clients : IsList(done[c]) /\ (reply[c] # None => pc[c] = "wait")

\* A loader: each row it counts as done is committed, and so is the one answered 201.
Loading(l) ==
  /\ pc[l] \in {"start", "row", "wait", "end"}
  /\ pc[l] = "start" => item[l] = 1
  /\ pc[l] \in {"row", "wait"} => item[l] \in DOMAIN Rows[l]
  /\ \A i \in DOMAIN done[l] : \E j \in DOMAIN Rows[l] :
       done[l][i] = Rows[l][j] /\ Committed(Rows[l][j].name, l, j, Rows[l][j].data)
RowAnswered(l) ==
  reply[l] = 201 => Committed(Rows[l][item[l]].name, l, item[l], Rows[l][item[l]].data)

\* A worker: the outputs it has put, one for each item behind it, are committed with
\* the trusted data, and listed as they are; what is answered 201 is committed.
Working(w) ==
  LET n == Len(Inputs[w]) IN
  /\ pc[w] \in {"start", "read", "write", "wait", "end"} /\ item[w] <= n + 2
  /\ pc[w] \in {"start", "read"} => item[w] <= n
  /\ pc[w] \in {"write", "wait"} => /\ item[w] <= n + 1
                                    /\ item[w] <= n => body[w] = Inputs[w][item[w]].checksum
  /\ Len(done[w]) = IF item[w] = n + 2 THEN n ELSE item[w] - 1
  /\ \A i \in DOMAIN done[w] :
       /\ done[w][i].name = Outputs[w][i] /\ done[w][i].asset = owner[Outputs[w][i]]
       /\ Committed(Outputs[w][i], w, i, Inputs[w][i].checksum)
  /\ status[w] = "ok" => item[w] = n + 2 /\ Committed(ManifestOf[w], w, n + 1, done[w])
StageAnswered(w) ==
  reply[w] = 201 =>
    Committed(Stage(w, item[w]), w, item[w], IF item[w] <= Len(Inputs[w]) THEN body[w] ELSE done[w])

ClientsInv ==
  /\ NamesInv /\ ProgramTypes
  /\ \A l \in Loaders : Loading(l) /\ RowAnswered(l)
  /\ \A w \in Workers : Working(w) /\ StageAnswered(w)

-----------------------------------------------------------------------------
(* Steps of the asset store *)

\* The constants, as the assumption states them.
LEMMA Given ==
  /\ None \notin Clients /\ None \notin Nat /\ Loaders \subseteq Clients /\ Workers \subseteq Clients
  /\ Loaders \cap Workers = {} /\ Clients = Loaders \cup Workers /\ MaxRetries \in Nat
  /\ \A l \in Loaders :
       /\ Len(Rows[l]) \in Nat /\ DOMAIN Rows[l] = 1..Len(Rows[l])
       /\ \A i \in DOMAIN Rows[l] : Rows[l][i].name \in Names
  /\ \A w \in Workers :
       /\ Len(Inputs[w]) \in Nat \ {0} /\ DOMAIN Inputs[w] = 1..Len(Inputs[w])
       /\ ManifestOf[w] \in Names
       /\ \A i \in DOMAIN Inputs[w] : Outputs[w][i] \in Names \ {ManifestOf[w]}
BY ClientsAssumption DEF Clients

\* What may become of names: a request takes one nobody has; one being served ends.
Takes(r) ==
  /\ r \in wire /\ owner[r.name].client = None /\ owner' = [owner EXCEPT ![r.name] = r]
  /\ serving' = serving \cup {r} /\ UNCHANGED content
Ends(r) ==
  /\ r \in serving /\ serving' = serving \ {r} /\ UNCHANGED owner
  /\ UNCHANGED content \/ content' = [content EXCEPT ![r.name] = r.data]
Moves == UNCHANGED <<owner, serving, content>> \/ (\E r \in wire : Takes(r)) \/ \E r \in serving : Ends(r)

\* A committed name stays as it is.
LEMMA CommittedKept ==
  ASSUME NamesInv, Moves, NEW k \in Names, NEW c \in Clients, NEW i, NEW d, Committed(k, c, i, d)
  PROVE  Committed(k, c, i, d)' /\ owner'[k] = owner[k]
<1>0. c # None /\ owner[k].client = c /\ owner[k].name = k
  BY Given DEF NamesInv, Committed
<1>1. ASSUME NEW r \in wire, Takes(r)
      PROVE  Committed(k, c, i, d)' /\ owner'[k] = owner[k]
  <2>1. r.name # k /\ owner'[k] = owner[k] /\ content'[k] = content[k]
    BY <1>0, <1>1 DEF Takes, NamesInv
  <2>2. owner[k] # r
    BY <1>0, <2>1
  <2> QED
    BY <1>1, <2>1, <2>2 DEF Committed, Takes
<1>2. ASSUME NEW r \in serving, Ends(r)
      PROVE  Committed(k, c, i, d)' /\ owner'[k] = owner[k]
  <2>1. r.name # k
    BY <1>2 DEF NamesInv, Committed
  <2>2. owner'[k] = owner[k] /\ content'[k] = content[k]
    BY <1>2, <2>1 DEF Ends, NamesInv
  <2> QED
    BY <1>2, <2>2 DEF Committed, Ends
<1>3. CASE UNCHANGED <<owner, serving, content>>
  BY <1>3 DEF Committed
<1> QED
  BY <1>1, <1>2, <1>3 DEF Moves

\* A request once made stays one that was made.
LEMMA MadeKept ==
  ASSUME NEW r, Made(r), ProgramTypes, ProgramTypes',
         r.client \in Workers => /\ item[r.client] <= item'[r.client]
                                 /\ item[r.client] > Len(Inputs[r.client]) => done'[r.client] = done[r.client]
  PROVE  Made(r)'
<1>1. CASE r.client \in Loaders
  BY <1>1, Given DEF Made
<1>2. CASE r.client \in Workers
  <2>1. item[r.client] \in Nat /\ item'[r.client] \in Nat /\ Len(Inputs[r.client]) \in Nat
    BY <1>2, Given DEF ProgramTypes
  <2> QED
    BY <1>2, <2>1, Given DEF Made
<1> QED
  BY <1>1, <1>2, Given DEF Made

\* The account of names after a step that moves them and keeps what was made.
LEMMA NamesStep ==
  ASSUME NamesInv, Moves, \A r : Made(r) => Made(r)', \A r \in wire' \ wire : Made(r)'
  PROVE  NamesInv'
<1>1. CASE UNCHANGED <<owner, serving, content>>
  <2>1. \A r \in wire' \cup serving' : Made(r)'
    BY <1>1 DEF NamesInv
  <2>2. \A k \in Names : owner[k].client # None => Made(owner[k])'
    BY <1>1 DEF NamesInv, Made
  <2> QED
    BY <1>1, <2>1, <2>2 DEF NamesInv
<1>2. ASSUME NEW r \in wire, Takes(r)
      PROVE  NamesInv'
  <2>0. Made(r) /\ r.name \in Names /\ r.client # None
    BY <1>2, Given DEF NamesInv, Made
  <2>1. \A q \in wire' \cup serving' : Made(q)'
    BY <1>2, <2>0 DEF NamesInv, Takes
  <2>2. \A k \in Names \ {r.name} : owner'[k] = owner[k]
    BY <1>2, <2>0 DEF Takes, NamesInv
  <2>3. owner'[r.name] = r /\ content[r.name] = None
    BY <1>2, <2>0 DEF Takes, NamesInv
  <2>4. \A q \in serving' : owner'[q.name] = q /\ content'[q.name] = None
    <3>1. \A q \in serving : q.name # r.name /\ q.name \in Names
      BY <1>2, Given DEF Takes, NamesInv, Made
    <3> QED
      BY <1>2, <2>2, <2>3, <3>1 DEF Takes, NamesInv
  <2>5. ASSUME NEW k \in Names
        PROVE  /\ owner'[k].client # None => Made(owner[k])' /\ owner'[k].name = k
               /\ content'[k] # None => owner'[k].client # None /\ content'[k] = owner'[k].data
    <3>1. CASE k = r.name
      <4>1. Made(r)'
        BY <2>0
      <4>2. Made(owner[k])'
        BY <2>3, <3>1, <4>1 DEF Made
      <4> QED
        BY <1>2, <2>3, <3>1, <4>2 DEF Takes
    <3>2. CASE k # r.name
      <4>1. PICK q : q = owner[k]
        OBVIOUS
      <4>2. q.client # None => Made(q)'
        BY <4>1 DEF NamesInv
      <4>3. q.client # None => Made(owner[k])'
        BY <2>2, <3>2, <4>1, <4>2 DEF Made
      <4> QED
        BY <1>2, <2>2, <3>2, <4>1, <4>3 DEF NamesInv, Takes
    <3> QED
      BY <3>1, <3>2
  <2>6. owner' = [k \in Names |-> owner'[k]] /\ content' = [k \in Names |-> content'[k]]
    BY <1>2 DEF NamesInv, Takes
  <2> QED
    BY <2>1, <2>4, <2>5, <2>6 DEF NamesInv
<1>3. ASSUME NEW r \in serving, Ends(r)
      PROVE  NamesInv'
  <2>0. Made(r) /\ r.name \in Names /\ r.client # None /\ owner[r.name] = r
    BY <1>3, Given DEF NamesInv, Made
  <2>1. \A q \in wire' \cup serving' : Made(q)'
    BY <1>3 DEF NamesInv, Ends
  <2>2. \A k \in Names \ {r.name} : content'[k] = content[k]
    BY <1>3 DEF Ends, NamesInv
  <2>3. content'[r.name] \in {None, r.data}
    BY <1>3, <2>0 DEF Ends, NamesInv
  <2>4. \A q \in serving' : owner'[q.name] = q /\ content'[q.name] = None
    <3>1. \A q \in serving' : q \in serving /\ q.name # r.name /\ q.name \in Names
      BY <1>3, <2>0 DEF Ends, NamesInv, Made
    <3> QED
      BY <1>3, <2>2, <3>1 DEF Ends, NamesInv
  <2>5. ASSUME NEW k \in Names
        PROVE  /\ owner'[k].client # None => Made(owner[k])' /\ owner'[k].name = k
               /\ content'[k] # None => owner'[k].client # None /\ content'[k] = owner'[k].data
    <3>1. PICK q : q = owner[k]
      OBVIOUS
    <3>2. owner'[k] = q /\ (q.client # None => Made(q)' /\ q.name = k)
      BY <1>3, <3>1 DEF Ends, NamesInv
    <3>3. q.client # None => Made(owner[k])'
      BY <3>2 DEF Made
    <3>4. content'[k] # None => owner'[k].client # None /\ content'[k] = owner'[k].data
      BY <2>0, <2>2, <2>3, <3>1, <3>2 DEF NamesInv
    <3> QED
      BY <3>2, <3>3, <3>4
  <2>6. owner' = [k \in Names |-> owner'[k]] /\ content' = [k \in Names |-> content'[k]]
    BY <1>3 DEF NamesInv, Ends
  <2> QED
    BY <2>1, <2>4, <2>5, <2>6 DEF NamesInv
<1> QED
  BY <1>1, <1>2, <1>3 DEF Moves

\* A step that is not c's own.
Stays(c) ==
  /\ pc'[c] = pc[c] /\ item'[c] = item[c] /\ done'[c] = done[c] /\ status'[c] = status[c]
  /\ c \in Workers => body'[c] = body[c]

\* What a loader counts on survives every step that is not its own.
LEMMA LoadingKept ==
  ASSUME ClientsInv, Moves, NEW l \in Loaders, Stays(l)
  PROVE  Loading(l)' /\ (reply'[l] = reply[l] => RowAnswered(l)')
<1>0. /\ Loading(l) /\ RowAnswered(l) /\ NamesInv /\ l \in Clients
      /\ reply[l] # None => pc[l] = "wait"
  BY Given DEF ClientsInv, ProgramTypes
<1>1. \A j \in DOMAIN Rows[l] : Rows[l][j].name \in Names
  BY Given
<1>2. ASSUME NEW j \in DOMAIN Rows[l], Committed(Rows[l][j].name, l, j, Rows[l][j].data)
      PROVE  Committed(Rows[l][j].name, l, j, Rows[l][j].data)'
  BY <1>0, <1>1, <1>2, CommittedKept
<1>3. reply[l] = 201 => item[l] \in DOMAIN Rows[l]
  BY <1>0, Given DEF Loading
<1>4. reply[l] = 201 => Committed(Rows[l][item[l]].name, l, item[l], Rows[l][item[l]].data)'
  <2>1. PICK j : j = item[l]
    OBVIOUS
  <2>2. reply[l] = 201 => Committed(Rows[l][j].name, l, j, Rows[l][j].data)'
    BY <1>0, <1>2, <1>3, <2>1 DEF RowAnswered
  <2> QED
    BY <2>1, <2>2 DEF Stays, Committed
<1> QED
  BY <1>0, <1>2, <1>4 DEF Loading, RowAnswered, Stays

\* So does what a worker counts on.
LEMMA WorkingKept ==
  ASSUME ClientsInv, Moves, NEW w \in Workers, Stays(w)
  PROVE  Working(w)' /\ (reply'[w] = reply[w] => StageAnswered(w)')
<1>a. w \in Clients /\ Len(Inputs[w]) \in Nat /\ DOMAIN Inputs[w] = 1..Len(Inputs[w])
  BY Given
<1>0. /\ Working(w) /\ StageAnswered(w) /\ NamesInv /\ w \in Clients /\ item[w] \in Nat \ {0}
      /\ reply[w] # None => pc[w] = "wait"
      /\ IsList(done[w]) /\ Len(Inputs[w]) \in Nat /\ DOMAIN Inputs[w] = 1..Len(Inputs[w])
  BY <1>a DEF ClientsInv, ProgramTypes
<1>1. \A i \in DOMAIN Inputs[w] : Outputs[w][i] \in Names
  BY Given
<1>2. ASSUME NEW k \in Names, NEW i, NEW d, Committed(k, w, i, d)
      PROVE  Committed(k, w, i, d)' /\ owner'[k] = owner[k]
  BY <1>0, <1>2, CommittedKept
<1>3. DOMAIN done[w] \subseteq DOMAIN Inputs[w]
  <2>1. DOMAIN done[w] = 1..Len(done[w])
    BY <1>0, Appended
  <2> QED
    BY <1>0, <2>1 DEF Working
<1>4. \A i \in DOMAIN done[w] :
        /\ done[w][i].name = Outputs[w][i] /\ done[w][i].asset = owner'[Outputs[w][i]]
        /\ Committed(Outputs[w][i], w, i, Inputs[w][i].checksum)'
  BY <1>0, <1>1, <1>2, <1>3 DEF Working
<1>5. status[w] = "ok" => Committed(ManifestOf[w], w, Len(Inputs[w]) + 1, done[w])'
  <2>1. PICK d : d = done[w]
    OBVIOUS
  <2>2. status[w] = "ok" => Committed(ManifestOf[w], w, Len(Inputs[w]) + 1, d)'
    BY <1>0, <1>2, <2>1, Given DEF Working
  <2> QED
    BY <2>1, <2>2 DEF Committed, Stays
<1>6. reply'[w] = reply[w] => StageAnswered(w)'
  <2>1. PICK k, i, d : /\ k = Stage(w, item[w]) /\ i = item[w]
                       /\ d = IF item[w] <= Len(Inputs[w]) THEN body[w] ELSE done[w]
    OBVIOUS
  <2>2. k \in Names
    BY <1>0, <1>1, <2>1, Given DEF Stage
  <2>3. reply[w] = 201 => Committed(k, w, i, d)'
    BY <1>0, <1>2, <2>1, <2>2 DEF StageAnswered
  <2> QED
    BY <2>1, <2>3 DEF StageAnswered, Committed, Stage, Stays
<1> QED
  BY <1>0, <1>4, <1>5, <1>6 DEF Working, Stays

\* A step of the store: names move, and at most the program that waits for r hears of
\* it, of a success only once its data is committed.
LEMMA StoreStep ==
  ASSUME ClientsInv, Moves, UNCHANGED local, wire' \subseteq wire, NEW r, NEW code,
         \/ UNCHANGED reply
         \/ /\ Made(r) /\ Current(r) /\ reply' = [reply EXCEPT ![r.client] = code]
            /\ code \in {201, 403, 409, 500, 503}
            /\ code = 201 => Committed(r.name, r.client, r.item, r.data)'
  PROVE  ClientsInv'
<1>0. NamesInv /\ ProgramTypes
  BY DEF ClientsInv
<1>1. ProgramTypes'
  <2>1. /\ pc' = pc /\ item' = item /\ attempt' = attempt /\ body' = body /\ done' = done
        /\ status' = status
    BY DEF local
  <2>2. /\ reply' \in [Clients -> {None, 201, 403, 409, 500, 503}]
        /\ \A c \in Clients : reply'[c] # None => pc[c] = "wait"
    BY <1>0 DEF ProgramTypes, Current
  <2>3. \A c \in Clients : IsList(done[c])'
    BY <1>0, <2>1 DEF ProgramTypes, IsList
  <2>4. body' = [w \in Workers |-> body'[w]] /\ done' = [c \in Clients |-> done'[c]]
    <3>1. body = [w \in Workers |-> body[w]] /\ done = [c \in Clients |-> done[c]]
      BY <1>0 DEF ProgramTypes
    <3> QED
      BY ONLY <2>1, <3>1
  <2>5. /\ pc' \in [Clients -> {"start", "row", "read", "write", "wait", "end"}]
        /\ item' \in [Clients -> Nat \ {0}] /\ attempt' \in [Clients -> Nat]
        /\ status' \in [Clients -> {"running", "ok", "failed"}]
    BY <1>0, <2>1 DEF ProgramTypes
  <2> QED
    BY <2>1, <2>2, <2>3, <2>4, <2>5 DEF ProgramTypes
<1>2. \A c \in Clients : Stays(c)
  BY DEF Stays, local
<1>3. ASSUME NEW q, Made(q)
      PROVE  Made(q)'
  BY <1>3 DEF Made, local
<1>4. NamesInv'
  BY <1>0, <1>3, NamesStep
<1>5. ASSUME NEW l \in Loaders
      PROVE  Loading(l)' /\ RowAnswered(l)'
  <2>1. l \in Clients /\ l \notin Workers
    BY Given
  <2>2. CASE reply'[l] = reply[l]
    BY <1>2, <2>1, <2>2, LoadingKept
  <2>3. CASE reply'[l] # reply[l]
    <3>1. r.client = l /\ Made(r) /\ Current(r) /\ reply'[l] = code
      BY <1>0, <2>1, <2>3 DEF ProgramTypes
    <3>2. /\ r.name = Rows[l][item[l]].name /\ r.data = Rows[l][item[l]].data /\ r.item = item[l]
          /\ code = 201 => Committed(r.name, l, r.item, r.data)'
      BY <2>3, <3>1 DEF Made, Current
    <3>3. RowAnswered(l)'
      BY <1>2, <2>1, <3>1, <3>2 DEF RowAnswered, Committed, Stays
    <3> QED
      BY <1>2, <2>1, <3>3, LoadingKept
  <2> QED
    BY <2>2, <2>3
<1>6. ASSUME NEW w \in Workers
      PROVE  Working(w)' /\ StageAnswered(w)'
  <2>1. w \in Clients /\ w \notin Loaders
    BY Given
  <2>2. CASE reply'[w] = reply[w]
    BY <1>2, <2>1, <2>2, WorkingKept
  <2>3. CASE reply'[w] # reply[w]
    <3>1. r.client = w /\ Made(r) /\ Current(r) /\ reply'[w] = code /\ Working(w)
      BY <1>0, <2>1, <2>3 DEF ProgramTypes, ClientsInv
    <3>2. /\ r.name = Stage(w, item[w]) /\ r.item = item[w]
          /\ item[w] \in Nat /\ Len(Inputs[w]) \in Nat
          /\ r.data = IF item[w] <= Len(Inputs[w]) THEN body[w] ELSE done[w]
          /\ code = 201 => Committed(r.name, w, r.item, r.data)'
      BY <1>0, <2>1, <2>3, <3>1, Given DEF Made, Current, Working, ProgramTypes
    <3>3. StageAnswered(w)'
      BY <1>2, <2>1, <3>1, <3>2 DEF StageAnswered, Committed, Stays, Stage
    <3> QED
      BY <1>2, <2>1, <3>3, WorkingKept
  <2> QED
    BY <2>2, <2>3
<1> QED
  BY <1>1, <1>4, <1>5, <1>6 DEF ClientsInv

\* Serving, finishing and losing requests, and taking assets out of service.
LEMMA ServerSteps ==
  ASSUME ClientsInv,
         \/ \E r \in wire : Serve(r) \/ LoseRequest(r)
         \/ \E r \in serving : Finish(r)
         \/ \E w \in Workers : \E i \in DOMAIN Inputs[w] : Retire(Inputs[w][i].name)
  PROVE  ClientsInv'
<1>1. ASSUME NEW r \in wire, Serve(r)
      PROVE  ClientsInv'
  <2>0. UNCHANGED local /\ wire' \subseteq wire /\ Made(r) /\ UNCHANGED content
    BY <1>1 DEF Serve, ClientsInv, NamesInv
  <2>1. ASSUME NEW code \in {403, 409, 500, 503}, Answer(r, code), UNCHANGED <<owner, serving>>
        PROVE  ClientsInv'
    <3>1. Moves
      BY <2>0, <2>1 DEF Moves
    <3>2. \/ UNCHANGED reply
          \/ Current(r) /\ reply' = [reply EXCEPT ![r.client] = code]
      BY <2>1 DEF Answer
    <3>3. code \in {201, 403, 409, 500, 503} /\ code # 201
      BY <2>1
    <3> QED
      BY <2>0, <3>1, <3>2, <3>3, StoreStep
  <2>2. CASE /\ owner[r.name].client = None /\ owner' = [owner EXCEPT ![r.name] = r]
             /\ serving' = serving \cup {r} /\ UNCHANGED reply
    <3>1. Moves
      BY <2>0, <2>2 DEF Moves, Takes
    <3> QED
      BY <2>0, <2>2, <3>1, StoreStep
  <2> QED
    BY <1>1, <2>1, <2>2 DEF Serve
<1>2. ASSUME NEW r \in serving, Finish(r)
      PROVE  ClientsInv'
  <2>0. /\ UNCHANGED local /\ wire' \subseteq wire /\ Made(r) /\ Moves
        /\ r.name \in Names /\ owner[r.name] = r
    BY <1>2 DEF Finish, ClientsInv, NamesInv, Made, Moves, Ends
  <2>1. CASE content' = [content EXCEPT ![r.name] = r.data] /\ Answer(r, 201)
    <3>1. Committed(r.name, r.client, r.item, r.data)'
      BY <1>2, <2>0, <2>1 DEF Committed, Finish, ClientsInv, NamesInv
    <3> QED
      BY <2>0, <2>1, <3>1, StoreStep DEF Answer
  <2>2. CASE Answer(r, 500)
    BY <2>0, <2>2, StoreStep DEF Answer
  <2> QED
    BY <1>2, <2>1, <2>2 DEF Finish
<1>3. ASSUME UNCHANGED <<owner, content, serving, reply, local>>, wire' \subseteq wire
      PROVE  ClientsInv'
  BY <1>3, StoreStep DEF Moves
<1> QED
  BY <1>1, <1>2, <1>3 DEF LoseRequest, Retire

-----------------------------------------------------------------------------
(* Steps of the programs *)

\* A step of c: right about c and the request it sends, it is right about everything.
LEMMA ProgramStep ==
  ASSUME ClientsInv, ProgramTypes', NEW c \in Clients, UNCHANGED <<owner, content, serving>>,
         \A d \in Clients \ {c} : Stays(d) /\ reply'[d] = reply[d],
         c \in Loaders => Loading(c)' /\ RowAnswered(c)',
         c \in Workers => /\ Working(c)' /\ StageAnswered(c)' /\ item[c] <= item'[c]
                          /\ item[c] > Len(Inputs[c]) => done'[c] = done[c],
         \A r \in wire' \ wire : Made(r)'
  PROVE  ClientsInv'
<1>0. NamesInv /\ ProgramTypes /\ Moves
  BY DEF ClientsInv, Moves
<1>1. ASSUME NEW r, Made(r)
      PROVE  Made(r)'
  <2>1. ASSUME r.client \in Workers \ {c}
        PROVE  item[r.client] <= item'[r.client] /\ done'[r.client] = done[r.client]
    <3>0. r.client \in Clients \ {c}
      BY <2>1, Given
    <3>1. item'[r.client] = item[r.client] /\ item[r.client] \in Nat /\ done'[r.client] = done[r.client]
      BY <1>0, <3>0 DEF Stays, ProgramTypes
    <3> QED
      BY <3>1
  <2> QED
    BY <1>0, <1>1, <2>1, MadeKept
<1>2. NamesInv'
  BY <1>0, <1>1, NamesStep
<1>3. \A l \in Loaders : Loading(l)' /\ RowAnswered(l)'
  BY <1>0, LoadingKept, Given
<1>4. \A w \in Workers : Working(w)' /\ StageAnswered(w)'
  BY <1>0, WorkingKept, Given
<1> QED
  BY <1>2, <1>3, <1>4 DEF ClientsInv

\* A step of a loader, by what it does to its own state.
LEMMA LoaderFrame ==
  ASSUME ClientsInv, NEW l \in Loaders, NEW to \in {"row", "wait", "end"}, NEW i \in Nat \ {0},
         NEW k \in Nat, NEW s \in {"running", "ok", "failed"},
         pc' = [pc EXCEPT ![l] = to], item' = [item EXCEPT ![l] = i],
         attempt' = [attempt EXCEPT ![l] = k], status' = [status EXCEPT ![l] = s],
         reply' = [reply EXCEPT ![l] = None], UNCHANGED <<body, owner, content, serving>>,
         to # "end" => i \in DOMAIN Rows[l],
         \/ UNCHANGED done
         \/ /\ done' = [done EXCEPT ![l] = Append(done[l], Rows[l][item[l]])]
            /\ item[l] \in DOMAIN Rows[l]
            /\ Committed(Rows[l][item[l]].name, l, item[l], Rows[l][item[l]].data),
         \A r \in wire' \ wire : Made(r)'
  PROVE  ClientsInv'
<1>0. l \in Clients /\ l \notin Workers /\ None # 201
  BY Given
<1>1. ProgramTypes /\ Loading(l) /\ IsList(done[l])
  BY <1>0 DEF ClientsInv, ProgramTypes
<1>2. /\ \A c \in Clients \ {l} : Stays(c) /\ reply'[c] = reply[c]
      /\ reply'[l] = None /\ pc'[l] = to /\ item'[l] = i
  BY <1>0, <1>1 DEF ProgramTypes, Stays
<1>3. \A c \in Clients : IsList(done'[c])
  <2>1. done'[l] \in {done[l], Append(done[l], Rows[l][item[l]])}
    BY <1>0, <1>1 DEF ProgramTypes
  <2>2. IsList(done'[l])
    <3>1. IsList(Append(done[l], Rows[l][item[l]]))
      BY <1>1, Appended
    <3> QED
      BY ONLY <1>1, <2>1, <3>1
  <2>3. \A c \in Clients \ {l} : done'[c] = done[c] /\ IsList(done[c])
    BY <1>1, <1>2 DEF ProgramTypes, Stays
  <2> QED
    BY <2>2, <2>3
<1>4. ProgramTypes'
  <2>1. /\ reply' \in [Clients -> {None, 201, 403, 409, 500, 503}]
        /\ pc' \in [Clients -> {"start", "row", "read", "write", "wait", "end"}]
        /\ item' \in [Clients -> Nat \ {0}] /\ attempt' \in [Clients -> Nat]
        /\ status' \in [Clients -> {"running", "ok", "failed"}]
    BY <1>1 DEF ProgramTypes
  <2>2. body' = [w \in Workers |-> body'[w]] /\ done' = [c \in Clients |-> done'[c]]
    <3>1. body = [w \in Workers |-> body[w]] /\ done = [c \in Clients |-> done[c]]
      BY <1>1 DEF ProgramTypes
    <3>2. body' = [w \in Workers |-> body'[w]]
      BY <3>1
    <3>3. done' = [c \in Clients |-> done'[c]]
      BY <3>1
    <3> QED
      BY <3>2, <3>3
  <2>3. \A c \in Clients : reply'[c] # None => pc'[c] = "wait"
    BY <1>1, <1>2 DEF ProgramTypes, Stays
  <2> QED
    BY <1>3, <2>1, <2>2, <2>3 DEF ProgramTypes, IsList
<1>5. \A j \in DOMAIN done'[l] : \E m \in DOMAIN Rows[l] :
        done'[l][j] = Rows[l][m] /\ Committed(Rows[l][m].name, l, m, Rows[l][m].data)
  <2>1. CASE UNCHANGED done
    BY <1>1, <2>1 DEF Loading
  <2>2. CASE /\ done' = [done EXCEPT ![l] = Append(done[l], Rows[l][item[l]])]
             /\ item[l] \in DOMAIN Rows[l]
             /\ Committed(Rows[l][item[l]].name, l, item[l], Rows[l][item[l]].data)
    <3>1. done'[l] = Append(done[l], Rows[l][item[l]])
      BY <1>0, <1>1, <2>2 DEF ProgramTypes
    <3>2. \A j \in DOMAIN done'[l] : \/ j \in DOMAIN done[l] /\ done'[l][j] = done[l][j]
                                     \/ done'[l][j] = Rows[l][item[l]]
      BY <1>1, <3>1, Appended
    <3> QED
      BY <1>1, <2>2, <3>2 DEF Loading
  <2> QED
    BY <2>1, <2>2
<1>6. Loading(l)' /\ RowAnswered(l)'
  BY <1>0, <1>2, <1>5 DEF Loading, RowAnswered, Committed
<1> QED
  BY <1>0, <1>2, <1>4, <1>6, ProgramStep

\* A row that ends, well only if it is committed.
LEMMA RowEnds ==
  ASSUME ClientsInv, NEW l \in Loaders, NEW ok \in BOOLEAN, RowResult(l, ok),
         pc[l] \in {"row", "wait"}, reply' = [reply EXCEPT ![l] = None],
         UNCHANGED <<server, body>>,
         ok => Committed(Rows[l][item[l]].name, l, item[l], Rows[l][item[l]].data)
  PROVE  ClientsInv'
<1>0. /\ l \in Clients /\ ProgramTypes /\ item[l] \in DOMAIN Rows[l]
      /\ Len(Rows[l]) \in Nat /\ DOMAIN Rows[l] = 1..Len(Rows[l])
  BY Given DEF ClientsInv, Loading
<1>1. UNCHANGED <<owner, content, serving, wire>>
  BY DEF server
<1>2. \/ UNCHANGED done
      \/ ok /\ done' = [done EXCEPT ![l] = Append(done[l], Rows[l][item[l]])]
  BY DEF RowResult
<1>3. CASE /\ item[l] < Len(Rows[l]) /\ Go(l, "row") /\ item' = [item EXCEPT ![l] = item[l] + 1]
           /\ attempt' = [attempt EXCEPT ![l] = 0] /\ UNCHANGED status
  <2>1. status' = [status EXCEPT ![l] = status[l]] /\ status[l] \in {"running", "ok", "failed"}
    BY <1>0, <1>3 DEF ProgramTypes
  <2>2. item[l] + 1 \in DOMAIN Rows[l] /\ item[l] + 1 \in Nat \ {0}
    BY <1>0, <1>3
  <2> QED
    BY <1>0, <1>1, <1>2, <1>3, <2>1, <2>2, LoaderFrame DEF Go
<1>4. CASE Report(l, IF Len(done'[l]) = item[l] THEN "ok" ELSE "failed") /\ UNCHANGED <<item, attempt>>
  <2>1. /\ item' = [item EXCEPT ![l] = item[l]] /\ item[l] \in Nat \ {0}
        /\ attempt' = [attempt EXCEPT ![l] = attempt[l]] /\ attempt[l] \in Nat
    BY <1>0, <1>4 DEF ProgramTypes
  <2>2. \E s \in {"running", "ok", "failed"} :
          pc' = [pc EXCEPT ![l] = "end"] /\ status' = [status EXCEPT ![l] = s]
    BY <1>4 DEF Report, Go
  <2> QED
    BY <1>0, <1>1, <1>2, <2>1, <2>2, LoaderFrame
<1> QED
  BY <1>3, <1>4 DEF RowResult

\* A try that failed: the row is tried again, or ends.
LEMMA TryEnds ==
  ASSUME ClientsInv, NEW l \in Loaders, Retry(l), pc[l] = "wait",
         reply' = [reply EXCEPT ![l] = None], UNCHANGED <<server, body>>
  PROVE  ClientsInv'
<1>1. CASE RowResult(l, FALSE)
  BY <1>1, RowEnds
<1>2. CASE /\ Go(l, "row") /\ attempt' = [attempt EXCEPT ![l] = attempt[l] + 1]
           /\ UNCHANGED <<item, done, status>>
  <2>0. l \in Clients /\ ProgramTypes /\ item[l] \in DOMAIN Rows[l]
    BY Given DEF ClientsInv, Loading
  <2>1. /\ item' = [item EXCEPT ![l] = item[l]] /\ item[l] \in Nat \ {0} /\ attempt[l] + 1 \in Nat
        /\ status' = [status EXCEPT ![l] = status[l]] /\ status[l] \in {"running", "ok", "failed"}
    BY <1>2, <2>0 DEF ProgramTypes
  <2> QED
    BY <1>2, <2>0, <2>1, LoaderFrame DEF Go, server
<1> QED
  BY <1>1, <1>2 DEF Retry

\* Every step of a loader.
LEMMA LoaderSteps ==
  ASSUME ClientsInv, NEW l \in Loaders, LoaderStep(l)
  PROVE  ClientsInv'
<1>0. /\ l \in Clients /\ ProgramTypes /\ Loading(l) /\ RowAnswered(l)
      /\ Len(Rows[l]) \in Nat /\ DOMAIN Rows[l] = 1..Len(Rows[l])
      /\ \A i \in DOMAIN Rows[l] : Rows[l][i].name \in Names
  BY Given DEF ClientsInv
<1>1. /\ item[l] \in Nat \ {0} /\ attempt[l] \in Nat /\ status[l] \in {"running", "ok", "failed"}
      /\ pc[l] # "wait" => reply[l] = None
      /\ item = [item EXCEPT ![l] = item[l]] /\ attempt = [attempt EXCEPT ![l] = attempt[l]]
      /\ status = [status EXCEPT ![l] = status[l]]
      /\ reply[l] = None => reply = [reply EXCEPT ![l] = None]
  BY <1>0 DEF ProgramTypes
<1>2. CASE LoadMint(l)
  <2>1. /\ pc[l] = "start" /\ UNCHANGED <<owner, content, serving, wire, reply, item, attempt, body, done>>
        /\ \/ Len(Rows[l]) # 0 /\ Go(l, "row") /\ UNCHANGED status
           \/ Report(l, "ok") \/ Report(l, "failed")
    BY <1>2 DEF LoadMint, server
  <2>2. /\ reply' = [reply EXCEPT ![l] = None] /\ item' = [item EXCEPT ![l] = item[l]]
        /\ attempt' = [attempt EXCEPT ![l] = attempt[l]]
    BY <1>1, <2>1
  <2>3. CASE Len(Rows[l]) # 0 /\ Go(l, "row") /\ UNCHANGED status
    <3>1. item[l] \in DOMAIN Rows[l]
      BY <1>0, <2>1, <2>3 DEF Loading
    <3>2. status' = [status EXCEPT ![l] = status[l]] /\ pc' = [pc EXCEPT ![l] = "row"]
      BY <1>1, <2>3 DEF Go
    <3> QED
      BY <1>1, <2>1, <2>2, <3>1, <3>2, LoaderFrame
  <2>4. CASE Report(l, "ok") \/ Report(l, "failed")
    BY <1>1, <2>1, <2>2, <2>4, LoaderFrame DEF Go, Report
  <2> QED
    BY <2>1, <2>3, <2>4
<1>3. CASE LoadRow(l)
  <2>1. pc[l] = "row" /\ item[l] \in DOMAIN Rows[l] /\ UNCHANGED body
    BY <1>0, <1>3 DEF LoadRow, Loading
  <2>2. CASE RowResult(l, FALSE) /\ UNCHANGED <<server, reply>>
    BY <1>1, <2>1, <2>2, RowEnds
  <2>3. CASE /\ Send(l, Rows[l][item[l]].name, Rows[l][item[l]].data)
             /\ UNCHANGED <<item, attempt, done, status>>
    <3>1. \A r \in wire' \ wire : Made(r)'
      <4>1. PICK q : /\ q = [client |-> l, item |-> item[l], attempt |-> attempt[l],
                             name |-> Rows[l][item[l]].name, data |-> Rows[l][item[l]].data]
                     /\ wire' = wire \cup {q}
        BY <2>3 DEF Send
      <4>2. Made(q)'
        BY <1>0, <2>1, <4>1, Given DEF Made
      <4> QED
        BY <4>1, <4>2
    <3> QED
      BY <1>1, <2>1, <2>3, <3>1, LoaderFrame DEF Send, Go
  <2> QED
    BY <1>3, <2>2, <2>3 DEF LoadRow
<1>4. CASE LoadAnswer(l)
  <2>1. /\ pc[l] = "wait" /\ reply' = [reply EXCEPT ![l] = None] /\ UNCHANGED <<server, body>>
    BY <1>4 DEF LoadAnswer
  <2>2. CASE reply[l] = 201 /\ RowResult(l, TRUE)
    BY <1>0, <2>1, <2>2, RowEnds DEF RowAnswered
  <2>3. CASE RowResult(l, FALSE)
    BY <2>1, <2>3, RowEnds
  <2>4. CASE Retry(l)
    BY <2>1, <2>4, TryEnds
  <2> QED
    BY <1>4, <2>2, <2>3, <2>4 DEF LoadAnswer
<1>5. CASE LoadTimeout(l)
  BY <1>1, <1>5, TryEnds DEF LoadTimeout
<1> QED
  BY <1>2, <1>3, <1>4, <1>5 DEF LoaderStep

\* The outputs listed in m are those of w, in order, committed with the trusted data.
Listed(w, m) ==
  \A j \in DOMAIN m :
    /\ m[j].name = Outputs[w][j] /\ m[j].asset = owner[Outputs[w][j]]
    /\ Committed(Outputs[w][j], w, j, Inputs[w][j].checksum)

\* A step of a worker, by what it does to its own state.
Turn(w, to, i, s, b, m) ==
  LET n == Len(Inputs[w]) IN
  /\ to \in {"read", "write", "wait", "end"} /\ i \in Nat \ {0} /\ s \in {"running", "ok", "failed"}
  /\ IsList(m)
  /\ pc' = [pc EXCEPT ![w] = to] /\ item' = [item EXCEPT ![w] = i]
  /\ status' = [status EXCEPT ![w] = s] /\ body' = [body EXCEPT ![w] = b]
  /\ done' = [done EXCEPT ![w] = m] /\ reply' = [reply EXCEPT ![w] = None]
  /\ UNCHANGED <<attempt, owner, content, serving>>
  /\ item[w] <= i /\ (item[w] > n => m = done[w])
  /\ i <= n + 2 /\ (to = "read" => i <= n)
  /\ to \in {"write", "wait"} => i <= n + 1 /\ (i <= n => b = Inputs[w][i].checksum)
  /\ Len(m) = (IF i = n + 2 THEN n ELSE i - 1) /\ Listed(w, m)
  /\ s = "ok" => i = n + 2 /\ Committed(ManifestOf[w], w, n + 1, m)

\* Such a step keeps the whole invariant if the requests it sends are well made.
LEMMA WorkerFrame ==
  ASSUME ClientsInv, NEW w \in Workers, NEW to, NEW i, NEW s, NEW b, NEW m, Turn(w, to, i, s, b, m),
         \A r \in wire' \ wire : Made(r)'
  PROVE  ClientsInv'
<1> USE DEF Turn
<1>0. w \in Clients /\ w \notin Loaders /\ None # 201
  BY Given
<1>1. ProgramTypes
  BY DEF ClientsInv
<1>2. /\ \A c \in Clients \ {w} : Stays(c) /\ reply'[c] = reply[c]
      /\ reply'[w] = None /\ pc'[w] = to /\ item'[w] = i /\ status'[w] = s
      /\ body'[w] = b /\ done'[w] = m
  BY <1>0, <1>1 DEF ProgramTypes, Stays
<1>3. ProgramTypes'
  <2>1. /\ reply' \in [Clients -> {None, 201, 403, 409, 500, 503}]
        /\ pc' \in [Clients -> {"start", "row", "read", "write", "wait", "end"}]
        /\ item' \in [Clients -> Nat \ {0}] /\ attempt' \in [Clients -> Nat]
        /\ status' \in [Clients -> {"running", "ok", "failed"}]
    BY <1>1 DEF ProgramTypes
  <2>2. body' = [v \in Workers |-> body'[v]] /\ done' = [c \in Clients |-> done'[c]]
    <3>1. body = [v \in Workers |-> body[v]] /\ done = [c \in Clients |-> done[c]]
      BY <1>1 DEF ProgramTypes
    <3>2. body' = [v \in Workers |-> body'[v]]
      BY <3>1
    <3>3. done' = [c \in Clients |-> done'[c]]
      BY <3>1
    <3> QED
      BY <3>2, <3>3
  <2>3. \A c \in Clients : reply'[c] # None => pc'[c] = "wait"
    BY <1>1, <1>2 DEF ProgramTypes, Stays
  <2>4. \A c \in Clients : IsList(done'[c])
    <3>1. \A c \in Clients \ {w} : done'[c] = done[c] /\ IsList(done[c])
      BY <1>1, <1>2 DEF ProgramTypes, Stays
    <3> QED
      BY <1>2, <3>1
  <2> QED
    BY <2>1, <2>2, <2>3, <2>4 DEF ProgramTypes, IsList
<1>4. Working(w)' /\ StageAnswered(w)'
  BY <1>0, <1>2 DEF Working, StageAnswered, Committed, Listed
<1> QED
  BY <1>0, <1>2, <1>3, <1>4, ProgramStep

\* Every step of a worker.
LEMMA WorkerSteps ==
  ASSUME ClientsInv, NEW w \in Workers, WorkerStep(w)
  PROVE  ClientsInv'
<1> DEFINE n == Len(Inputs[w])
<1>a. /\ w \in Clients /\ n \in Nat \ {0} /\ DOMAIN Inputs[w] = 1..n
      /\ \A i \in DOMAIN Inputs[w] : Outputs[w][i] \in Names
      /\ ManifestOf[w] \in Names /\ w \notin Loaders
  BY Given
<1>0. /\ ProgramTypes /\ Working(w) /\ StageAnswered(w)
  BY DEF ClientsInv
<1>1. /\ item[w] \in Nat \ {0} /\ status[w] \in {"running", "ok", "failed"} /\ IsList(done[w])
      /\ pc[w] # "wait" => reply[w] = None
  BY <1>a, <1>0 DEF ProgramTypes
<1>2. /\ item = [item EXCEPT ![w] = item[w]] /\ status = [status EXCEPT ![w] = status[w]]
      /\ reply[w] = None => reply = [reply EXCEPT ![w] = None]
  BY <1>0 DEF ProgramTypes
<1>3. body = [body EXCEPT ![w] = body[w]] /\ done = [done EXCEPT ![w] = done[w]]
  BY <1>0 DEF ProgramTypes
<1>4. Listed(w, done[w])
  BY <1>0 DEF Working, Listed
<1>5. /\ item[w] <= n + 2 /\ (pc[w] \in {"start", "read"} => item[w] <= n)
      /\ pc[w] \in {"write", "wait"} => /\ item[w] <= n + 1
                                        /\ item[w] <= n => body[w] = Inputs[w][item[w]].checksum
      /\ Len(done[w]) = IF item[w] = n + 2 THEN n ELSE item[w] - 1
      /\ status[w] = "ok" => item[w] = n + 2 /\ Committed(ManifestOf[w], w, n + 1, done[w])
  BY <1>0 DEF Working
<1>6. item[w] <= item[w] /\ item[w] + 1 \in Nat \ {0} /\ item[w] <= item[w] + 1
  BY <1>1
<1> HIDE DEF n
<1>n. n = Len(Inputs[w])
  BY DEF n
<1>7. ASSUME Report(w, "failed"), UNCHANGED <<owner, content, serving, wire, item, attempt,
             body, done>>,
             reply' = [reply EXCEPT ![w] = None]
      PROVE  ClientsInv'
  <2>1. pc' = [pc EXCEPT ![w] = "end"] /\ status' = [status EXCEPT ![w] = "failed"]
    BY <1>7 DEF Report, Go
  <2>2. /\ item' = [item EXCEPT ![w] = item[w]] /\ body' = [body EXCEPT ![w] = body[w]]
        /\ done' = [done EXCEPT ![w] = done[w]]
    BY <1>2, <1>3, <1>7
  <2>t. Turn(w, "end", item[w], "failed", body[w], done[w])
    BY <1>1, <1>4, <1>5, <1>6, <1>7, <1>n, <2>1, <2>2 DEF Turn
  <2> QED
    BY <1>7, <2>t, WorkerFrame
<1>8. CASE WorkMint(w)
  <2>1. /\ pc[w] = "start" /\ UNCHANGED <<owner, content, serving, wire, reply, item, attempt, body, done>>
        /\ ((Go(w, "read") /\ UNCHANGED status) \/ Report(w, "failed"))
    BY <1>8 DEF WorkMint, server
  <2>2. /\ item' = [item EXCEPT ![w] = item[w]] /\ body' = [body EXCEPT ![w] = body[w]]
        /\ done' = [done EXCEPT ![w] = done[w]] /\ reply' = [reply EXCEPT ![w] = None]
    BY <1>1, <1>2, <1>3, <2>1
  <2>3. CASE Go(w, "read") /\ UNCHANGED status
    <3>1. pc' = [pc EXCEPT ![w] = "read"] /\ status' = [status EXCEPT ![w] = status[w]]
      BY <1>2, <2>3 DEF Go
    <3>t. Turn(w, "read", item[w], status[w], body[w], done[w])
      BY <1>1, <1>4, <1>5, <1>6, <1>n, <2>1, <2>2, <3>1 DEF Turn
    <3> QED
      BY <2>1, <3>t, WorkerFrame
  <2> QED
    BY <1>7, <2>1, <2>2, <2>3
<1>9. CASE WorkRead(w)
  <2>1. /\ pc[w] = "read" /\ UNCHANGED <<owner, content, serving, wire, reply, item, attempt, done>>
    BY <1>9 DEF WorkRead, server
  <2>2. /\ item' = [item EXCEPT ![w] = item[w]]
        /\ done' = [done EXCEPT ![w] = done[w]] /\ reply' = [reply EXCEPT ![w] = None]
    BY <1>1, <1>2, <1>3, <2>1
  <2>3. CASE /\ body' = [body EXCEPT ![w] = Inputs[w][item[w]].checksum]
             /\ Go(w, "write") /\ UNCHANGED status
    <3>1. pc' = [pc EXCEPT ![w] = "write"] /\ status' = [status EXCEPT ![w] = status[w]]
      BY <1>2, <2>3 DEF Go
    <3>2. item[w] <= n + 1
      BY <1>a, <1>1, <1>5, <2>1
    <3>t. Turn(w, "write", item[w], status[w], Inputs[w][item[w]].checksum, done[w])
      BY <1>1, <1>4, <1>5, <1>6, <1>n, <2>1, <2>2, <2>3, <3>1, <3>2 DEF Turn
    <3> QED
      BY <2>1, <3>t, WorkerFrame
  <2>4. CASE Report(w, "failed") /\ UNCHANGED body
    BY <1>7, <2>1, <2>2, <2>4
  <2> QED
    BY <1>9, <2>3, <2>4 DEF WorkRead
<1>10. CASE WorkPut(w)
  <2>1. /\ pc[w] = "write" /\ UNCHANGED <<owner, content, serving, reply, item, attempt, body, done, status>>
        /\ pc' = [pc EXCEPT ![w] = "wait"]
    BY <1>10 DEF WorkPut, Send, Go
  <2>2. /\ item' = [item EXCEPT ![w] = item[w]] /\ body' = [body EXCEPT ![w] = body[w]]
        /\ done' = [done EXCEPT ![w] = done[w]] /\ reply' = [reply EXCEPT ![w] = None]
        /\ status' = [status EXCEPT ![w] = status[w]]
    BY <1>1, <1>2, <1>3, <2>1
  <2>3. \A r \in wire' \ wire : Made(r)'
    <3>0. PICK q : /\ wire' = wire \cup {q}
                   /\ q = [client |-> w, item |-> item[w], attempt |-> attempt[w],
                           name |-> Stage(w, item[w]),
                           data |-> IF item[w] <= n THEN body[w] ELSE done[w]]
      BY <1>10, <1>n DEF WorkPut, Send, Stage
    <3>1. /\ wire' = wire \cup {q} /\ q.client = w /\ q.item = item[w]
          /\ q.name = Stage(w, item[w])
          /\ q.data = IF item[w] <= n THEN body[w] ELSE done[w]
      BY <3>0
    <3>2. /\ q.name \in Names /\ item[w] \in 1..(n + 1) /\ item[w] <= item'[w]
          /\ item[w] <= n => q.data = Inputs[w][item[w]].checksum
          /\ item[w] > n => q.data = done'[w]
      BY <1>a, <1>n, <1>1, <1>5, <2>1, <3>1 DEF Stage
    <3>3. Made(q)'
      BY <1>a, <1>n, <3>1, <3>2 DEF Made
    <3> QED
      BY <3>1, <3>3
  <2>t. Turn(w, "wait", item[w], status[w], body[w], done[w])
    BY <1>1, <1>4, <1>5, <1>6, <1>n, <2>1, <2>2, <2>3 DEF Turn
  <2> QED
    BY <2>3, <2>t, WorkerFrame
<1>11. CASE WorkAnswer(w)
  <2>1. /\ pc[w] = "wait" /\ UNCHANGED <<owner, content, serving, wire, attempt, body>>
        /\ reply' = [reply EXCEPT ![w] = None] /\ body' = [body EXCEPT ![w] = body[w]]
    BY <1>3, <1>11 DEF WorkAnswer, server
  <2>2. CASE Report(w, "failed") /\ UNCHANGED <<item, done>>
    BY <1>7, <2>1, <2>2
  <2>3. CASE reply[w] = 201 /\ NextStage(w)
    <3>0. Committed(Stage(w, item[w]), w, item[w], IF item[w] <= n THEN body[w] ELSE done[w])
      BY <1>0, <1>n, <2>3 DEF StageAnswered
    <3>1. CASE item[w] > n
      <4>1. /\ pc' = [pc EXCEPT ![w] = "end"] /\ status' = [status EXCEPT ![w] = "ok"]
            /\ item' = [item EXCEPT ![w] = item[w] + 1] /\ done' = [done EXCEPT ![w] = done[w]]
        BY <1>3, <1>n, <2>3, <3>1 DEF NextStage, Report, Go
      <4>2. item[w] = n + 1 /\ item[w] + 1 = n + 2 /\ item[w] + 1 <= n + 2
        BY <1>a, <1>1, <1>5, <2>1, <3>1
      <4>3. Stage(w, item[w]) = ManifestOf[w] /\ ~(item[w] <= n) /\ Len(done[w]) = n
        BY <1>a, <1>1, <1>5, <1>n, <4>2 DEF Stage
      <4>4. Committed(ManifestOf[w], w, n + 1, done[w])
        BY <3>0, <4>2, <4>3
      <4>t. Turn(w, "end", item[w] + 1, "ok", body[w], done[w])
        BY <1>1, <1>4, <1>6, <1>n, <2>1, <4>1, <4>2, <4>3, <4>4 DEF Turn
      <4> QED
        BY <2>1, <4>t, WorkerFrame
    <3>2. CASE ~(item[w] > n)
      <4>0. item[w] <= n /\ Len(done[w]) = item[w] - 1 /\ item[w] \in DOMAIN Inputs[w]
        BY <1>a, <1>1, <1>5, <3>2
      <4>1. /\ UNCHANGED status /\ status' = [status EXCEPT ![w] = status[w]]
            /\ item' = [item EXCEPT ![w] = item[w] + 1]
            /\ done' = [done EXCEPT ![w] = Append(done[w], Entry(w))]
            /\ pc' = [pc EXCEPT ![w] = IF item[w] < n THEN "read" ELSE "write"]
        BY <1>2, <1>n, <2>3, <3>2 DEF NextStage, Go
      <4>2. PICK m : m = Append(done[w], Entry(w))
        OBVIOUS
      <4>3. /\ IsList(m) /\ Len(m) = item[w] /\ DOMAIN m = 1..item[w] /\ m[item[w]] = Entry(w)
            /\ \A j \in DOMAIN m \ {item[w]} : j \in DOMAIN done[w] /\ m[j] = done[w][j]
        <5>1. /\ IsList(m) /\ DOMAIN done[w] = 1..Len(done[w]) /\ Len(m) = Len(done[w]) + 1
              /\ DOMAIN m = 1..(Len(done[w]) + 1) /\ m[Len(done[w]) + 1] = Entry(w)
              /\ \A j \in DOMAIN done[w] : m[j] = done[w][j]
          BY <1>1, <4>2, Appended
        <5> QED
          BY <1>1, <4>0, <5>1
      <4>4. Listed(w, m)
        <5>1. Committed(Outputs[w][item[w]], w, item[w], Inputs[w][item[w]].checksum)
          BY <1>5, <1>n, <2>1, <3>0, <4>0 DEF Stage
        <5>2. Entry(w).name = Outputs[w][item[w]] /\ Entry(w).asset = owner[Outputs[w][item[w]]]
          BY DEF Entry
        <5> QED
          BY <1>4, <4>3, <5>1, <5>2 DEF Listed
      <4>5. /\ item[w] + 1 <= n + 1 /\ item[w] + 1 <= n + 2 /\ item[w] + 1 # n + 2
            /\ Len(m) = item[w] + 1 - 1 /\ ~(item[w] > n) /\ status[w] # "ok"
        BY <1>a, <1>1, <1>5, <4>0, <4>3
      <4>c. /\ status' = [status EXCEPT ![w] = status[w]] /\ done' = [done EXCEPT ![w] = m]
            /\ item' = [item EXCEPT ![w] = item[w] + 1] /\ IsList(m)
        BY <4>1, <4>2, <4>3
      <4>d. PICK i : i = item[w] + 1
        OBVIOUS
      <4>e. /\ item' = [item EXCEPT ![w] = i] /\ i \in Nat \ {0} /\ item[w] <= i /\ i <= n + 1
            /\ i <= n + 2 /\ i # n + 2 /\ Len(m) = i - 1
        BY <1>a, <1>1, <1>6, <4>c, <4>d, <4>3, <4>5
      <4>6. CASE item[w] < n
        <5>1. pc' = [pc EXCEPT ![w] = "read"] /\ item[w] + 1 <= n
          BY <1>a, <1>1, <4>1, <4>6
        <5>2. Turn(w, "read", i, status[w], body[w], m)
          BY <1>a, <1>1, <1>n, <2>1, <4>c, <4>d, <4>e, <4>4, <4>5, <5>1 DEF Turn
        <5> QED
          BY <2>1, <5>2, WorkerFrame
      <4>7. CASE ~(item[w] < n)
        <5>1. pc' = [pc EXCEPT ![w] = "write"] /\ ~(item[w] + 1 <= n)
          BY <1>a, <1>1, <4>1, <4>7
        <5>2. Turn(w, "write", i, status[w], body[w], m)
          BY <1>a, <1>1, <1>n, <2>1, <4>c, <4>d, <4>e, <4>4, <4>5, <5>1 DEF Turn
        <5> QED
          BY <2>1, <5>2, WorkerFrame
      <4> QED
        BY <4>6, <4>7
    <3> QED
      BY <3>1, <3>2
  <2> QED
    BY <1>11, <2>2, <2>3 DEF WorkAnswer
<1>12. CASE WorkTimeout(w)
  <2>1. /\ Report(w, "failed") /\ UNCHANGED <<owner, content, serving, wire, item, attempt, body, done>>
        /\ reply' = [reply EXCEPT ![w] = None]
    BY <1>2, <1>12 DEF WorkTimeout, server
  <2> QED
    BY <1>7, <2>1
<1> QED
  BY <1>8, <1>9, <1>10, <1>11, <1>12 DEF WorkerStep

-----------------------------------------------------------------------------
(* Results *)

\* The account holds at the start and through every step.
LEMMA ClientsStart == ClientsInit => ClientsInv
<1> SUFFICES ASSUME ClientsInit PROVE ClientsInv
  OBVIOUS
<1>0. \A c \in Clients : done[c] = <<>> /\ item[c] = 1 /\ pc[c] = "start" /\ reply[c] = None
                         /\ status[c] = "running"
  BY DEF ClientsInit
<1>1. NamesInv
  BY DEF ClientsInit, NamesInv, Unbound
<1>2. ProgramTypes
  BY <1>0 DEF ClientsInit, ProgramTypes, IsList
<1>3. \A l \in Loaders : Loading(l) /\ RowAnswered(l)
  <2> SUFFICES ASSUME NEW l \in Loaders PROVE Loading(l) /\ RowAnswered(l)
    OBVIOUS
  <2>1. l \in Clients /\ None # 201
    BY Given
  <2>2. /\ DOMAIN done[l] = {} /\ item[l] = 1 /\ pc[l] = "start" /\ reply[l] # 201
    BY <1>0, <2>1
  <2> QED
    BY <2>2 DEF Loading, RowAnswered
<1>4. \A w \in Workers : Working(w) /\ StageAnswered(w)
  BY <1>0, Given DEF Working, StageAnswered
<1> QED
  BY <1>1, <1>2, <1>3, <1>4 DEF ClientsInv

\* Every step of a client, of the network or of the server keeps the invariant.
LEMMA ClientsStep == ClientsInv /\ [ClientsNext]_clientVars => ClientsInv'
<1> SUFFICES ASSUME ClientsInv, [ClientsNext]_clientVars PROVE ClientsInv'
  OBVIOUS
<1>1. CASE UNCHANGED clientVars
  BY <1>1, StoreStep DEF clientVars, Moves, local
<1> QED
  BY <1>1, LoaderSteps, WorkerSteps, ServerSteps DEF ClientsNext

\* What the programs report is so, whatever other runs put under the same names and
\* whatever answers were lost.
THEOREM ReportsTrue == ClientsSpec => []ReportTrue
<1>1. ClientsInv => ReportTrue
  BY Given DEF ClientsInv, Loading, Working, Committed, ReportTrue
<1> QED
  BY <1>1, ClientsStart, ClientsStep, PTL DEF ClientsSpec

\* A published manifest names every output of its task, committed by the attempt that
\* published it and equal to the trusted input.
THEOREM ManifestsVouch == ClientsSpec => []ManifestVouches
<1>1. ClientsInv => ManifestVouches
  <2> SUFFICES ASSUME ClientsInv, NEW w \in Workers,
                      content[ManifestOf[w]] # None, owner[ManifestOf[w]].client = w
               PROVE  LET m == ManifestOf[w] IN
                      /\ Len(content[m]) = Len(Inputs[w])
                      /\ \A i \in DOMAIN Inputs[w] :
                           LET e == content[m][i] IN
                           /\ e.asset = owner[e.name] /\ e.asset.client = w
                           /\ e.name = Outputs[w][i] /\ content[e.name] = Inputs[w][i].checksum
    BY DEF ManifestVouches
  <2> DEFINE r == owner[ManifestOf[w]]
  <2>1. /\ w \in Clients /\ w # None /\ Len(Inputs[w]) \in Nat /\ DOMAIN Inputs[w] = 1..Len(Inputs[w])
        /\ ManifestOf[w] \in Names /\ \A i \in DOMAIN Inputs[w] : Outputs[w][i] # ManifestOf[w]
    BY Given
  <2>2. Made(r) /\ r.name = ManifestOf[w] /\ content[ManifestOf[w]] = r.data /\ NamesInv
    BY <2>1 DEF ClientsInv, NamesInv
  <2>3. /\ r.item \in 1..(Len(Inputs[w]) + 1) /\ r.item <= item[w] /\ r.name = Stage(w, r.item)
        /\ r.item > Len(Inputs[w]) => r.data = done[w]
    BY <2>2 DEF Made
  <2> HIDE DEF r
  <2>4. ~(r.item <= Len(Inputs[w]))
    BY <2>1, <2>2, <2>3 DEF Stage
  <2>5. ProgramTypes /\ Working(w) /\ item[w] \in Nat /\ IsList(done[w])
    BY <2>1 DEF ClientsInv, ProgramTypes
  <2>6. content[ManifestOf[w]] = done[w] /\ item[w] >= Len(Inputs[w]) + 1
    BY <2>1, <2>2, <2>3, <2>4, <2>5
  <2>7. Len(done[w]) = Len(Inputs[w])
    BY <2>1, <2>5, <2>6 DEF Working
  <2>8. DOMAIN done[w] = 1..Len(done[w])
    BY <2>5, Appended
  <2> QED
    BY <2>1, <2>5, <2>6, <2>7, <2>8 DEF Working, Committed
<1> QED
  BY <1>1, ClientsStart, ClientsStep, PTL DEF ClientsSpec
=============================================================================
