--------------------------- MODULE SqliteFileProofs --------------------------
(***************************************************************************)
(* Proofs about what the SQLite provider keeps in its file.                 *)
(*                                                                         *)
(* Its artifacts (SqliteArtifacts), for any number of identities and runs, *)
(* any budgets, grace and number of claims: references keep their promise, *)
(* uploads belong to the file's owner and are within the budgets, published *)
(* content is removed only when nobody holds it, and a run that stopped    *)
(* writes nothing.  The argument: the step a write_artifact call has       *)
(* reached says which state its row may be in; a row that was ever owned   *)
(* has a holder that either still pins it or has been collected.           *)
(*                                                                         *)
(* Its migration (Migration, second half), for any processes, runs,        *)
(* records and packages, any budgets and number of deaths: the file is the *)
(* old one or a whole new one, a refusal has its cause in the file, and a  *)
(* foreign file is left alone.  The argument: the transaction knows which  *)
(* packages of the file it has visited, and a run has the package it had   *)
(* or, when that one was visited, what it became.                          *)
(***************************************************************************)
EXTENDS SqliteArtifacts, Migration, FiniteSetTheorems, WellFoundedInduction, TLAPS

Artifact == [state : {"none", "staging", "ready"}, bytes : 0..MaxChunks, expires : Nat,
             everOwned : BOOLEAN]
Run      == [state : {"none", "active", "ended", "gone"}, cancelled : BOOLEAN,
             declared : SUBSET Ids]
Writer   == [pc : {"none", "begin", "append", "publish", "cleanup", "returned", "done"},
             by : Nat, run : Runs \cup {Host}, bytes : 0..MaxChunks, expires : Nat, dropped : BOOLEAN]
Reader   == [pc : {"none", "read", "whole", "failed"}, id : Ids \cup {NoId}, by : Nat,
             run : Runs \cup {Host}, total : Nat, read : Nat]

TypeInv ==
    /\ art \in [Ids -> Artifact] /\ pins \in [Ids -> SUBSET Runs]
    /\ runs \in [Runs -> Run] /\ owner \in Nat /\ claims \in Nat /\ now \in Nat
    /\ writer \in [Ids -> Writer] /\ reader \in Reader

(* What the row of an identity may be, by the step its writer has reached. *)
RowInv(a) ==
    LET x == art[a]
        w == writer[a]
    IN  /\ x.state = "ready" => /\ w.pc \in {"returned", "cleanup", "done"}
                                /\ x.bytes = w.bytes
        /\ x.state = "staging" => w.pc \in {"append", "publish", "cleanup", "done"}
        /\ x.state = "staging" => x.bytes = w.bytes
        /\ w.pc = "begin" => w.bytes = 0
        /\ owner # 0 /\ x.state = "staging" => w.by = owner

(* A row that was ever owned has a holder, or had one that was collected; a *)
(* returned row that is absent was lost by its last holder, or by time.     *)
HeldBy(a, r) == r = writer[a].run \/ a \in runs[r].declared
HoldInv(a) ==
    LET x == art[a]
        w == writer[a]
    IN  /\ w.pc = "returned" /\ x.state = "ready" => x.expires = w.expires
        /\ w.pc # "done" /\ x.state # "none" /\ x.everOwned =>
              \E r \in Runs : HeldBy(a, r) /\ (r \in pins[a] \/ runs[r].state = "gone")
        /\ w.pc # "done" /\ x.state # "none" /\ ~x.everOwned => w.run = Host
        /\ w.pc = "returned" /\ x.state = "none" =>
              /\ pins[a] = {}
              /\ \/ w.run = Host /\ now >= w.expires
                 \/ \E r \in Runs : HeldBy(a, r) /\ runs[r].state = "gone"

(* What a run declares is there and pinned until the run is collected. *)
DeclaredInv(r) ==
    /\ runs[r].state = "none" => runs[r].declared = {}
    /\ runs[r].state # "gone" =>
          \A a \in runs[r].declared : art[a].state = "ready" /\ r \in pins[a]

ReaderInv ==
    reader.pc \in {"read", "whole"} =>
        /\ reader.id \in Ids
        /\ reader.total = writer[reader.id].bytes
        /\ writer[reader.id].pc \in {"returned", "cleanup", "done"}
        /\ reader.pc = "whole" => reader.read = reader.total

IInv == /\ TypeInv
        /\ \A a \in Ids : RowInv(a) /\ HoldInv(a)
        /\ \A r \in Runs : DeclaredInv(r)
        /\ ReaderInv
        /\ WithinBudget

-----------------------------------------------------------------------------
(* Types *)

LEMMA ValuesTyped ==
    /\ NoArtifact \in Artifact /\ NoRun \in Run
    /\ NoWriter \in Writer /\ NoReader \in Reader
<1>1. NoArtifact \in Artifact /\ NoRun \in Run
  BY ArtifactsAssumption DEF NoArtifact, Artifact, NoRun, Run
<1>2. NoWriter \in Writer /\ NoReader \in Reader
  BY ArtifactsAssumption DEF NoWriter, Writer, NoReader, Reader
<1> QED
  BY <1>1, <1>2

LEMMA RowFields ==
    ASSUME NEW x \in Artifact
    PROVE  /\ x.state \in {"none", "staging", "ready"} /\ x.bytes \in Nat /\ x.expires \in Nat
           /\ x.everOwned \in BOOLEAN
  BY DEF Artifact

LEMMA WriterFields ==
    ASSUME NEW w \in Writer
    PROVE  /\ w.pc \in {"none", "begin", "append", "publish", "cleanup", "returned", "done"}
           /\ w.by \in Nat /\ w.run \in Runs \cup {Host} /\ w.bytes \in Nat /\ w.expires \in Nat
           /\ w.dropped \in BOOLEAN
  BY DEF Writer

LEMMA OverFields ==
    ASSUME TypeInv, NEW a \in Ids
    PROVE  /\ Over(a) \in Writer /\ Over(a).pc = "done" /\ Over(a).bytes = writer[a].bytes
           /\ Over(a).by = writer[a].by
<1>1. writer[a].bytes \in 0..MaxChunks /\ writer[a].by \in Nat
  BY DEF TypeInv, Writer
<1> DEFINE n == writer[a].bytes
           o == writer[a].by
           w == NoWriter
           one == [w EXCEPT !.pc = "done"]
           two == [one EXCEPT !.bytes = n]
           all == [two EXCEPT !.by = o]
<1>2. Over(a) = all
  BY DEF Over
<1>3. w \in Writer
  BY ValuesTyped
<1> HIDE DEF n, o, w
<1>4. one \in Writer /\ one.pc = "done"
  BY <1>3 DEF Writer
<1> HIDE DEF one
<1>5. two \in Writer /\ two.pc = "done" /\ two.bytes = n
  BY <1>1, <1>4 DEF Writer, n
<1> HIDE DEF two
<1>6. all \in Writer /\ all.pc = "done" /\ all.bytes = n /\ all.by = o
  BY <1>1, <1>5 DEF Writer, o
<1> HIDE DEF all
<1> QED
  BY <1>2, <1>6 DEF n, o

(* collect leaves a row as it was, or removes one nobody holds or may pin. *)
LEMMA CollectedRow ==
    ASSUME TypeInv, NEW held, NEW a \in Ids
    PROVE  \/ Collected(held)[a] = art[a]
           \/ /\ Collected(held)[a] = NoArtifact /\ art[a].state = "ready" /\ held[a] = {}
              /\ art[a].everOwned \/ art[a].expires <= now
  BY DEF Collected

-----------------------------------------------------------------------------
(* What the calls of a writer do, field by field *)

(* The writer of a moves to another step; whose call it is stays.           *)
Moved(a, step, bytes, expires) ==
    /\ writer' \in [Ids -> Writer]
    /\ writer'[a].pc = step /\ writer'[a].bytes = bytes /\ writer'[a].expires = expires
    /\ writer'[a].by = writer[a].by /\ writer'[a].run = writer[a].run
    /\ \A b \in Ids \ {a} : writer'[b] = writer[b]

Steps == {"none", "begin", "append", "publish", "cleanup", "returned", "done"}

LEMMA PcMoves ==
    ASSUME TypeInv, NEW a \in Ids, NEW step \in Steps, writer' = [writer EXCEPT ![a].pc = step]
    PROVE  Moved(a, step, writer[a].bytes, writer[a].expires)
<1> DEFINE w == [writer[a] EXCEPT !.pc = step]
<1>1. writer[a] \in Writer
  BY DEF TypeInv
<1>2. /\ w \in Writer /\ w.pc = step /\ w.bytes = writer[a].bytes
      /\ w.expires = writer[a].expires /\ w.by = writer[a].by /\ w.run = writer[a].run
  BY <1>1 DEF Writer, Steps
<1>3. writer' = [writer EXCEPT ![a] = w]
  OBVIOUS
<1> HIDE DEF w
<1> QED
  BY <1>2, <1>3 DEF TypeInv, Moved

LEMMA RefuseMeans ==
    ASSUME TypeInv, NEW a \in Ids, Refuse(a)
    PROVE  /\ UNCHANGED <<art, pins>>
           /\ Moved(a, "cleanup", writer[a].bytes, writer[a].expires)
<1>1. writer' = [writer EXCEPT ![a].pc = "cleanup"] /\ UNCHANGED <<art, pins>>
  BY DEF Refuse
<1>2. "cleanup" \in Steps
  BY DEF Steps
<1> QED
  BY <1>1, <1>2, PcMoves

LEMMA StepMeans ==
    ASSUME TypeInv, NEW a \in Ids, NEW step \in Steps, Step(a, step)
    PROVE  \E to \in {"cleanup", step} : Moved(a, to, writer[a].bytes, writer[a].expires)
<1> DEFINE to == IF writer[a].dropped THEN "cleanup" ELSE step
<1>1. writer' = [writer EXCEPT ![a].pc = to]
  BY DEF Step
<1>2. to \in {"cleanup", step} /\ to \in Steps
  BY DEF Steps
<1> HIDE DEF to
<1>3. Moved(a, to, writer[a].bytes, writer[a].expires)
  BY <1>1, <1>2, PcMoves
<1> QED
  BY <1>2, <1>3

LEMMA OpenMeans ==
    ASSUME TypeInv, NEW a \in Ids, Open(a)
    PROVE  /\ UNCHANGED <<art, pins, runs, owner, claims, reader, now>>
           /\ writer[a].pc = "none" /\ writer' \in [Ids -> Writer] /\ writer'[a].pc = "begin"
           /\ writer'[a].bytes = 0
           /\ \A b \in Ids \ {a} : writer'[b] = writer[b]
<1>1. /\ UNCHANGED <<art, pins, runs, owner, claims, reader, now>> /\ writer[a].pc = "none"
      /\ \E r \in Runs \cup {Host} :
            writer' = [writer EXCEPT ![a] = [NoWriter EXCEPT !.pc = "begin", !.by = owner, !.run = r]]
  BY DEF Open, Writing
<1>2. PICK r \in Runs \cup {Host} :
         writer' = [writer EXCEPT ![a] = [NoWriter EXCEPT !.pc = "begin", !.by = owner, !.run = r]]
  BY <1>1
<1> DEFINE w == NoWriter
           one == [w EXCEPT !.pc = "begin"]
           two == [one EXCEPT !.by = owner]
           three == [two EXCEPT !.run = r]
<1>3. writer' = [writer EXCEPT ![a] = three]
  BY <1>2
<1>4. w \in Writer /\ owner \in Nat /\ w.bytes = 0
  BY ValuesTyped DEF TypeInv, NoWriter
<1> HIDE DEF w
<1>5. one \in Writer /\ one.pc = "begin" /\ one.bytes = 0
  BY <1>4 DEF Writer
<1> HIDE DEF one
<1>6. two \in Writer /\ two.pc = "begin" /\ two.bytes = 0
  BY <1>4, <1>5 DEF Writer
<1> HIDE DEF two
<1>7. three \in Writer /\ three.pc = "begin" /\ three.bytes = 0
  BY <1>6 DEF Writer
<1> HIDE DEF three
<1> QED
  BY <1>1, <1>3, <1>7 DEF TypeInv

(* begin: what is collected first, then the row of the upload.              *)
LEMMA BeginMeans ==
    ASSUME TypeInv, NEW a \in Ids, Begin(a)
    PROVE  /\ UNCHANGED <<runs, owner, claims, reader, now>> /\ writer[a].pc = "begin"
           /\ \/ /\ UNCHANGED <<art, pins>>
                 /\ Moved(a, "cleanup", writer[a].bytes, writer[a].expires)
              \/ /\ owner # 0 /\ owner = writer[a].by /\ MayWrite(writer[a].run)
                 /\ Cardinality({b \in Ids : Collected(pins)[b].state # "none"}) < MaxArtifacts
                 /\ art' \in [Ids -> Artifact] /\ pins' \in [Ids -> SUBSET Runs]
                 /\ \A b \in Ids \ {a} : art'[b] = Collected(pins)[b] /\ pins'[b] = pins[b]
                 /\ art'[a].state = "staging" /\ art'[a].bytes = 0
                 /\ art'[a].everOwned = (writer[a].run # Host)
                 /\ pins'[a] = IF writer[a].run = Host THEN {} ELSE {writer[a].run}
                 /\ \E to \in {"cleanup", "append"} :
                       Moved(a, to, writer[a].bytes, writer[a].expires)
<1> DEFINE r == writer[a].run
           left == Collected(pins)
           row == [state |-> "staging", bytes |-> 0, expires |-> now + Grace, everOwned |-> r # Host]
           mine == IF r = Host THEN {} ELSE {r}
<1>1. UNCHANGED <<runs, owner, claims, reader, now>> /\ writer[a].pc = "begin"
  BY DEF Begin, Writing
<1>2. CASE Refuse(a)
  BY <1>1, <1>2, RefuseMeans
<1>3. CASE /\ Owned(a) /\ MayWrite(r)
           /\ Cardinality({b \in Ids : left[b].state # "none"}) < MaxArtifacts
           /\ art' = [left EXCEPT ![a] = row]
           /\ pins' = [pins EXCEPT ![a] = mine]
           /\ Step(a, "append")
  <2>1. row \in Artifact
    BY ArtifactsAssumption DEF Artifact, TypeInv
  <2>2. mine \in SUBSET Runs
    BY WriterFields DEF TypeInv
  <2>3. left \in [Ids -> Artifact]
    BY ValuesTyped DEF Collected, TypeInv
  <2>4. row.state = "staging" /\ row.bytes = 0 /\ row.everOwned = (r # Host)
    OBVIOUS
  <2>5. "append" \in Steps
    BY DEF Steps
  <2>6. \E to \in {"cleanup", "append"} : Moved(a, to, writer[a].bytes, writer[a].expires)
    BY <1>3, <2>5, StepMeans
  <2>7. Cardinality({b \in Ids : Collected(pins)[b].state # "none"}) < MaxArtifacts
    BY <1>3
  <2>8. owner # 0 /\ owner = writer[a].by /\ MayWrite(writer[a].run)
    BY <1>3 DEF Owned
  <2> HIDE DEF row, mine, left
  <2>9. /\ art' \in [Ids -> Artifact] /\ pins' \in [Ids -> SUBSET Runs]
        /\ \A b \in Ids \ {a} : art'[b] = left[b] /\ pins'[b] = pins[b]
        /\ art'[a] = row /\ pins'[a] = mine
    BY <1>3, <2>1, <2>2, <2>3 DEF TypeInv
  <2> QED
    BY <1>1, <2>4, <2>6, <2>7, <2>8, <2>9 DEF mine, left, r
<1> QED
  BY <1>2, <1>3 DEF Begin

LEMMA AppendMeans ==
    ASSUME TypeInv, NEW a \in Ids, Append(a)
    PROVE  /\ UNCHANGED <<pins, runs, owner, claims, reader, now>> /\ writer[a].pc = "append"
           /\ \/ /\ UNCHANGED art
                 /\ Moved(a, "cleanup", writer[a].bytes, writer[a].expires)
              \/ /\ owner # 0 /\ owner = writer[a].by /\ MayWrite(writer[a].run)
                 /\ Used < MaxBytes
                 /\ art[a].state = "staging" /\ art[a].bytes = writer[a].bytes
                 /\ art' \in [Ids -> Artifact]
                 /\ art'[a].state = "staging" /\ art'[a].bytes = art[a].bytes + 1
                 /\ art'[a].expires = art[a].expires /\ art'[a].everOwned = art[a].everOwned
                 /\ \A b \in Ids \ {a} : art'[b] = art[b]
                 /\ \E to \in {"cleanup", "append"} :
                       Moved(a, to, writer[a].bytes + 1, writer[a].expires)
<1>1. /\ UNCHANGED <<runs, owner, claims, reader, now>> /\ writer[a].pc = "append"
      /\ writer[a].bytes < MaxChunks
  BY DEF Append, Writing
<1>2. CASE Refuse(a)
  BY <1>1, <1>2, RefuseMeans
<1>3. CASE /\ Owned(a) /\ MayWrite(writer[a].run) /\ Used < MaxBytes
           /\ art[a].state = "staging" /\ art[a].bytes = writer[a].bytes
           /\ art' = [art EXCEPT ![a].bytes = @ + 1]
           /\ writer' = [writer EXCEPT ![a].bytes = @ + 1,
                            ![a].pc = IF writer[a].dropped THEN "cleanup" ELSE "append"]
           /\ UNCHANGED pins
  <2> DEFINE to == IF writer[a].dropped THEN "cleanup" ELSE "append"
             v == writer[a]
             one == [v EXCEPT !.bytes = v.bytes + 1]
             two == [one EXCEPT !.pc = to]
             x == art[a]
             row == [x EXCEPT !.bytes = x.bytes + 1]
  <2>1. v \in Writer /\ x \in Artifact /\ to \in {"cleanup", "append"}
    BY DEF TypeInv
  <2>2. writer' = [writer EXCEPT ![a] = two] /\ art' = [art EXCEPT ![a] = row]
    BY <1>3 DEF TypeInv
  <2>3. Owned(a) /\ MayWrite(v.run) /\ Used < MaxBytes /\ x.state = "staging" /\ x.bytes = v.bytes
    BY <1>3
  <2> HIDE DEF to, v, x
  <2>n. v.bytes + 1 \in 0..MaxChunks /\ x.bytes + 1 \in 0..MaxChunks
    BY <1>1, <2>1, <2>3, ArtifactsAssumption DEF v, Writer
  <2>4. /\ one \in Writer /\ one.bytes = v.bytes + 1 /\ one.expires = v.expires
        /\ one.by = v.by /\ one.run = v.run
    BY <2>1, <2>n DEF Writer
  <2> HIDE DEF one
  <2>5. /\ two \in Writer /\ two.pc = to /\ two.bytes = v.bytes + 1 /\ two.expires = v.expires
        /\ two.by = v.by /\ two.run = v.run
    BY <2>1, <2>4 DEF Writer
  <2>6. /\ row \in Artifact /\ row.bytes = x.bytes + 1 /\ row.state = x.state
        /\ row.expires = x.expires /\ row.everOwned = x.everOwned
    BY <2>1, <2>n DEF Artifact
  <2> HIDE DEF two, row
  <2>7. /\ art' \in [Ids -> Artifact] /\ art'[a] = row /\ \A b \in Ids \ {a} : art'[b] = art[b]
    BY <2>2, <2>6 DEF TypeInv
  <2>8. Moved(a, to, writer[a].bytes + 1, writer[a].expires)
    BY <2>2, <2>5 DEF TypeInv, Moved, v
  <2> QED
    BY <1>1, <1>3, <2>1, <2>3, <2>6, <2>7, <2>8 DEF v, x, Owned
<1> QED
  BY <1>2, <1>3 DEF Append

LEMMA SourceEndsMeans ==
    ASSUME TypeInv, NEW a \in Ids, SourceEnds(a)
    PROVE  /\ UNCHANGED <<art, pins, runs, owner, claims, reader, now>>
           /\ writer[a].pc = "append"
           /\ \E to \in {"cleanup", "publish"}, at \in Nat : Moved(a, to, writer[a].bytes, at)
<1>1. UNCHANGED <<art, pins, runs, owner, claims, reader, now>> /\ writer[a].pc = "append"
  BY DEF SourceEnds, Writing
<1>2. CASE writer' = [writer EXCEPT ![a].pc = "cleanup"]
  <2>1. "cleanup" \in Steps /\ writer[a].expires \in Nat
    BY WriterFields DEF Steps, TypeInv
  <2>2. Moved(a, "cleanup", writer[a].bytes, writer[a].expires)
    BY <1>2, <2>1, PcMoves
  <2> QED
    BY <1>1, <2>1, <2>2
<1>3. CASE writer' = [writer EXCEPT ![a].pc = IF writer[a].dropped THEN "cleanup" ELSE "publish",
                                    ![a].expires = now + Grace]
  <2> DEFINE to == IF writer[a].dropped THEN "cleanup" ELSE "publish"
             at == now + Grace
             v == writer[a]
             one == [v EXCEPT !.pc = to]
             two == [one EXCEPT !.expires = at]
  <2>1. v \in Writer /\ at \in Nat /\ to \in {"cleanup", "publish"}
    BY ArtifactsAssumption DEF TypeInv
  <2>2. writer' = [writer EXCEPT ![a] = two]
    BY <1>3 DEF TypeInv
  <2> HIDE DEF to, at, v
  <2>3. /\ one \in Writer /\ one.pc = to /\ one.bytes = v.bytes
        /\ one.by = v.by /\ one.run = v.run
    BY <2>1 DEF Writer
  <2> HIDE DEF one
  <2>4. /\ two \in Writer /\ two.pc = to /\ two.bytes = v.bytes /\ two.expires = at
        /\ two.by = v.by /\ two.run = v.run
    BY <2>1, <2>3 DEF Writer
  <2> HIDE DEF two
  <2>5. Moved(a, to, writer[a].bytes, at)
    BY <2>2, <2>4 DEF TypeInv, Moved, v
  <2> QED
    BY <1>1, <2>1, <2>5
<1> QED
  BY <1>2, <1>3 DEF SourceEnds

LEMMA PublishMeans ==
    ASSUME TypeInv, NEW a \in Ids, Publish(a)
    PROVE  /\ UNCHANGED <<pins, runs, owner, claims, reader, now>> /\ writer[a].pc = "publish"
           /\ \/ /\ UNCHANGED art
                 /\ Moved(a, "cleanup", writer[a].bytes, writer[a].expires)
              \/ /\ MayWrite(writer[a].run)
                 /\ art[a].state = "staging" /\ art[a].bytes = writer[a].bytes
                 /\ art' \in [Ids -> Artifact]
                 /\ art'[a].state = "ready" /\ art'[a].bytes = art[a].bytes
                 /\ art'[a].expires = writer[a].expires /\ art'[a].everOwned = art[a].everOwned
                 /\ \A b \in Ids \ {a} : art'[b] = art[b]
                 /\ \E to \in {"cleanup", "returned"} :
                       Moved(a, to, writer[a].bytes, writer[a].expires)
<1>1. UNCHANGED <<runs, owner, claims, reader, now>> /\ writer[a].pc = "publish"
  BY DEF Publish, Writing
<1>2. CASE Refuse(a)
  BY <1>1, <1>2, RefuseMeans
<1>3. CASE /\ MayWrite(writer[a].run)
           /\ art[a].state = "staging" /\ art[a].bytes = writer[a].bytes
           /\ art' = [art EXCEPT ![a].state = "ready", ![a].expires = writer[a].expires]
           /\ Step(a, "returned")
           /\ UNCHANGED pins
  <2> DEFINE x == art[a]
             at == writer[a].expires
             one == [x EXCEPT !.state = "ready"]
             two == [one EXCEPT !.expires = at]
  <2>1. x \in Artifact /\ at \in Nat
    BY WriterFields DEF TypeInv
  <2>2. art' = [art EXCEPT ![a] = two]
    BY <1>3 DEF TypeInv
  <2> HIDE DEF x, at
  <2>3. one \in Artifact /\ one.state = "ready" /\ one.bytes = x.bytes /\ one.everOwned = x.everOwned
    BY <2>1 DEF Artifact
  <2> HIDE DEF one
  <2>4. /\ two \in Artifact /\ two.state = "ready" /\ two.bytes = x.bytes
        /\ two.everOwned = x.everOwned /\ two.expires = at
    BY <2>1, <2>3 DEF Artifact
  <2> HIDE DEF two
  <2>5. art' \in [Ids -> Artifact] /\ art'[a] = two /\ \A b \in Ids \ {a} : art'[b] = art[b]
    BY <2>2, <2>4 DEF TypeInv
  <2>6. "returned" \in Steps
    BY DEF Steps
  <2>7. \E to \in {"cleanup", "returned"} : Moved(a, to, writer[a].bytes, writer[a].expires)
    BY <1>3, <2>6, StepMeans
  <2> QED
    BY <1>1, <1>3, <2>4, <2>5, <2>7 DEF x, at
<1> QED
  BY <1>2, <1>3 DEF Publish

LEMMA DropMeans ==
    ASSUME TypeInv, NEW a \in Ids, Drop(a)
    PROVE  /\ UNCHANGED <<art, pins, runs, owner, claims, reader, now>>
           /\ writer[a].pc \in {"begin", "append", "publish"}
           /\ \E to \in {"cleanup", writer[a].pc} :
                 Moved(a, to, writer[a].bytes, writer[a].expires)
<1>1. UNCHANGED <<art, pins, runs, owner, claims, reader, now>>
      /\ writer[a].pc \in {"begin", "append", "publish"}
  BY DEF Drop
<1>2. PICK queued \in BOOLEAN :
         writer' = [writer EXCEPT ![a].dropped = TRUE, ![a].pc = IF queued THEN @ ELSE "cleanup"]
  BY DEF Drop
<1> DEFINE v == writer[a]
           one == [v EXCEPT !.dropped = TRUE]
           to == IF queued THEN v.pc ELSE "cleanup"
           two == [one EXCEPT !.pc = to]
<1>3. v \in Writer /\ to \in {"cleanup", v.pc}
  BY DEF TypeInv
<1>4. /\ one \in Writer /\ one.pc = v.pc /\ one.bytes = v.bytes /\ one.expires = v.expires
      /\ one.by = v.by /\ one.run = v.run
  <2> HIDE DEF v
  <2> QED
    BY <1>3 DEF Writer
<1>5. writer' = [writer EXCEPT ![a] = two]
  BY <1>2, <1>4 DEF TypeInv
<1>6. to \in {"none", "begin", "append", "publish", "cleanup", "returned", "done"}
  BY <1>3, WriterFields
<1> HIDE DEF v, one, to
<1>7. /\ two \in Writer /\ two.pc = to /\ two.bytes = v.bytes /\ two.expires = v.expires
      /\ two.by = v.by /\ two.run = v.run
  BY <1>4, <1>6 DEF Writer
<1> HIDE DEF two
<1>8. Moved(a, to, writer[a].bytes, writer[a].expires)
  BY <1>5, <1>7 DEF TypeInv, Moved, v
<1> QED
  BY <1>1, <1>3, <1>8 DEF v

LEMMA CleanupMeans ==
    ASSUME TypeInv, NEW a \in Ids, Cleanup(a) \/ CleanupLost(a)
    PROVE  /\ UNCHANGED <<runs, owner, claims, reader, now>> /\ writer[a].pc = "cleanup"
           /\ writer' \in [Ids -> Writer] /\ writer'[a].pc = "done"
           /\ writer'[a].bytes = writer[a].bytes
           /\ \A b \in Ids \ {a} : writer'[b] = writer[b]
           /\ writer'[a].by = writer[a].by
           /\ \/ UNCHANGED <<art, pins>>
              \/ /\ art[a].state = "staging"
                 /\ art' \in [Ids -> Artifact] /\ art'[a] = NoArtifact
                 /\ pins' \in [Ids -> SUBSET Runs] /\ pins'[a] = {}
                 /\ \A b \in Ids \ {a} : art'[b] = art[b] /\ pins'[b] = pins[b]
<1>1. /\ UNCHANGED <<runs, owner, claims, reader, now>> /\ writer[a].pc = "cleanup"
      /\ writer' = [writer EXCEPT ![a] = Over(a)]
  BY DEF Cleanup, CleanupLost, Writing
<1>2. /\ writer' \in [Ids -> Writer] /\ writer'[a].pc = "done"
      /\ writer'[a].bytes = writer[a].bytes /\ writer'[a].by = writer[a].by
      /\ \A b \in Ids \ {a} : writer'[b] = writer[b]
  BY <1>1, OverFields DEF TypeInv
<1>3. CASE Cleanup(a) /\ Owned(a) /\ art[a].state = "staging"
  <2>1. art' = [art EXCEPT ![a] = NoArtifact] /\ pins' = [pins EXCEPT ![a] = {}]
    BY <1>3 DEF Cleanup
  <2>2. /\ art' \in [Ids -> Artifact] /\ art'[a] = NoArtifact
        /\ pins' \in [Ids -> SUBSET Runs] /\ pins'[a] = {}
        /\ \A b \in Ids \ {a} : art'[b] = art[b] /\ pins'[b] = pins[b]
    BY <2>1, ValuesTyped DEF TypeInv
  <2> QED
    BY <1>1, <1>2, <1>3, <2>2
<1>4. CASE CleanupLost(a) \/ ~(Owned(a) /\ art[a].state = "staging")
  <2>1. UNCHANGED <<art, pins>>
    BY <1>4 DEF Cleanup, CleanupLost
  <2> QED
    BY <1>1, <1>2, <1>4, <2>1
<1> QED
  BY <1>3, <1>4

-----------------------------------------------------------------------------
(* The budgets *)

LEMMA StoredIsFinite == IsFiniteSet(Stored) /\ Used \in Nat
<1>1. IsFiniteSet(Ids \X (1..MaxChunks))
  <2>1. MaxChunks \in Nat
    BY ArtifactsAssumption
  <2>2. IsFiniteSet(1..MaxChunks)
    BY <2>1, FS_Interval
  <2> QED
    BY <2>2, FS_Product, ArtifactsAssumption
<1>2. Stored \subseteq Ids \X (1..MaxChunks)
  BY DEF Stored
<1> QED
  BY <1>1, <1>2, FS_Subset, FS_CardinalityType DEF Used

(* No row grows, no more bytes are used. *)
LEMMA UsedShrinks ==
    ASSUME TypeInv, TypeInv', \A a \in Ids : art'[a].bytes <= art[a].bytes
    PROVE  Used' <= Used /\ Used \in Nat /\ Used' \in Nat
<1>1. Stored' \subseteq Stored
  <2> SUFFICES ASSUME NEW a \in Ids, NEW k \in 1..MaxChunks, k <= art'[a].bytes
               PROVE  k <= art[a].bytes
    BY DEF Stored
  <2>1. art[a].bytes \in Nat /\ art'[a].bytes \in Nat
    BY RowFields, ArtifactsAssumption DEF TypeInv, Artifact
  <2> QED
    BY <2>1, ArtifactsAssumption
<1>2. Cardinality(Stored') <= Cardinality(Stored)
  BY <1>1, StoredIsFinite, FS_Subset
<1>3. Used' \in Nat
  <2>1. (IsFiniteSet(Stored) /\ Used \in Nat)'
    BY StoredIsFinite, PTL
  <2> QED
    BY <2>1
<1> QED
  BY <1>2, <1>3, StoredIsFinite DEF Used

LEMMA RowsCounted ==
    ASSUME NEW S \in SUBSET Ids, NEW T \in SUBSET Ids, S \subseteq T
    PROVE  /\ Cardinality(S) \in Nat /\ Cardinality(T) \in Nat
           /\ Cardinality(S) <= Cardinality(T)
<1>1. IsFiniteSet(T) /\ IsFiniteSet(S)
  BY FS_Subset, ArtifactsAssumption
<1> QED
  BY <1>1, FS_Subset, FS_CardinalityType

(* Whatever only removes rows and bytes stays within the budgets.           *)
LEMMA BudgetShrinks ==
    ASSUME IInv, TypeInv',
           \A a \in Ids : /\ art'[a].bytes <= art[a].bytes
                          /\ art'[a].state # "none" => art[a].state # "none"
    PROVE  WithinBudget'
<1>1. Cardinality({a \in Ids : Exists(a)}') <= Cardinality({a \in Ids : Exists(a)})
      /\ Cardinality({a \in Ids : Exists(a)}') \in Nat /\ Cardinality({a \in Ids : Exists(a)}) \in Nat
  <2>1. {a \in Ids : Exists(a)}' \subseteq {a \in Ids : Exists(a)}
    BY DEF Exists
  <2> QED
    BY <2>1, RowsCounted
<1>2. Used' <= Used /\ Used \in Nat /\ Used' \in Nat
  BY UsedShrinks DEF IInv
<1>3. MaxArtifacts \in Nat /\ MaxBytes \in Nat
  BY ArtifactsAssumption
<1> QED
  BY <1>1, <1>2, <1>3 DEF IInv, WithinBudget

(* begin adds one row, after it has compared what is left.                  *)
LEMMA BudgetBegins ==
    ASSUME IInv, TypeInv', NEW a \in Ids, art[a].state = "none",
           Cardinality({b \in Ids : Collected(pins)[b].state # "none"}) < MaxArtifacts,
           \A b \in Ids \ {a} : art'[b] = Collected(pins)[b],
           art'[a].bytes = 0
    PROVE  WithinBudget'
<1> DEFINE left == {b \in Ids : Collected(pins)[b].state # "none"}
<1>1. {b \in Ids : Exists(b)}' \subseteq left \cup {a}
  BY DEF Exists
<1>2. left \in SUBSET Ids /\ left \cup {a} \in SUBSET Ids
  OBVIOUS
<1>3. MaxArtifacts \in Nat /\ MaxBytes \in Nat
  BY ArtifactsAssumption
<1>4. IsFiniteSet(left) /\ Cardinality(left) \in Nat
  BY <1>2, FS_Subset, FS_CardinalityType, ArtifactsAssumption
<1>5. Cardinality(left) < MaxArtifacts
  OBVIOUS
<1> HIDE DEF left
<1>6. Cardinality(left \cup {a}) <= Cardinality(left) + 1
  <2>1. Cardinality(left \cup {a}) = IF a \in left THEN Cardinality(left) ELSE Cardinality(left) + 1
    BY <1>4, FS_AddElement, Zenon
  <2> QED
    BY <1>4, <2>1
<1>7. {b \in Ids : Exists(b)}' \in SUBSET Ids
  OBVIOUS
<1>8. /\ Cardinality({b \in Ids : Exists(b)}') <= Cardinality(left \cup {a})
      /\ Cardinality({b \in Ids : Exists(b)}') \in Nat /\ Cardinality(left \cup {a}) \in Nat
  BY <1>1, <1>2, <1>7, RowsCounted
<1>9. Cardinality({b \in Ids : Exists(b)}') <= MaxArtifacts
  BY <1>3, <1>4, <1>5, <1>6, <1>8
<1>10. \A b \in Ids : art'[b].bytes <= art[b].bytes
  <2> TAKE b \in Ids
  <2>1. art[b].bytes \in Nat
    BY RowFields DEF IInv, TypeInv
  <2>2. NoArtifact.bytes = 0
    BY DEF NoArtifact
  <2>3. CASE b = a
    BY <2>1, <2>3
  <2>4. CASE b # a
    <3>1. art'[b] = art[b] \/ art'[b] = NoArtifact
      BY <2>4, CollectedRow DEF IInv
    <3> QED
      BY <2>1, <2>2, <3>1
  <2> QED
    BY <2>3, <2>4
<1>11. Used' <= Used /\ Used \in Nat /\ Used' \in Nat
  BY <1>10, UsedShrinks DEF IInv
<1> QED
  BY <1>3, <1>9, <1>11 DEF IInv, WithinBudget

(* append adds one chunk below the budget.                                  *)
LEMMA BudgetAppends ==
    ASSUME IInv, TypeInv', NEW a \in Ids, Used < MaxBytes,
           art[a].state = "staging", art'[a].bytes = art[a].bytes + 1,
           \A b \in Ids \ {a} : art'[b] = art[b]
    PROVE  WithinBudget'
<1>1. /\ Cardinality({b \in Ids : Exists(b)}') <= Cardinality({b \in Ids : Exists(b)})
      /\ Cardinality({b \in Ids : Exists(b)}') \in Nat /\ Cardinality({b \in Ids : Exists(b)}) \in Nat
  <2>1. {b \in Ids : Exists(b)}' \subseteq {b \in Ids : Exists(b)}
    BY DEF Exists
  <2> QED
    BY <2>1, RowsCounted
<1>2. Stored' \subseteq Stored \cup {<<a, art'[a].bytes>>}
  <2> SUFFICES ASSUME NEW b \in Ids, NEW k \in 1..MaxChunks, k <= art'[b].bytes,
                      ~(k <= art[b].bytes)
               PROVE  b = a /\ k = art'[a].bytes
    BY DEF Stored
  <2>1. b = a
    OBVIOUS
  <2>2. art[a].bytes \in Nat
    BY RowFields DEF IInv, TypeInv, Artifact
  <2> QED
    BY <2>1, <2>2, ArtifactsAssumption
<1>3. IsFiniteSet(Stored) /\ Used \in Nat
  BY StoredIsFinite
<1>4. LET more == Stored \cup {<<a, art'[a].bytes>>}
      IN  IsFiniteSet(more) /\ Cardinality(more) \in Nat /\ Cardinality(more) <= Used + 1
  <2>1. IsFiniteSet(Stored \cup {<<a, art'[a].bytes>>})
    BY <1>3, FS_AddElement
  <2>2. Cardinality(Stored \cup {<<a, art'[a].bytes>>}) \in {Used, Used + 1}
    BY <1>3, FS_AddElement, Zenon DEF Used
  <2> QED
    BY <1>3, <2>1, <2>2
<1>5. Used' \in Nat /\ Used' <= Used + 1
  <2>1. (IsFiniteSet(Stored) /\ Used \in Nat)'
    BY StoredIsFinite, PTL
  <2>2. Cardinality(Stored') <= Cardinality(Stored \cup {<<a, art'[a].bytes>>})
    BY <1>2, <1>4, FS_Subset
  <2> QED
    BY <1>3, <1>4, <2>1, <2>2 DEF Used
<1>6. Used' <= MaxBytes
  BY <1>3, <1>5, ArtifactsAssumption
<1> QED
  BY <1>1, <1>6, ArtifactsAssumption DEF IInv, WithinBudget

-----------------------------------------------------------------------------
(* The invariant: the calls of writers *)

PerId(a) == RowInv(a) /\ HoldInv(a)

(* An identity that a step leaves alone. *)
LEMMA IdRests ==
    ASSUME IInv, NEW a \in Ids, now' \in Nat, now' >= now, UNCHANGED <<runs, owner>>,
           art'[a] = art[a], pins'[a] = pins[a], writer'[a] = writer[a]
    PROVE  PerId(a)'
<1>1. now \in Nat /\ writer[a].expires \in Nat
  BY WriterFields DEF IInv, TypeInv
<1>2. RowInv(a)'
  BY DEF IInv, RowInv
<1>3. HoldInv(a)'
  BY <1>1 DEF IInv, HoldInv, HeldBy
<1> QED
  BY <1>2, <1>3 DEF PerId

(* A row that collect may remove when a writer begins. *)
LEMMA IdCollected ==
    ASSUME IInv, NEW a \in Ids, UNCHANGED <<runs, owner, now>>,
           art'[a] = Collected(pins)[a], pins'[a] = pins[a], writer'[a] = writer[a]
    PROVE  PerId(a)'
<1>1. CASE art'[a] = art[a]
  <2>1. now \in Nat
    BY DEF IInv, TypeInv
  <2> QED
    BY <1>1, <2>1, IdRests
<1>2. CASE /\ art'[a] = NoArtifact /\ art[a].state = "ready" /\ pins[a] = {}
           /\ art[a].everOwned \/ art[a].expires <= now
  <2>1. art'[a].state = "none"
    BY <1>2 DEF NoArtifact
  <2>2. RowInv(a)'
    BY <2>1 DEF IInv, RowInv
  <2>3. HoldInv(a)'
    <3>1. CASE art[a].everOwned
      BY <1>2, <2>1, <3>1 DEF IInv, HoldInv, HeldBy
    <3>2. CASE ~art[a].everOwned
      BY <1>2, <2>1, <3>2 DEF IInv, HoldInv, HeldBy
    <3> QED
      BY <3>1, <3>2
  <2> QED
    BY <2>2, <2>3 DEF PerId
<1> QED
  BY <1>1, <1>2, CollectedRow DEF IInv

LEMMA DeclaredKept ==
    ASSUME IInv, UNCHANGED runs,
           \A a \in Ids : art[a].state = "ready" /\ pins[a] # {} =>
               art'[a].state = "ready" /\ pins[a] \subseteq pins'[a]
    PROVE  \A r \in Runs : DeclaredInv(r)'
<1> TAKE r \in Runs
<1>1. runs[r].declared \subseteq Ids
  BY DEF IInv, TypeInv, Run
<1> QED
  BY <1>1 DEF IInv, DeclaredInv

LEMMA ReaderKept ==
    ASSUME IInv, UNCHANGED reader,
           \A a \in Ids : writer[a].pc \in {"returned", "cleanup", "done"} =>
               /\ writer'[a].pc \in {"returned", "cleanup", "done"}
               /\ writer'[a].bytes = writer[a].bytes
    PROVE  ReaderInv'
  BY DEF IInv, ReaderInv

LEMMA OpenKeeps ==
    ASSUME IInv, NEW a \in Ids, Open(a)
    PROVE  IInv'
<1>1. /\ UNCHANGED <<art, pins, runs, owner, claims, reader, now>>
      /\ writer[a].pc = "none" /\ writer' \in [Ids -> Writer] /\ writer'[a].pc = "begin"
      /\ writer'[a].bytes = 0
      /\ \A b \in Ids \ {a} : writer'[b] = writer[b]
  BY OpenMeans DEF IInv
<1>2. TypeInv'
  BY <1>1 DEF IInv, TypeInv
<1>3. ASSUME NEW b \in Ids PROVE PerId(b)'
  <2>1. CASE b = a
    <3>1. art[a].state = "none"
      BY <1>1, RowFields DEF IInv, TypeInv, RowInv
    <3> QED
      BY <1>1, <2>1, <3>1 DEF PerId, RowInv, HoldInv
  <2>2. CASE b # a
    <3>1. now \in Nat
      BY DEF IInv, TypeInv
    <3> QED
      BY <1>1, <2>2, <3>1, IdRests
  <2> QED
    BY <2>1, <2>2
<1>4. \A r \in Runs : DeclaredInv(r)'
  BY <1>1, DeclaredKept
<1>5. ReaderInv'
  BY <1>1, ReaderKept
<1>6. WithinBudget'
  <2>1. \A b \in Ids : art[b].bytes \in Nat
    BY RowFields DEF IInv, TypeInv
  <2> QED
    BY <1>1, <1>2, <2>1, BudgetShrinks
<1> QED
  BY <1>2, <1>3, <1>4, <1>5, <1>6 DEF IInv, PerId

LEMMA BeginKeeps ==
    ASSUME IInv, NEW a \in Ids, Begin(a)
    PROVE  IInv'
<1> DEFINE done == /\ owner # 0 /\ owner = writer[a].by /\ MayWrite(writer[a].run)
                   /\ Cardinality({b \in Ids : Collected(pins)[b].state # "none"}) < MaxArtifacts
                   /\ art' \in [Ids -> Artifact] /\ pins' \in [Ids -> SUBSET Runs]
                   /\ \A b \in Ids \ {a} : art'[b] = Collected(pins)[b] /\ pins'[b] = pins[b]
                   /\ art'[a].state = "staging" /\ art'[a].bytes = 0
                   /\ art'[a].everOwned = (writer[a].run # Host)
                   /\ pins'[a] = IF writer[a].run = Host THEN {} ELSE {writer[a].run}
                   /\ \E to \in {"cleanup", "append"} :
                         Moved(a, to, writer[a].bytes, writer[a].expires)
           refused == /\ UNCHANGED <<art, pins>>
                      /\ Moved(a, "cleanup", writer[a].bytes, writer[a].expires)
<1>1. UNCHANGED <<runs, owner, claims, reader, now>> /\ writer[a].pc = "begin"
  BY BeginMeans DEF IInv
<1>2. refused \/ done
  BY BeginMeans DEF IInv
<1>3. art[a].state = "none" /\ now \in Nat
  BY <1>1, RowFields DEF IInv, TypeInv, RowInv
<1>4. \A b \in Ids : writer[b].pc \in {"returned", "cleanup", "done"} => writer'[b] = writer[b]
  BY <1>1, <1>2 DEF Moved
<1>5. ReaderInv'
  BY <1>1, <1>4, ReaderKept
<1>6. CASE refused
  <2>1. TypeInv'
    BY <1>1, <1>6 DEF IInv, TypeInv, Moved
  <2>2. ASSUME NEW b \in Ids PROVE PerId(b)'
    <3>1. CASE b = a
      BY <1>3, <1>6, <3>1 DEF PerId, RowInv, HoldInv, Moved
    <3>2. CASE b # a
      BY <1>1, <1>3, <1>6, <3>2, IdRests DEF Moved
    <3> QED
      BY <3>1, <3>2
  <2>3. \A r \in Runs : DeclaredInv(r)'
    BY <1>1, <1>6, DeclaredKept
  <2>4. WithinBudget'
    <3>1. \A b \in Ids : art[b].bytes \in Nat
      BY RowFields DEF IInv, TypeInv
    <3> QED
      BY <1>6, <2>1, <3>1, BudgetShrinks
  <2> QED
    BY <1>5, <2>1, <2>2, <2>3, <2>4 DEF IInv, PerId
<1>7. CASE done
  <2>1. TypeInv'
    BY <1>1, <1>7 DEF IInv, TypeInv, Moved
  <2>2. /\ writer'[a].pc \in {"cleanup", "append"} /\ writer'[a].by = writer[a].by
        /\ writer'[a].run = writer[a].run
        /\ \A b \in Ids \ {a} : writer'[b] = writer[b]
    BY <1>7 DEF Moved
  <2>3. writer[a].run \in Runs \cup {Host}
    BY WriterFields DEF IInv, TypeInv
  <2>4. ASSUME NEW b \in Ids PROVE PerId(b)'
    <3>1. CASE b = a
      <4>1. RowInv(a)'
        <5>1. writer'[a].bytes = 0
          BY <1>1, <1>7 DEF IInv, RowInv, Moved
        <5> QED
          BY <1>1, <1>7, <2>2, <5>1 DEF RowInv
      <4>2. HoldInv(a)'
        BY <1>7, <2>2, <2>3 DEF HoldInv, HeldBy
      <4> QED
        BY <3>1, <4>1, <4>2 DEF PerId
    <3>2. CASE b # a
      <4>1. art'[b] = Collected(pins)[b] /\ pins'[b] = pins[b] /\ writer'[b] = writer[b]
        BY <1>7, <2>2, <3>2
      <4> QED
        BY <1>1, <4>1, IdCollected
    <3> QED
      BY <3>1, <3>2
  <2>5. \A r \in Runs : DeclaredInv(r)'
    <3>1. ASSUME NEW b \in Ids, art[b].state = "ready", pins[b] # {}
          PROVE  art'[b].state = "ready" /\ pins[b] \subseteq pins'[b]
      <4>1. b # a
        BY <1>3, <3>1
      <4>2. art'[b] = art[b] /\ pins'[b] = pins[b]
        BY <1>7, <3>1, <4>1, CollectedRow DEF IInv
      <4> QED
        BY <3>1, <4>2
    <3> QED
      BY <1>1, <3>1, DeclaredKept
  <2>6. WithinBudget'
    BY <1>3, <1>7, <2>1, BudgetBegins
  <2> QED
    BY <1>5, <2>1, <2>4, <2>5, <2>6 DEF IInv, PerId
<1> QED
  BY <1>2, <1>6, <1>7

(* A step of a writer that leaves the rows and pins alone.                  *)
LEMMA WriterKeeps ==
    ASSUME IInv, NEW a \in Ids, NEW step \in {"begin", "append", "publish", "cleanup"}, NEW at \in Nat,
           UNCHANGED <<art, pins, runs, owner, claims, reader, now>>,
           writer[a].pc \in {"begin", "append", "publish"},
           step = "begin" => writer[a].pc = "begin",
           Moved(a, step, writer[a].bytes, at)
    PROVE  IInv'
<1>0. now \in Nat
  BY DEF IInv, TypeInv
<1>1. TypeInv'
  BY DEF IInv, TypeInv, Moved
<1>2. ASSUME NEW b \in Ids PROVE PerId(b)'
  <2>1. CASE b = a
    BY <2>1 DEF IInv, PerId, RowInv, HoldInv, HeldBy, Moved
  <2>2. CASE b # a
    BY <1>0, <2>2, IdRests DEF Moved
  <2> QED
    BY <2>1, <2>2
<1>3. \A r \in Runs : DeclaredInv(r)'
  BY DeclaredKept
<1>4. ReaderInv'
  BY ReaderKept DEF Moved
<1>5. WithinBudget'
  <2>1. \A b \in Ids : art[b].bytes \in Nat
    BY RowFields DEF IInv, TypeInv
  <2> QED
    BY <1>1, <2>1, BudgetShrinks
<1> QED
  BY <1>1, <1>2, <1>3, <1>4, <1>5 DEF IInv, PerId

LEMMA AppendKeeps ==
    ASSUME IInv, NEW a \in Ids, Append(a)
    PROVE  IInv'
<1> DEFINE stored == /\ owner # 0 /\ owner = writer[a].by /\ MayWrite(writer[a].run)
                     /\ Used < MaxBytes
                     /\ art[a].state = "staging" /\ art[a].bytes = writer[a].bytes
                     /\ art' \in [Ids -> Artifact]
                     /\ art'[a].state = "staging" /\ art'[a].bytes = art[a].bytes + 1
                     /\ art'[a].expires = art[a].expires /\ art'[a].everOwned = art[a].everOwned
                     /\ \A b \in Ids \ {a} : art'[b] = art[b]
                     /\ \E to \in {"cleanup", "append"} :
                           Moved(a, to, writer[a].bytes + 1, writer[a].expires)
<1>1. UNCHANGED <<pins, runs, owner, claims, reader, now>> /\ writer[a].pc = "append"
  BY AppendMeans DEF IInv
<1>2. \/ UNCHANGED art /\ Moved(a, "cleanup", writer[a].bytes, writer[a].expires)
      \/ stored
  BY AppendMeans DEF IInv
<1>3. now \in Nat /\ writer[a].expires \in Nat
  BY WriterFields DEF IInv, TypeInv
<1>4. CASE UNCHANGED art /\ Moved(a, "cleanup", writer[a].bytes, writer[a].expires)
  BY <1>1, <1>3, <1>4, WriterKeeps
<1>5. CASE stored
  <2>1. TypeInv'
    BY <1>1, <1>5 DEF IInv, TypeInv, Moved
  <2>2. /\ writer'[a].pc \in {"cleanup", "append"} /\ writer'[a].by = writer[a].by
        /\ writer'[a].run = writer[a].run
        /\ \A b \in Ids \ {a} : writer'[b] = writer[b]
    BY <1>5 DEF Moved
  <2>3. ASSUME NEW b \in Ids PROVE PerId(b)'
    <3>1. CASE b = a
      <4>1. RowInv(a)'
        <5>1. writer'[a].bytes = writer[a].bytes + 1
          BY <1>5 DEF Moved
        <5> QED
          BY <1>1, <1>5, <2>2, <5>1 DEF IInv, RowInv
      <4>2. HoldInv(a)'
        BY <1>1, <1>5, <2>2 DEF IInv, HoldInv, HeldBy
      <4> QED
        BY <3>1, <4>1, <4>2 DEF PerId
    <3>2. CASE b # a
      <4>1. art'[b] = art[b] /\ pins'[b] = pins[b] /\ writer'[b] = writer[b]
        BY <1>1, <1>5, <2>2, <3>2
      <4> QED
        BY <1>1, <1>3, <4>1, IdRests
    <3> QED
      BY <3>1, <3>2
  <2>4. \A r \in Runs : DeclaredInv(r)'
    <3>1. \A b \in Ids : art[b].state = "ready" => art'[b].state = "ready" /\ pins'[b] = pins[b]
      BY <1>1, <1>5
    <3> QED
      BY <1>1, <3>1, DeclaredKept
  <2>5. ReaderInv'
    <3>1. \A b \in Ids : writer[b].pc \in {"returned", "cleanup", "done"} => writer'[b] = writer[b]
      BY <1>1, <2>2
    <3> QED
      BY <1>1, <3>1, ReaderKept
  <2>6. WithinBudget'
    BY <1>5, <2>1, BudgetAppends
  <2> QED
    BY <2>1, <2>3, <2>4, <2>5, <2>6 DEF IInv, PerId
<1> QED
  BY <1>2, <1>4, <1>5

LEMMA PublishKeeps ==
    ASSUME IInv, NEW a \in Ids, Publish(a)
    PROVE  IInv'
<1> DEFINE published == /\ MayWrite(writer[a].run)
                        /\ art[a].state = "staging" /\ art[a].bytes = writer[a].bytes
                        /\ art' \in [Ids -> Artifact]
                        /\ art'[a].state = "ready" /\ art'[a].bytes = art[a].bytes
                        /\ art'[a].expires = writer[a].expires
                        /\ art'[a].everOwned = art[a].everOwned
                        /\ \A b \in Ids \ {a} : art'[b] = art[b]
                        /\ \E to \in {"cleanup", "returned"} :
                              Moved(a, to, writer[a].bytes, writer[a].expires)
<1>1. UNCHANGED <<pins, runs, owner, claims, reader, now>> /\ writer[a].pc = "publish"
  BY PublishMeans DEF IInv
<1>2. \/ UNCHANGED art /\ Moved(a, "cleanup", writer[a].bytes, writer[a].expires)
      \/ published
  BY PublishMeans DEF IInv
<1>3. now \in Nat /\ writer[a].expires \in Nat
  BY WriterFields DEF IInv, TypeInv
<1>4. CASE UNCHANGED art /\ Moved(a, "cleanup", writer[a].bytes, writer[a].expires)
  BY <1>1, <1>3, <1>4, WriterKeeps
<1>5. CASE published
  <2>1. TypeInv'
    BY <1>1, <1>5 DEF IInv, TypeInv, Moved
  <2>2. /\ writer'[a].pc \in {"cleanup", "returned"} /\ writer'[a].bytes = writer[a].bytes
        /\ writer'[a].expires = writer[a].expires
        /\ writer'[a].run = writer[a].run
        /\ \A b \in Ids \ {a} : writer'[b] = writer[b]
    BY <1>5 DEF Moved
  <2>3. ASSUME NEW b \in Ids PROVE PerId(b)'
    <3>1. CASE b = a
      <4>1. RowInv(a)'
        BY <1>5, <2>2 DEF RowInv
      <4>2. HoldInv(a)'
        BY <1>1, <1>5, <2>2 DEF IInv, HoldInv, HeldBy
      <4> QED
        BY <3>1, <4>1, <4>2 DEF PerId
    <3>2. CASE b # a
      <4>1. art'[b] = art[b] /\ pins'[b] = pins[b] /\ writer'[b] = writer[b]
        BY <1>1, <1>5, <2>2, <3>2
      <4> QED
        BY <1>1, <1>3, <4>1, IdRests
    <3> QED
      BY <3>1, <3>2
  <2>4. \A r \in Runs : DeclaredInv(r)'
    <3>1. \A b \in Ids : art[b].state = "ready" => art'[b].state = "ready" /\ pins'[b] = pins[b]
      BY <1>1, <1>5
    <3> QED
      BY <1>1, <3>1, DeclaredKept
  <2>5. ReaderInv'
    <3>1. \A b \in Ids : writer[b].pc \in {"returned", "cleanup", "done"} => writer'[b] = writer[b]
      BY <1>1, <2>2
    <3> QED
      BY <1>1, <3>1, ReaderKept
  <2>6. WithinBudget'
    <3>1. \A b \in Ids : art[b].bytes \in Nat
      BY RowFields DEF IInv, TypeInv
    <3> QED
      BY <1>5, <2>1, <3>1, BudgetShrinks
  <2> QED
    BY <2>1, <2>3, <2>4, <2>5, <2>6 DEF IInv, PerId
<1> QED
  BY <1>2, <1>4, <1>5

LEMMA CleanupKeeps ==
    ASSUME IInv, NEW a \in Ids, Cleanup(a) \/ CleanupLost(a)
    PROVE  IInv'
<1> DEFINE removed == /\ art[a].state = "staging"
                      /\ art' \in [Ids -> Artifact] /\ art'[a] = NoArtifact
                      /\ pins' \in [Ids -> SUBSET Runs] /\ pins'[a] = {}
                      /\ \A b \in Ids \ {a} : art'[b] = art[b] /\ pins'[b] = pins[b]
<1>1. /\ UNCHANGED <<runs, owner, claims, reader, now>> /\ writer[a].pc = "cleanup"
      /\ writer' \in [Ids -> Writer] /\ writer'[a].pc = "done"
      /\ writer'[a].bytes = writer[a].bytes /\ writer'[a].by = writer[a].by
      /\ \A b \in Ids \ {a} : writer'[b] = writer[b]
  BY CleanupMeans DEF IInv
<1>2. removed \/ UNCHANGED <<art, pins>>
  BY CleanupMeans DEF IInv
<1>3. TypeInv'
  BY <1>1, <1>2 DEF IInv, TypeInv
<1>4. NoArtifact.state = "none" /\ NoArtifact.bytes = 0 /\ now \in Nat
  BY DEF NoArtifact, IInv, TypeInv
<1>5. ASSUME NEW b \in Ids PROVE PerId(b)'
  <2>1. CASE b = a
    <3>1. RowInv(a)'
      BY <1>1, <1>2, <1>4 DEF IInv, RowInv
    <3>2. HoldInv(a)'
      BY <1>1 DEF HoldInv
    <3> QED
      BY <2>1, <3>1, <3>2 DEF PerId
  <2>2. CASE b # a
    <3>1. art'[b] = art[b] /\ pins'[b] = pins[b] /\ writer'[b] = writer[b]
      BY <1>1, <1>2, <2>2
    <3> QED
      BY <1>1, <1>4, <3>1, IdRests
  <2> QED
    BY <2>1, <2>2
<1>6. \A r \in Runs : DeclaredInv(r)'
  <2>1. \A b \in Ids : art[b].state = "ready" => art'[b].state = "ready" /\ pins'[b] = pins[b]
    BY <1>2
  <2> QED
    BY <1>1, <2>1, DeclaredKept
<1>7. ReaderInv'
  <2>1. \A b \in Ids : writer[b].pc \in {"returned", "cleanup", "done"} =>
            /\ writer'[b].pc \in {"returned", "cleanup", "done"}
            /\ writer'[b].bytes = writer[b].bytes
    BY <1>1
  <2> QED
    BY <1>1, <2>1, ReaderKept
<1>8. WithinBudget'
  <2>1. \A b \in Ids : art[b].bytes \in Nat
    BY RowFields DEF IInv, TypeInv
  <2>2. \A b \in Ids : /\ art'[b].bytes <= art[b].bytes
                       /\ art'[b].state # "none" => art[b].state # "none"
    BY <1>2, <1>4, <2>1
  <2> QED
    BY <1>3, <2>2, BudgetShrinks
<1> QED
  BY <1>3, <1>5, <1>6, <1>7, <1>8 DEF IInv, PerId

LEMMA WriterStepKeeps ==
    ASSUME IInv, NEW a \in Ids, WriterStep(a)
    PROVE  IInv'
<1>1. CASE SourceEnds(a)
  <2>1. PICK to \in {"cleanup", "publish"}, at \in Nat : Moved(a, to, writer[a].bytes, at)
    BY <1>1, SourceEndsMeans DEF IInv
  <2> QED
    BY <1>1, <2>1, SourceEndsMeans, WriterKeeps DEF IInv
<1>2. CASE Drop(a)
  <2>1. PICK to \in {"cleanup", writer[a].pc} : Moved(a, to, writer[a].bytes, writer[a].expires)
    BY <1>2, DropMeans DEF IInv
  <2>2. /\ UNCHANGED <<art, pins, runs, owner, claims, reader, now>>
        /\ writer[a].pc \in {"begin", "append", "publish"}
    BY <1>2, DropMeans DEF IInv
  <2>3. to \in {"begin", "append", "publish", "cleanup"} /\ to = "begin" => writer[a].pc = "begin"
    BY <2>1, <2>2
  <2>4. writer[a].expires \in Nat
    BY WriterFields DEF IInv, TypeInv
  <2> QED
    BY <2>1, <2>2, <2>3, <2>4, WriterKeeps
<1> QED
  BY <1>1, <1>2, BeginKeeps, AppendKeeps, PublishKeeps, CleanupKeeps DEF WriterStep

-----------------------------------------------------------------------------
(* The invariant: readers, the clock and the execution store *)

LEMMA NothingGrows ==
    ASSUME IInv, TypeInv', UNCHANGED art
    PROVE  WithinBudget'
<1>1. \A a \in Ids : art[a].bytes \in Nat
  BY RowFields DEF IInv, TypeInv
<1> QED
  BY <1>1, BudgetShrinks

(* A step that writes neither rows nor runs. *)
LEMMA RestKeeps ==
    ASSUME IInv, UNCHANGED <<art, pins, runs, owner, claims, writer>>,
           now' \in Nat, now' >= now, reader' \in Reader, ReaderInv'
    PROVE  IInv'
<1>1. TypeInv'
  BY DEF IInv, TypeInv
<1>2. \A a \in Ids : PerId(a)'
  BY IdRests
<1>3. \A r \in Runs : DeclaredInv(r)'
  BY DeclaredKept
<1>4. WithinBudget'
  BY <1>1, NothingGrows
<1> QED
  BY <1>1, <1>2, <1>3, <1>4 DEF IInv, PerId

LEMMA TickKeeps ==
    ASSUME IInv, Tick
    PROVE  IInv'
<1>1. /\ now \in Nat /\ now' = now + 1 /\ reader \in Reader
      /\ UNCHANGED <<art, pins, runs, owner, claims, writer, reader>>
  BY DEF Tick, IInv, TypeInv
<1>2. ReaderInv'
  BY <1>1, ReaderKept
<1> QED
  BY <1>1, <1>2, RestKeeps

LEMMA OpenReadKeeps ==
    ASSUME IInv, NEW a \in Ids, OpenRead(a)
    PROVE  IInv'
<1>1. PICK r \in Runs \cup {Host} :
         /\ MayRead(r, a)
         /\ reader' = [pc |-> "read", id |-> a, run |-> r, by |-> owner,
                       total |-> art[a].bytes, read |-> 0]
  BY DEF OpenRead
<1>2. UNCHANGED <<art, pins, runs, owner, claims, writer, now>> /\ now \in Nat /\ owner \in Nat
  BY DEF OpenRead, IInv, TypeInv
<1>3. art[a].bytes \in Nat
  BY RowFields DEF IInv, TypeInv
<1>4. /\ reader' \in Reader /\ reader'.pc = "read" /\ reader'.id = a
      /\ reader'.total = art[a].bytes
  BY <1>1, <1>2, <1>3 DEF Reader
<1>5. art[a].state = "ready"
  BY <1>1 DEF MayRead, Readable
<1>6. ReaderInv'
  BY <1>2, <1>4, <1>5 DEF IInv, RowInv, ReaderInv
<1> QED
  BY <1>2, <1>4, <1>6, RestKeeps

LEMMA ReadChunkKeeps ==
    ASSUME IInv, ReadChunk
    PROVE  IInv'
<1>1. /\ UNCHANGED <<art, pins, runs, owner, claims, writer, now>> /\ now \in Nat
      /\ reader.pc = "read" /\ reader \in Reader
  BY DEF ReadChunk, IInv, TypeInv
<1>2. reader.read \in Nat
  BY <1>1 DEF Reader
<1>3. CASE reader.read = reader.total /\ reader' = [reader EXCEPT !.pc = "whole"]
  <2>1. /\ reader' \in Reader /\ reader'.pc = "whole" /\ reader'.id = reader.id
        /\ reader'.total = reader.total /\ reader'.read = reader.read
    BY <1>1, <1>3 DEF Reader
  <2>2. ReaderInv'
    BY <1>1, <1>3, <2>1 DEF IInv, ReaderInv
  <2> QED
    BY <1>1, <2>1, <2>2, RestKeeps
<1>4. CASE reader' = [reader EXCEPT !.read = @ + 1]
  <2>1. /\ reader' \in Reader /\ reader'.pc = reader.pc /\ reader'.id = reader.id
        /\ reader'.total = reader.total
    BY <1>1, <1>2, <1>4 DEF Reader
  <2>2. ReaderInv'
    BY <1>1, <2>1 DEF IInv, ReaderInv
  <2> QED
    BY <1>1, <2>1, <2>2, RestKeeps
<1>5. CASE reader' = [reader EXCEPT !.pc = "failed"]
  <2>1. reader' \in Reader /\ reader'.pc = "failed"
    BY <1>1, <1>5 DEF Reader
  <2>2. ReaderInv'
    BY <2>1 DEF ReaderInv
  <2> QED
    BY <1>1, <2>1, <2>2, RestKeeps
<1> QED
  BY <1>3, <1>4, <1>5 DEF ReadChunk

(* A run is given artifacts: those are pinned, and owned from then on.      *)
LEMMA GivenKeeps ==
    ASSUME IInv, NEW r \in Runs, NEW given \in SUBSET Ids,
           runs[r].state \in {"none", "active"}, \A a \in given : Readable(a),
           runs' \in [Runs -> Run], runs'[r].state = "active",
           runs'[r].declared = runs[r].declared \cup given,
           \A q \in Runs \ {r} : runs'[q] = runs[q],
           pins' = Pinned(r, given), art' = EverOwned(given),
           UNCHANGED <<owner, claims, writer, reader, now>>
    PROVE  IInv'
<1>1. \A a \in Ids :
         IF a \in given
         THEN /\ art'[a] = [art[a] EXCEPT !.everOwned = TRUE] /\ pins'[a] = pins[a] \cup {r}
         ELSE art'[a] = art[a] /\ pins'[a] = pins[a]
  BY DEF Pinned, EverOwned
<1>2. ASSUME NEW a \in Ids
      PROVE  /\ art'[a] \in Artifact /\ pins'[a] \subseteq Runs /\ pins[a] \subseteq pins'[a]
             /\ art'[a].state = art[a].state /\ art'[a].bytes = art[a].bytes
             /\ art'[a].expires = art[a].expires
             /\ art'[a].everOwned = IF a \in given THEN TRUE ELSE art[a].everOwned
  <2>1. art[a] \in Artifact /\ pins[a] \subseteq Runs
    BY DEF IInv, TypeInv
  <2> DEFINE x == art[a]
             row == [x EXCEPT !.everOwned = TRUE]
  <2>2. CASE a \in given
    <3>1. art'[a] = row /\ pins'[a] = pins[a] \cup {r} /\ x \in Artifact
      BY <1>1, <2>1, <2>2
    <3> HIDE DEF x
    <3>2. /\ row \in Artifact /\ row.state = x.state /\ row.bytes = x.bytes
          /\ row.expires = x.expires /\ row.everOwned = TRUE
      BY <3>1 DEF Artifact
    <3> HIDE DEF row
    <3> QED
      BY <2>1, <2>2, <3>1, <3>2 DEF x
  <2>3. CASE a \notin given
    BY <1>1, <2>1, <2>3
  <2> QED
    BY <2>2, <2>3
<1>3. \A a \in given : art[a].state = "ready" /\ r \in pins'[a]
  BY <1>1 DEF Readable
<1>4. TypeInv'
  <2>1. art' \in [Ids -> Artifact] /\ pins' \in [Ids -> SUBSET Runs]
    BY <1>2 DEF Pinned, EverOwned
  <2> QED
    BY <2>1 DEF IInv, TypeInv
<1>5. ASSUME NEW a \in Ids PROVE PerId(a)'
  <2>1. RowInv(a)'
    BY <1>2 DEF IInv, RowInv
  <2>2. \A q \in Runs : /\ HeldBy(a, q) => HeldBy(a, q)'
                        /\ runs[q].state = "gone" => runs'[q].state = "gone"
    BY DEF HeldBy
  <2>3. HoldInv(a)'
    <3>1. CASE a \in given
      <4>1. HeldBy(a, r)' /\ r \in pins'[a] /\ art'[a].everOwned /\ art'[a].state = "ready"
        BY <1>2, <1>3, <3>1 DEF HeldBy
      <4>2. writer[a].pc = "returned" => art'[a].expires = writer[a].expires
        <5>1. HoldInv(a) /\ art[a].state = "ready"
          BY <1>3, <3>1 DEF IInv
        <5>2. writer[a].pc = "returned" => art[a].expires = writer[a].expires
          BY <5>1 DEF HoldInv
        <5>3. art'[a].expires = art[a].expires
          BY <1>2
        <5> QED
          BY <5>2, <5>3
      <4> QED
        BY <4>1, <4>2 DEF HoldInv
    <3>2. CASE a \notin given
      <4>1. art'[a] = art[a] /\ pins'[a] = pins[a]
        BY <1>1, <3>2
      <4>2. HoldInv(a)
        BY DEF IInv
      <4> QED
        BY <2>2, <4>1, <4>2 DEF HoldInv
    <3> QED
      BY <3>1, <3>2
  <2> QED
    BY <2>1, <2>3 DEF PerId
<1>6. ASSUME NEW q \in Runs PROVE DeclaredInv(q)'
  <2>1. runs[q].declared \subseteq Ids
    BY DEF IInv, TypeInv, Run
  <2>2. CASE q = r
    <3>1. runs'[r].state = "active" /\ runs'[r].declared = runs[r].declared \cup given
      OBVIOUS
    <3>2. ASSUME NEW a \in runs[r].declared \cup given
          PROVE  art'[a].state = "ready" /\ r \in pins'[a]
      <4>1. a \in Ids
        BY <2>1, <2>2
      <4>2. CASE a \in given
        BY <1>1, <1>2, <4>1, <4>2 DEF Readable
      <4>3. CASE a \in runs[r].declared
        BY <1>2, <4>1, <4>3 DEF IInv, DeclaredInv
      <4> QED
        BY <4>2, <4>3
    <3> QED
      BY <2>2, <3>1, <3>2 DEF DeclaredInv
  <2>3. CASE q # r
    <3>1. runs'[q] = runs[q] /\ DeclaredInv(q)
      BY <2>3 DEF IInv
    <3>2. \A a \in runs[q].declared : art'[a].state = art[a].state /\ pins[a] \subseteq pins'[a]
      BY <1>2, <2>1
    <3> QED
      BY <3>1, <3>2 DEF DeclaredInv
  <2> QED
    BY <2>2, <2>3
<1>7. ReaderInv'
  BY ReaderKept
<1>8. WithinBudget'
  <2>1. \A a \in Ids : art[a].bytes \in Nat
    BY RowFields DEF IInv, TypeInv
  <2>2. \A a \in Ids : /\ art'[a].bytes <= art[a].bytes
                       /\ art'[a].state # "none" => art[a].state # "none"
    <3> TAKE a \in Ids
    <3>1. art'[a].bytes = art[a].bytes /\ art'[a].state = art[a].state
      BY <1>2
    <3> QED
      BY <2>1, <3>1
  <2> QED
    BY <1>4, <2>2, BudgetShrinks
<1> QED
  BY <1>4, <1>5, <1>6, <1>7, <1>8 DEF IInv, PerId

LEMMA AcceptKeeps ==
    ASSUME IInv, NEW r \in Runs, NEW declared \in SUBSET Ids, Accept(r, declared)
    PROVE  IInv'
<1> DEFINE w == NoRun
           one == [w EXCEPT !.state = "active"]
           two == [one EXCEPT !.declared = declared]
<1>1. /\ runs[r].state = "none" /\ \A a \in declared : Readable(a)
      /\ runs' = [runs EXCEPT ![r] = two]
      /\ pins' = Pinned(r, declared) /\ art' = EverOwned(declared)
      /\ UNCHANGED <<owner, claims, writer, reader, now>>
  BY DEF Accept
<1>2. w \in Run
  BY ValuesTyped
<1> HIDE DEF w
<1>3. one \in Run /\ one.state = "active"
  BY <1>2 DEF Run
<1> HIDE DEF one
<1>4. two \in Run /\ two.state = "active" /\ two.declared = declared
  BY <1>3 DEF Run
<1> HIDE DEF two
<1>5. /\ runs' \in [Runs -> Run] /\ runs'[r] = two
      /\ \A q \in Runs \ {r} : runs'[q] = runs[q]
  BY <1>1, <1>4 DEF IInv, TypeInv
<1>6. runs[r].declared = {}
  BY <1>1 DEF IInv, DeclaredInv
<1>7. runs'[r].declared = runs[r].declared \cup declared
  BY <1>4, <1>5, <1>6
<1> QED
  BY <1>1, <1>4, <1>5, <1>7, GivenKeeps

LEMMA DeliverKeeps ==
    ASSUME IInv, NEW r \in Runs, NEW a \in Ids, DeliverSignal(r, a)
    PROVE  IInv'
<1> DEFINE run == [runs[r] EXCEPT !.declared = @ \cup {a}]
<1>1. /\ runs[r].state = "active" /\ Readable(a)
      /\ runs' = [runs EXCEPT ![r].declared = @ \cup {a}]
      /\ pins' = Pinned(r, {a}) /\ art' = EverOwned({a})
      /\ UNCHANGED <<owner, claims, writer, reader, now>>
  BY DEF DeliverSignal
<1>2. runs[r] \in Run
  BY DEF IInv, TypeInv
<1>3. run \in Run /\ run.state = "active" /\ run.declared = runs[r].declared \cup {a}
  BY <1>1, <1>2 DEF Run
<1>4. runs' = [runs EXCEPT ![r] = run]
  BY <1>1 DEF IInv, TypeInv
<1> HIDE DEF run
<1>5. /\ runs' \in [Runs -> Run] /\ runs'[r] = run
      /\ \A q \in Runs \ {r} : runs'[q] = runs[q]
  BY <1>3, <1>4 DEF IInv, TypeInv
<1>6. {a} \in SUBSET Ids
  OBVIOUS
<1> QED
  BY <1>1, <1>3, <1>5, <1>6, GivenKeeps

LEMMA CancelOrEndKeeps ==
    ASSUME IInv, NEW r \in Runs, CancelOrEnd(r)
    PROVE  IInv'
<1> DEFINE cancelled == [runs[r] EXCEPT !.cancelled = TRUE]
           ended == [runs[r] EXCEPT !.state = "ended"]
           Alike(q) == /\ runs'[q].declared = runs[q].declared
                       /\ runs'[q].state = "gone" <=> runs[q].state = "gone"
                       /\ runs'[q].state = "none" => runs[q].state = "none"
<1>1. /\ runs[r].state = "active" /\ runs[r] \in Run
      /\ UNCHANGED <<art, pins, owner, claims, writer, reader, now>>
      /\ runs' = [runs EXCEPT ![r] = cancelled] \/ runs' = [runs EXCEPT ![r] = ended]
  BY DEF CancelOrEnd, IInv, TypeInv
<1>2. /\ cancelled \in Run /\ cancelled.declared = runs[r].declared /\ cancelled.state = "active"
      /\ ended \in Run /\ ended.declared = runs[r].declared /\ ended.state = "ended"
  BY <1>1 DEF Run
<1> HIDE DEF cancelled, ended
<1>3. runs' \in [Runs -> Run] /\ \A q \in Runs : Alike(q)
  <2>1. PICK run \in Run : /\ runs' = [runs EXCEPT ![r] = run]
                           /\ run.declared = runs[r].declared
                           /\ run.state \in {"active", "ended"}
    BY <1>1, <1>2
  <2>2. runs \in [Runs -> Run] /\ runs[r].state = "active"
    BY <1>1 DEF IInv, TypeInv
  <2>3. /\ runs' \in [Runs -> Run] /\ runs'[r] = run
        /\ \A q \in Runs \ {r} : runs'[q] = runs[q]
    BY <2>1, <2>2
  <2>4. ASSUME NEW q \in Runs PROVE Alike(q)
    <3>1. CASE q = r
      BY <2>1, <2>2, <2>3, <3>1
    <3>2. CASE q # r
      BY <2>3, <3>2
    <3> QED
      BY <3>1, <3>2
  <2> HIDE DEF Alike
  <2> QED
    BY <2>3, <2>4
<1>4. TypeInv'
  BY <1>1, <1>3 DEF IInv, TypeInv
<1>5. ASSUME NEW a \in Ids PROVE PerId(a)'
  <2>1. RowInv(a)'
    BY <1>1 DEF IInv, RowInv
  <2>2. \A q \in Runs : HeldBy(a, q)' <=> HeldBy(a, q)
    BY <1>1, <1>3 DEF HeldBy
  <2>3. HoldInv(a)'
    BY <1>1, <1>3, <2>2 DEF IInv, HoldInv
  <2> QED
    BY <2>1, <2>3 DEF PerId
<1>6. \A q \in Runs : DeclaredInv(q)'
  BY <1>1, <1>3 DEF IInv, DeclaredInv
<1>7. ReaderInv'
  BY <1>1, ReaderKept
<1>8. WithinBudget'
  BY <1>1, <1>4, NothingGrows
<1> QED
  BY <1>4, <1>5, <1>6, <1>7, <1>8 DEF IInv, PerId

(* Runs that leave take their pins along; a row loses its holder only to    *)
(* the collection of that holder.                                           *)
LEMMA CollectKeeps ==
    ASSUME IInv, NEW gone \in SUBSET Runs, Collect(gone)
    PROVE  IInv'
<1>1. /\ runs' = [r \in Runs |-> IF r \in gone THEN [runs[r] EXCEPT !.state = "gone"] ELSE runs[r]]
      /\ pins' = [a \in Ids |-> pins[a] \ gone]
      /\ art' = Collected(pins')
      /\ UNCHANGED <<owner, claims, writer, reader, now>>
      /\ \A r \in gone : runs[r].state = "ended"
  BY DEF Collect, Ended
<1>2. ASSUME NEW r \in Runs
      PROVE  /\ runs'[r] \in Run /\ runs'[r].declared = runs[r].declared
             /\ runs'[r].state = IF r \in gone THEN "gone" ELSE runs[r].state
  <2>1. runs[r] \in Run
    BY DEF IInv, TypeInv
  <2>2. CASE r \in gone
    <3>1. runs'[r] = [runs[r] EXCEPT !.state = "gone"]
      BY <1>1, <2>2
    <3> QED
      BY <2>1, <2>2, <3>1 DEF Run
  <2>3. CASE r \notin gone
    BY <1>1, <2>1, <2>3
  <2> QED
    BY <2>2, <2>3
<1>3. ASSUME NEW a \in Ids
      PROVE  \/ art'[a] = art[a]
             \/ /\ art'[a] = NoArtifact /\ art[a].state = "ready" /\ pins'[a] = {}
                /\ art[a].everOwned \/ art[a].expires <= now
  <2>1. art' = Collected(pins')
    BY <1>1
  <2>2. PICK held : held = pins'
    OBVIOUS
  <2>3. \/ Collected(held)[a] = art[a]
        \/ /\ Collected(held)[a] = NoArtifact /\ art[a].state = "ready" /\ held[a] = {}
           /\ art[a].everOwned \/ art[a].expires <= now
    BY CollectedRow DEF IInv
  <2> QED
    BY <2>1, <2>2, <2>3
<1>4. \A a \in Ids : pins'[a] = pins[a] \ gone
  BY <1>1
<1>5. NoArtifact.state = "none" /\ NoArtifact.bytes = 0 /\ NoArtifact \in Artifact /\ now \in Nat
  BY ValuesTyped DEF NoArtifact, IInv, TypeInv
<1>6. TypeInv'
  <2>1. runs' \in [Runs -> Run]
    BY <1>1, <1>2
  <2>2. pins' \in [Ids -> SUBSET Runs]
    BY <1>1 DEF IInv, TypeInv
  <2>3. art' \in [Ids -> Artifact]
    BY <1>1, <1>5 DEF Collected, IInv, TypeInv
  <2> QED
    BY <1>1, <2>1, <2>2, <2>3 DEF IInv, TypeInv
<1>7. ASSUME NEW a \in Ids PROVE PerId(a)'
  <2>1. RowInv(a)'
    BY <1>1, <1>3, <1>5 DEF IInv, RowInv
  <2>2. \A q \in Runs : /\ HeldBy(a, q)' <=> HeldBy(a, q)
                        /\ runs[q].state = "gone" => runs'[q].state = "gone"
                        /\ q \in pins[a] => q \in pins'[a] \/ runs'[q].state = "gone"
    BY <1>1, <1>2, <1>4 DEF HeldBy
  <2>3. HoldInv(a)'
    <3>1. CASE art'[a] = art[a]
      BY <1>1, <1>4, <2>2, <3>1 DEF IInv, HoldInv
    <3>2. CASE /\ art'[a] = NoArtifact /\ art[a].state = "ready" /\ pins'[a] = {}
               /\ art[a].everOwned \/ art[a].expires <= now
      <4>1. CASE art[a].everOwned
        BY <1>1, <1>5, <2>2, <3>2, <4>1 DEF IInv, HoldInv
      <4>2. CASE ~art[a].everOwned
        BY <1>1, <1>5, <2>2, <3>2, <4>2 DEF IInv, HoldInv
      <4> QED
        BY <4>1, <4>2
    <3> QED
      BY <1>3, <3>1, <3>2
  <2> QED
    BY <2>1, <2>3 DEF PerId
<1>8. ASSUME NEW q \in Runs PROVE DeclaredInv(q)'
  <2>1. runs[q].declared \subseteq Ids
    BY DEF IInv, TypeInv, Run
  <2>2. CASE q \in gone
    BY <1>2, <2>2 DEF DeclaredInv
  <2>3. CASE q \notin gone
    BY <1>2, <1>3, <1>4, <2>1, <2>3 DEF IInv, DeclaredInv
  <2> QED
    BY <2>2, <2>3
<1>9. ReaderInv'
  BY <1>1, ReaderKept
<1>10. WithinBudget'
  <2>1. \A a \in Ids : art[a].bytes \in Nat
    BY RowFields DEF IInv, TypeInv
  <2>2. \A a \in Ids : /\ art'[a].bytes <= art[a].bytes
                       /\ art'[a].state # "none" => art[a].state # "none"
    BY <1>3, <1>5, <2>1
  <2> QED
    BY <1>6, <2>2, BudgetShrinks
<1> QED
  BY <1>6, <1>7, <1>8, <1>9, <1>10 DEF IInv, PerId

LEMMA ClaimKeeps ==
    ASSUME IInv, Claim
    PROVE  IInv'
<1>1. /\ owner' = claims + 1 /\ claims' = claims + 1 /\ claims \in Nat /\ now \in Nat
      /\ art' = [a \in Ids |-> IF art[a].state = "staging" THEN NoArtifact ELSE art[a]]
      /\ pins' = [a \in Ids |-> IF art[a].state = "staging" THEN {} ELSE pins[a]]
      /\ UNCHANGED <<runs, writer, reader, now>>
  BY DEF Claim, IInv, TypeInv
<1>2. NoArtifact.state = "none" /\ NoArtifact.bytes = 0 /\ NoArtifact \in Artifact
  BY ValuesTyped DEF NoArtifact
<1>3. \A a \in Ids : IF art[a].state = "staging"
                      THEN art'[a] = NoArtifact /\ pins'[a] = {}
                      ELSE art'[a] = art[a] /\ pins'[a] = pins[a]
  BY <1>1
<1>4. TypeInv'
  <2>1. art' \in [Ids -> Artifact] /\ pins' \in [Ids -> SUBSET Runs]
    BY <1>1, <1>2 DEF IInv, TypeInv
  <2> QED
    BY <1>1, <2>1 DEF IInv, TypeInv
<1>5. ASSUME NEW a \in Ids PROVE PerId(a)'
  <2>1. RowInv(a)'
    BY <1>1, <1>2, <1>3 DEF IInv, RowInv
  <2>2. HoldInv(a)'
    <3>1. CASE art[a].state = "staging"
      <4>1. writer'[a].pc # "returned" /\ art'[a].state = "none"
        BY <1>1, <1>2, <1>3, <3>1 DEF IInv, RowInv
      <4> QED
        BY <4>1 DEF HoldInv
    <3>2. CASE art[a].state # "staging"
      BY <1>1, <1>3, <3>2 DEF IInv, HoldInv, HeldBy
    <3> QED
      BY <3>1, <3>2
  <2> QED
    BY <2>1, <2>2 DEF PerId
<1>6. \A r \in Runs : DeclaredInv(r)'
  BY <1>1, <1>3, DeclaredKept
<1>7. ReaderInv'
  BY <1>1, ReaderKept
<1>8. WithinBudget'
  <2>1. \A a \in Ids : art[a].bytes \in Nat
    BY RowFields DEF IInv, TypeInv
  <2>2. \A a \in Ids : /\ art'[a].bytes <= art[a].bytes
                       /\ art'[a].state # "none" => art[a].state # "none"
    BY <1>2, <1>3, <2>1
  <2> QED
    BY <1>4, <2>2, BudgetShrinks
<1> QED
  BY <1>4, <1>5, <1>6, <1>7, <1>8 DEF IInv, PerId

LEMMA ReleaseKeeps ==
    ASSUME IInv, Release
    PROVE  IInv'
<1>1. owner' = 0 /\ UNCHANGED <<art, pins, runs, claims, writer, reader, now>>
  BY DEF Release
<1>2. TypeInv'
  BY <1>1 DEF IInv, TypeInv
<1>3. ASSUME NEW a \in Ids PROVE PerId(a)'
  BY <1>1 DEF IInv, PerId, RowInv, HoldInv, HeldBy
<1>4. \A r \in Runs : DeclaredInv(r)'
  BY <1>1, DeclaredKept
<1>5. ReaderInv'
  BY <1>1, ReaderKept
<1>6. WithinBudget'
  BY <1>1, <1>2, NothingGrows
<1> QED
  BY <1>2, <1>3, <1>4, <1>5, <1>6 DEF IInv, PerId

LEMMA CrashKeeps ==
    ASSUME IInv, Crash
    PROVE  IInv'
<1>1. /\ owner' = 0 /\ UNCHANGED <<art, pins, runs, claims, now>>
      /\ writer' = [a \in Ids |-> IF writer[a].pc \in {"none", "returned"} THEN writer[a]
                                  ELSE Over(a)]
  BY DEF Crash
<1>2. ASSUME NEW a \in Ids
      PROVE  /\ writer'[a] \in Writer /\ writer'[a].bytes = writer[a].bytes
             /\ \/ writer'[a] = writer[a] /\ writer[a].pc \in {"none", "returned"}
                \/ writer'[a].pc = "done" /\ writer[a].pc \notin {"none", "returned"}
  <2>1. CASE writer[a].pc \in {"none", "returned"}
    BY <1>1, <2>1 DEF IInv, TypeInv
  <2>2. CASE writer[a].pc \notin {"none", "returned"}
    <3>1. writer'[a] = Over(a)
      BY <1>1, <2>2
    <3> QED
      BY <2>2, <3>1, OverFields DEF IInv
  <2> QED
    BY <2>1, <2>2
<1>3. writer' \in [Ids -> Writer]
  BY <1>1, <1>2
<1>4. reader' \in Reader /\ (reader' = reader \/ reader'.pc = "failed")
  <2>1. reader \in Reader
    BY DEF IInv, TypeInv
  <2>2. CASE reader' = reader
    BY <2>1, <2>2
  <2>3. CASE reader' = [reader EXCEPT !.pc = "failed"]
    BY <2>1, <2>3 DEF Reader
  <2> QED
    BY <2>2, <2>3 DEF Crash
<1>5. TypeInv'
  BY <1>1, <1>3, <1>4 DEF IInv, TypeInv
<1>6. ASSUME NEW a \in Ids PROVE PerId(a)'
  <2>1. RowInv(a)'
    BY <1>1, <1>2 DEF IInv, RowInv
  <2>2. HoldInv(a)'
    BY <1>1, <1>2 DEF IInv, HoldInv, HeldBy
  <2> QED
    BY <2>1, <2>2 DEF PerId
<1>7. \A r \in Runs : DeclaredInv(r)'
  BY <1>1, DeclaredKept
<1>8. ReaderInv'
  BY <1>2, <1>4 DEF IInv, ReaderInv
<1>9. WithinBudget'
  BY <1>1, <1>5, NothingGrows
<1> QED
  BY <1>5, <1>6, <1>7, <1>8, <1>9 DEF IInv, PerId

LEMMA StutterKeeps ==
    ASSUME IInv, UNCHANGED vars
    PROVE  IInv'
<1>1. /\ UNCHANGED <<art, pins, runs, owner, claims, writer>> /\ UNCHANGED <<reader, now>>
      /\ now \in Nat /\ reader \in Reader
  BY DEF vars, IInv, TypeInv
<1>2. ReaderInv'
  BY <1>1, ReaderKept
<1> QED
  BY <1>1, <1>2, RestKeeps

-----------------------------------------------------------------------------
(* The invariant of every reachable state *)

LEMMA Initially == Init => IInv
<1> SUFFICES ASSUME Init PROVE IInv
  OBVIOUS
<1>1. /\ art = [a \in Ids |-> NoArtifact] /\ pins = [a \in Ids |-> {}]
      /\ runs = [r \in Runs |-> NoRun] /\ owner = 0 /\ claims = 0
      /\ writer = [a \in Ids |-> NoWriter] /\ reader = NoReader /\ now = 0
  BY DEF Init
<1>2. /\ NoArtifact.state = "none" /\ NoArtifact.bytes = 0 /\ NoWriter.pc = "none"
      /\ NoRun.declared = {} /\ NoReader.pc = "none"
  BY DEF NoArtifact, NoWriter, NoRun, NoReader
<1>3. TypeInv
  BY <1>1, ValuesTyped DEF TypeInv
<1>4. ASSUME NEW a \in Ids PROVE RowInv(a) /\ HoldInv(a)
  BY <1>1, <1>2 DEF RowInv, HoldInv
<1>5. \A r \in Runs : DeclaredInv(r)
  BY <1>1, <1>2 DEF DeclaredInv
<1>6. ReaderInv
  BY <1>1, <1>2 DEF ReaderInv
<1>7. WithinBudget
  <2>1. {a \in Ids : Exists(a)} = {}
    BY <1>1, <1>2 DEF Exists
  <2>2. Cardinality({a \in Ids : Exists(a)}) = 0
    BY <2>1, FS_EmptySet
  <2>3. \A a \in Ids : art[a].bytes = 0
    BY <1>1, <1>2
  <2>4. Used = 0
    <3>1. Stored = {}
      BY <2>3, ArtifactsAssumption DEF Stored
    <3> QED
      BY <3>1, FS_EmptySet DEF Used
  <2> QED
    BY <2>2, <2>4, ArtifactsAssumption DEF WithinBudget
<1> QED
  BY <1>3, <1>4, <1>5, <1>6, <1>7 DEF IInv

LEMMA StoreStepKeeps ==
    ASSUME IInv, StoreStep
    PROVE  IInv'
<1>1. ASSUME NEW r \in Runs, NEW declared \in SUBSET Ids, Accept(r, declared) PROVE IInv'
  BY <1>1, AcceptKeeps
<1>2. ASSUME NEW r \in Runs, CancelOrEnd(r) PROVE IInv'
  BY <1>2, CancelOrEndKeeps
<1>3. ASSUME NEW r \in Runs, NEW a \in Ids, DeliverSignal(r, a) PROVE IInv'
  BY <1>3, DeliverKeeps
<1>4. ASSUME NEW gone \in SUBSET Runs, Collect(gone) PROVE IInv'
  BY <1>4, CollectKeeps
<1> QED
  BY <1>1, <1>2, <1>3, <1>4, ClaimKeeps, ReleaseKeeps, CrashKeeps DEF StoreStep

LEMMA Inductive == IInv /\ [Next]_vars => IInv'
<1> SUFFICES ASSUME IInv, [Next]_vars PROVE IInv'
  OBVIOUS
<1>1. ASSUME NEW a \in Ids, Open(a) PROVE IInv'
  BY <1>1, OpenKeeps
<1>2. ASSUME NEW a \in Ids, WriterStep(a) PROVE IInv'
  BY <1>2, WriterStepKeeps
<1>3. ASSUME NEW a \in Ids, OpenRead(a) PROVE IInv'
  BY <1>3, OpenReadKeeps
<1> QED
  BY <1>1, <1>2, <1>3, ReadChunkKeeps, StoreStepKeeps, TickKeeps, StutterKeeps DEF Next

LEMMA Invariant == Spec => []IInv
  BY Initially, Inductive, PTL DEF Spec
(* What a run declares stays readable while the run is stored, what was     *)
(* returned is there until its time or its last holder passes, and a stream *)
(* that ends has delivered all of it: pin_inputs, pin_references, collect,  *)
(* the late cleanup and the claims (artifacts.rs:154, :219, :448).          *)
THEOREM ReferencesAreHeld == Spec => []ReferencesHold
<1>1. IInv => ReferencesHold
  <2> SUFFICES ASSUME IInv PROVE ReferencesHold
    OBVIOUS
  <2>1. PinnedStays
    <3>1. \A r \in Runs : runs[r].declared \subseteq Ids
      BY DEF IInv, TypeInv, Run
    <3> QED
      BY <3>1 DEF IInv, DeclaredInv, PinnedStays, Readable
  <2>2. ReturnedIsKept
    <3> SUFFICES ASSUME NEW a \in Ids, writer[a].pc = "returned"
                 PROVE  \/ art[a].state = "ready" /\ art[a].bytes = writer[a].bytes
                        \/ /\ pins[a] = {}
                           /\ \/ writer[a].run = Host /\ now >= writer[a].expires
                              \/ \E r \in Runs : /\ runs[r].state = "gone"
                                               /\ (r = writer[a].run \/ a \in runs[r].declared)
      BY DEF ReturnedIsKept
    <3>1. art[a].state \in {"none", "staging", "ready"}
      BY RowFields DEF IInv, TypeInv
    <3>2. CASE art[a].state = "none"
      BY <3>2 DEF IInv, HoldInv, HeldBy
    <3>3. CASE art[a].state # "none"
      BY <3>1, <3>3 DEF IInv, RowInv
    <3> QED
      BY <3>2, <3>3
  <2>3. ReadIsWhole
    BY DEF IInv, ReaderInv, ReadIsWhole
  <2> QED
    BY <2>1, <2>2, <2>3 DEF ReferencesHold
<1> QED
  BY <1>1, Invariant, PTL

(* A staged row holds what its call has stored and belongs to the runtime   *)
(* that holds the file, even when its cleanup was lost, and all uploads     *)
(* together stay within the budgets, however many are in flight or left     *)
(* behind (artifacts.rs:109, :288, :294, :397, :428).                       *)
THEOREM UploadsAreSound == Spec => []StagingIsSound
<1>1. IInv => StagingIsSound
  BY DEF IInv, RowInv, StagingIsSound, StagingIsOwned
<1> QED
  BY <1>1, Invariant, PTL

-----------------------------------------------------------------------------
(* What a step may do to a row *)

RowStays(a) == art'[a].state = art[a].state /\ art'[a].bytes = art[a].bytes
RowWritten(a) == art[a].state # "ready" /\ art'[a].state # "none" /\ MayWrite(writer[a].run)
UploadRemoved(a) == art[a].state = "staging" /\ art'[a].state = "none"
ContentRemoved(a) ==
    /\ art[a].state = "ready" /\ art'[a].state = "none"
    /\ \A r \in pins[a] : runs'[r].state = "gone"
    /\ art[a].everOwned \/ art[a].expires <= now

RowStep(a) == RowStays(a) \/ RowWritten(a) \/ UploadRemoved(a) \/ ContentRemoved(a)

LEMMA WriterRowStep ==
    ASSUME IInv, NEW a \in Ids, NEW b \in Ids, WriterStep(b)
    PROVE  RowStep(a)
<1>1. NoArtifact.state = "none" /\ TypeInv
  BY DEF NoArtifact, IInv
<1>2. CASE Begin(b)
  <2>1. art[b].state = "none"
    BY <1>1, <1>2, BeginMeans, RowFields DEF IInv, TypeInv, RowInv
  <2>2. CASE UNCHANGED art
    BY <2>2 DEF RowStep, RowStays
  <2>3. CASE /\ MayWrite(writer[b].run) /\ art'[b].state = "staging"
             /\ \A c \in Ids \ {b} : art'[c] = Collected(pins)[c]
    <3>1. CASE a = b
      BY <2>1, <2>3, <3>1 DEF RowStep, RowWritten
    <3>2. CASE a # b
      <4>1. art'[a] = Collected(pins)[a]
        BY <2>3, <3>2
      <4>2. \/ art'[a] = art[a]
            \/ /\ art'[a] = NoArtifact /\ art[a].state = "ready" /\ pins[a] = {}
               /\ art[a].everOwned \/ art[a].expires <= now
        BY <1>1, <4>1, CollectedRow
      <4> QED
        BY <1>1, <4>2 DEF RowStep, RowStays, ContentRemoved
    <3> QED
      BY <3>1, <3>2
  <2> QED
    BY <1>1, <1>2, <2>2, <2>3, BeginMeans
<1>3. CASE Append(b)
  <2>1. \/ UNCHANGED art
        \/ /\ MayWrite(writer[b].run) /\ art[b].state = "staging" /\ art'[b].state = "staging"
           /\ \A c \in Ids \ {b} : art'[c] = art[c]
    BY <1>1, <1>3, AppendMeans
  <2> QED
    BY <2>1 DEF RowStep, RowStays, RowWritten
<1>4. CASE Publish(b)
  <2>1. \/ UNCHANGED art
        \/ /\ MayWrite(writer[b].run) /\ art[b].state = "staging" /\ art'[b].state = "ready"
           /\ \A c \in Ids \ {b} : art'[c] = art[c]
    BY <1>1, <1>4, PublishMeans
  <2> QED
    BY <2>1 DEF RowStep, RowStays, RowWritten
<1>5. CASE Cleanup(b) \/ CleanupLost(b)
  <2>1. \/ UNCHANGED art
        \/ /\ art[b].state = "staging" /\ art'[b] = NoArtifact
           /\ \A c \in Ids \ {b} : art'[c] = art[c]
    BY <1>1, <1>5, CleanupMeans
  <2> QED
    BY <1>1, <2>1 DEF RowStep, RowStays, UploadRemoved
<1>6. CASE SourceEnds(b) \/ Drop(b)
  BY <1>6 DEF SourceEnds, Drop, RowStep, RowStays
<1> QED
  BY <1>2, <1>3, <1>4, <1>5, <1>6 DEF WriterStep

LEMMA StoreRowStep ==
    ASSUME IInv, NEW a \in Ids, StoreStep
    PROVE  RowStep(a)
<1>1. NoArtifact.state = "none" /\ TypeInv /\ art[a] \in Artifact
  BY DEF NoArtifact, IInv, TypeInv
<1>2. ASSUME NEW given, art' = EverOwned(given) PROVE RowStep(a)
  <2>1. art'[a] = [art[a] EXCEPT !.everOwned = TRUE] \/ art'[a] = art[a]
    BY <1>2 DEF EverOwned
  <2>2. RowStays(a)
    BY <1>1, <2>1 DEF Artifact, RowStays
  <2> QED
    BY <2>2 DEF RowStep
<1>3. ASSUME NEW r \in Runs, NEW declared \in SUBSET Ids, Accept(r, declared) PROVE RowStep(a)
  BY <1>2, <1>3 DEF Accept
<1>4. ASSUME NEW r \in Runs, NEW b \in Ids, DeliverSignal(r, b) PROVE RowStep(a)
  BY <1>2, <1>4 DEF DeliverSignal
<1>5. ASSUME NEW gone \in SUBSET Runs, Collect(gone) PROVE RowStep(a)
  <2>1. /\ runs' = [r \in Runs |-> IF r \in gone THEN [runs[r] EXCEPT !.state = "gone"] ELSE runs[r]]
        /\ pins' = [c \in Ids |-> pins[c] \ gone]
        /\ art' = Collected(pins')
    BY <1>5 DEF Collect
  <2>2. PICK held : held = pins'
    OBVIOUS
  <2>3. \/ Collected(held)[a] = art[a]
        \/ /\ Collected(held)[a] = NoArtifact /\ art[a].state = "ready" /\ held[a] = {}
           /\ art[a].everOwned \/ art[a].expires <= now
    BY <1>1, CollectedRow
  <2>4. CASE art'[a] = art[a]
    BY <2>4 DEF RowStep, RowStays
  <2>5. CASE /\ art'[a] = NoArtifact /\ art[a].state = "ready" /\ pins'[a] = {}
             /\ art[a].everOwned \/ art[a].expires <= now
    <3>1. pins[a] \subseteq gone
      BY <2>1, <2>5
    <3>2. ASSUME NEW r \in gone PROVE runs'[r].state = "gone"
      <4>1. runs[r] \in Run /\ runs'[r] = [runs[r] EXCEPT !.state = "gone"]
        BY <1>1, <2>1 DEF TypeInv
      <4> QED
        BY <4>1 DEF Run
    <3> QED
      BY <1>1, <2>5, <3>1, <3>2 DEF RowStep, ContentRemoved
  <2> QED
    BY <2>1, <2>2, <2>3, <2>4, <2>5
<1>6. CASE Claim
  <2>1. art'[a] = IF art[a].state = "staging" THEN NoArtifact ELSE art[a]
    BY <1>6 DEF Claim
  <2> QED
    BY <1>1, <2>1 DEF RowStep, RowStays, UploadRemoved
<1>7. ASSUME UNCHANGED art PROVE RowStep(a)
  BY <1>7 DEF RowStep, RowStays
<1>8. (\E r \in Runs : CancelOrEnd(r)) \/ Release \/ Crash => UNCHANGED art
  BY DEF CancelOrEnd, Release, Crash
<1> QED
  BY <1>3, <1>4, <1>5, <1>6, <1>7, <1>8 DEF StoreStep

LEMMA RowSteps ==
    ASSUME IInv, [Next]_vars, NEW a \in Ids
    PROVE  RowStep(a)
<1>1. ASSUME NEW b \in Ids, WriterStep(b) PROVE RowStep(a)
  BY <1>1, WriterRowStep
<1>2. CASE StoreStep
  BY <1>2, StoreRowStep
<1>3. ASSUME UNCHANGED art PROVE RowStep(a)
  BY <1>3 DEF RowStep, RowStays
<1>4. (\E b \in Ids : Open(b) \/ OpenRead(b)) \/ ReadChunk \/ Tick \/ UNCHANGED vars
      => UNCHANGED art
  BY DEF Open, OpenRead, ReadChunk, Tick, vars
<1> QED
  BY <1>1, <1>2, <1>3, <1>4 DEF Next

(* Published content goes only with the collection of every run that pins   *)
(* it, and then only if it was owned or its grace has passed: a cleanup     *)
(* that runs after the publication leaves it alone (artifacts.rs:297).      *)
THEOREM PublishedContentStays == Spec => PublishedIsKept
<1>1. IInv /\ [Next]_vars =>
        [\A a \in Ids : art[a].state = "ready" /\ ~Exists(a)' =>
            /\ \A r \in pins[a] : runs[r]'.state = "gone"
            /\ art[a].everOwned \/ art[a].expires <= now]_vars
  <2> SUFFICES ASSUME IInv, [Next]_vars, NEW a \in Ids, art[a].state = "ready", ~Exists(a)'
               PROVE  /\ \A r \in pins[a] : runs[r]'.state = "gone"
                      /\ art[a].everOwned \/ art[a].expires <= now
    OBVIOUS
  <2>1. art'[a].state = "none"
    BY DEF Exists
  <2>2. ContentRemoved(a)
    BY <2>1, RowSteps DEF RowStep, RowStays, RowWritten, UploadRemoved
  <2> QED
    BY <2>2 DEF ContentRemoved
<1> QED
  BY <1>1, Invariant, PTL DEF Spec, PublishedIsKept

(* begin, append and publish check again, in their own transaction, that    *)
(* the run they write for is active: nothing grows or is published for a    *)
(* run that was cancelled, ended or collected (artifacts.rs:313).           *)
THEOREM StoppedRunsWriteNothing == Spec => NothingWrittenAfterStop
<1>1. IInv /\ [Next]_vars =>
        [\A a \in Ids : \A r \in Runs :
            /\ writer[a].run = r /\ Exists(a)'
            /\ art[a]'.bytes > art[a].bytes \/ (art[a]'.state # art[a].state)
            => runs[r].state = "active" /\ ~runs[r].cancelled]_vars
  <2> SUFFICES ASSUME IInv, [Next]_vars, NEW a \in Ids, NEW r \in Runs,
                      writer[a].run = r, Exists(a)',
                      art[a]'.bytes > art[a].bytes \/ (art[a]'.state # art[a].state)
               PROVE  runs[r].state = "active" /\ ~runs[r].cancelled
    OBVIOUS
  <2>1. art'[a].state # "none"
    BY DEF Exists
  <2>2. art[a].bytes \in Nat
    BY RowFields DEF IInv, TypeInv
  <2>3. RowWritten(a)
    BY <2>1, <2>2, RowSteps DEF RowStep, RowStays, UploadRemoved, ContentRemoved
  <2> QED
    BY <2>3, ArtifactsAssumption DEF RowWritten, MayWrite
<1> QED
  BY <1>1, Invariant, PTL DEF Spec, NothingWrittenAfterStop
-----------------------------------------------------------------------------
(* The migration.                                                           *)

(* The shapes of what is in a file, and a file that may be found.           *)
Clean(d) == \A k \in d.packages : k.id = k.body
Row(k) == k = [rowid |-> k.rowid, id |-> k.id, body |-> k.body] /\ k.rowid \in Nat \ {0}
RunRow(r) == r = [format |-> r.format, package |-> r.package, state |-> r.state,
                  waits |-> r.waits, wakeup |-> r.wakeup]
Database(d) == d = [app |-> d.app, version |-> d.version, column |-> d.column,
                    packages |-> d.packages, runs |-> d.runs, records |-> d.records,
                    receipts |-> d.receipts]
IsFunction(f) == f = [x \in DOMAIN f |-> f[x]]
Bounded(d) == \E n \in Nat : \A k \in d.packages : k.rowid <= n

Found(d) ==
    /\ Database(d) /\ d.column = FALSE
    /\ d.version \in {0, 1, 2, 4}
    /\ d.app = "forge" => d.version # 0
    /\ IsFunction(d.runs)
    /\ \A r \in DOMAIN d.runs :
          RunRow(d.runs[r]) /\ d.runs[r].wakeup = "none"
    /\ Bounded(d)
    /\ \A k \in d.packages : Row(k) /\ k.body \in Bodies
    /\ \A k, q \in d.packages : k.body = q.body => k = q
    /\ \A k, q \in d.packages : k.rowid = q.rowid => k = q
    /\ Clean(d) \/ \A k \in d.packages : k.id # k.body
    /\ Clean(d) => {k.id : k \in d.packages} = {d.runs[r].package : r \in DOMAIN d.runs}

(* The file is as it was found, or a whole one. *)
FileInv ==
    \/ db = original
    \/ /\ Whole(db) /\ db.app = "forge" /\ DOMAIN db.runs = DOMAIN original.runs
       /\ ~NotAStore(original)

(* One process at a time has the lock. *)
LockInv ==
    /\ lock \in Processes \cup {Nobody}
    /\ \A p \in Processes : pc[p] \in {"idle", "failed"} <=> lock # p
    /\ pc \in [Processes -> {"idle", "failed", "check", "schema", "packages", "runs", "records",
                             "version", "open"}]

FailInv == \A p \in Processes : pc[p] = "failed" => ~Openable(p, original)

(* The transaction of a process that rewrites the file. *)
Rewrites == {"schema", "packages", "runs", "records", "version"}

Started == db = original /\ ~Foreign(original) /\ original.version < Version

(* The package that a run has now. *)
Visited(k) == k.rowid <= pass.at
Now(id) == IF id.format = 2 /\ \E k \in original.packages : k.id = id /\ Visited(k)
           THEN Upgraded(id) ELSE id

PackagesInv ==
    /\ Database(tx) /\ tx.column
    /\ tx.records = original.records /\ tx.receipts = original.receipts
    /\ pass.at \in Nat /\ pass.last \in Nat
    /\ pass = [at |-> pass.at, last |-> pass.last]
    /\ \A k \in original.packages : k.rowid <= pass.last
    /\ original.packages # {} => \E k \in original.packages : k.rowid = pass.last
    /\ \A k \in original.packages : Visited(k) => k.id = k.body /\ k.body.format \in {2, Format}
    /\ \A k \in original.packages : ~Visited(k) => k \in tx.packages
    /\ Bounded(tx)
    /\ \A k \in tx.packages :
          \/ k \in original.packages /\ (Visited(k) => k.body.format = Format)
          \/ /\ Row(k) /\ k.rowid > pass.last /\ k.id = k.body
             /\ \E q \in original.packages :
                   Visited(q) /\ q.body.format = 2 /\ k.body = Upgraded(q.body)
    /\ Clean(original) => \A k, q \in tx.packages : k.id = q.id => k = q
    /\ DOMAIN tx.runs = DOMAIN original.runs /\ IsFunction(tx.runs)
    /\ \A r \in DOMAIN tx.runs :
          tx.runs[r] = [original.runs[r] EXCEPT !.package = Now(@)]
    /\ Clean(original) => {k.id : k \in tx.packages} = {tx.runs[r].package : r \in DOMAIN tx.runs}

RewrittenInv ==
    /\ Database(tx) /\ tx.column
    /\ \A k \in tx.packages : k.id = k.body /\ k.body.format = Format
    /\ \A k, q \in tx.packages : k.id = q.id => k = q
    /\ DOMAIN tx.runs = DOMAIN original.runs /\ IsFunction(tx.runs)
    /\ \A r \in DOMAIN tx.runs :
          /\ RunRow(tx.runs[r]) /\ tx.runs[r].wakeup = "none"
          /\ tx.runs[r].format \in {original.runs[r].format, Format}
          /\ tx.runs[r].waits = original.runs[r].waits
          /\ tx.runs[r].package.content = original.runs[r].package.content
    /\ {k.id : k \in tx.packages} = {tx.runs[r].package : r \in DOMAIN tx.runs}

Transaction(p) ==
    /\ pc[p] \in Rewrites => Started
    /\ pc[p] = "schema" => tx = original
    /\ pc[p] = "packages" => PackagesInv
    /\ pc[p] \in {"runs", "records", "version"} => RewrittenInv
    /\ pc[p] \in {"runs", "records"} =>
          tx.records = original.records /\ tx.receipts = original.receipts
    /\ pc[p] \in {"records", "version"} => \A r \in DOMAIN tx.runs : tx.runs[r].format = Format
    /\ pc[p] = "version" => /\ \A r \in DOMAIN tx.records : tx.records[r] = Format
                            /\ \A r \in DOMAIN tx.receipts : tx.receipts[r] = Format

TransactionInv == \A p \in Processes : Transaction(p)

MigrationInv == Found(original) /\ FileInv /\ LockInv /\ FailInv /\ TransactionInv

-----------------------------------------------------------------------------
(* Extremes of sets of numbers. *)
LEMMA Least ==
    ASSUME NEW S \in SUBSET Nat, S # {}
    PROVE  \E n \in S : \A m \in S : n <= m
<1>1. \E n \in S : \A m \in S : ~(<<m, n>> \in OpToRel(<, Nat))
  <2>1. IsWellFoundedOn(OpToRel(<, Nat), Nat)
    BY NatLessThanWellFounded
  <2> QED
    BY <2>1, WFMin, Zenon
<1>2. \A m, n \in Nat : m < n => <<m, n>> \in OpToRel(<, Nat)
  <2> SUFFICES ASSUME NEW m \in Nat, NEW n \in Nat, m < n
               PROVE  <<m, n>> \in OpToRel(<, Nat)
    OBVIOUS
  <2>1. <<m, n>> \in {s \in Nat \X Nat : s[1] < s[2]}
    OBVIOUS
  <2> QED
    BY <2>1 DEF OpToRel
<1>3. PICK n \in S : \A m \in S : ~(m < n)
  BY <1>1, <1>2, Zenon
<1> QED
  BY <1>3

LEMMA Greatest ==
    ASSUME NEW S \in SUBSET Nat, S # {}, NEW b \in Nat, \A x \in S : x <= b
    PROVE  Max(S) \in S /\ \A x \in S : x <= Max(S)
<1> DEFINE T == {n \in Nat : \A x \in S : x <= n}
<1>1. PICK n \in T : \A m \in T : n <= m
  <2>1. T \in SUBSET Nat /\ T # {}
    OBVIOUS
  <2> HIDE DEF T
  <2> QED
    BY <2>1, Least
<1>2. n \in S
  <2>1. CASE n = 0
    <3>1. PICK x \in S : TRUE
      OBVIOUS
    <3>2. x \in Nat /\ x <= n
      BY <1>1
    <3>3. x = n
      BY <3>2, <2>1
    <3> QED
      BY <3>3
  <2>2. CASE n # 0
    <3>1. n - 1 \in Nat /\ n - 1 \notin T
      BY <1>1, <2>2
    <3>2. PICK x \in S : ~(x <= n - 1)
      BY <3>1
    <3>3. x = n
      BY <1>1, <3>2, <3>1
    <3> QED
      BY <3>3
  <2> QED
    BY <2>1, <2>2
<1>3. \A x \in S : n >= x
  BY <1>1
<1>4. \E m \in S : \A x \in S : m >= x
  BY <1>2, <1>3
<1>5. Max(S) \in S /\ \A x \in S : Max(S) >= x
  BY <1>4 DEF Max
<1> QED
  BY <1>5

-----------------------------------------------------------------------------
(* The files that may be found. *)
LEMMA EmptyFound == Found(Empty)
<1>1. DOMAIN Empty.runs = {} /\ Empty.packages = {}
  BY DEF Empty
<1>2. Database(Empty)
  BY DEF Database, Empty
<1>3. IsFunction(Empty.runs)
  BY DEF IsFunction, Empty
<1>4. Bounded(Empty)
  BY <1>1 DEF Bounded
<1>5. Empty.column = FALSE /\ Empty.version = 0 /\ Empty.app = "none"
  BY DEF Empty
<1> QED
  BY <1>1, <1>2, <1>3, <1>4, <1>5 DEF Found, Clean

LEMMA OlderFound ==
    ASSUME NEW d \in Older, {d.runs[r].package : r \in StoredRuns} = {p.id : p \in d.packages}
    PROVE  Found(d) /\ Clean(d) /\ d.runs \in [StoredRuns -> [format : {2}, package : Bodies,
              state : {"waiting", "succeeded"}, waits : {FALSE}, wakeup : {"none"}]]
<1>1. /\ d.app = "forge" /\ d.version \in {1, 2} /\ d.column = FALSE
      /\ d.runs \in [StoredRuns -> [format : {2}, package : Bodies, state : {"waiting", "succeeded"},
                              waits : {FALSE}, wakeup : {"none"}]]
      /\ Database(d)
  BY DEF Older, Database
<1> DEFINE Numbered(n, f) == {[rowid |-> i, id |-> f[i], body |-> f[i]] : i \in DOMAIN f}
<1>a. PICK n \in 1..Cardinality(Bodies) : \E f \in [1..n -> Bodies] :
          /\ \A i, j \in 1..n : f[i] = f[j] => i = j
          /\ d.packages = Numbered(n, f)
  BY DEF Older
<1>2. PICK f \in [1..n -> Bodies] :
          /\ \A i, j \in 1..n : f[i] = f[j] => i = j
          /\ d.packages = Numbered(n, f)
  BY <1>a
<1>3. n \in Nat
  BY <1>a, FS_CardinalityType, MigrationAssumption
<1>4. ASSUME NEW k \in d.packages
      PROVE  \E i \in 1..n : k = [rowid |-> i, id |-> f[i], body |-> f[i]]
  BY <1>2
<1>5. \A k \in d.packages : Row(k) /\ k.body \in Bodies /\ k.id = k.body /\ k.rowid <= n
  BY <1>3, <1>4 DEF Row
<1>6. \A k, q \in d.packages : (k.body = q.body \/ k.rowid = q.rowid) => k = q
  BY <1>2, <1>4
<1>7. Bounded(d) /\ Clean(d)
  BY <1>3, <1>5 DEF Bounded, Clean
<1>8. IsFunction(d.runs) /\ DOMAIN d.runs = StoredRuns
      /\ \A r \in StoredRuns : RunRow(d.runs[r]) /\ d.runs[r].wakeup = "none"
  BY <1>1 DEF IsFunction, RunRow
<1>9. {k.id : k \in d.packages} = {d.runs[r].package : r \in DOMAIN d.runs}
  BY <1>8
<1>10. d.version \in {0, 1, 2, 4} /\ (d.app = "forge" => d.version # 0)
  BY <1>1
<1>11. Found(d)
  BY <1>1, <1>5, <1>6, <1>7, <1>8, <1>9, <1>10, Zenon DEF Found
<1> QED
  BY <1>1, <1>7, <1>11

LEMMA DamagedFound ==
    ASSUME NEW d \in Older, {d.runs[r].package : r \in StoredRuns} = {p.id : p \in d.packages},
           NEW e \in Damaged(d)
    PROVE  Found(e)
<1>1. /\ Found(d) /\ Clean(d)
      /\ d.runs \in [StoredRuns -> [format : {2}, package : Bodies, state : {"waiting", "succeeded"},
                              waits : {FALSE}, wakeup : {"none"}]]
  BY OlderFound
<1>2. d = [app |-> d.app, version |-> d.version, column |-> d.column, packages |-> d.packages,
           runs |-> d.runs, records |-> d.records, receipts |-> d.receipts]
  BY <1>1, Zenon DEF Found, Database
<1>3. CASE e \in {[d EXCEPT !.version = 4], [d EXCEPT !.app = "other"], [d EXCEPT !.app = "none"]}
  <2>1. /\ Database(e) /\ e.column = d.column /\ e.packages = d.packages /\ e.runs = d.runs
        /\ e.version \in {d.version, 4} /\ (e.app = "forge" => d.app = "forge")
    BY <1>2, <1>3 DEF Database
  <2> QED
    BY <2>1, <1>1 DEF Found, Clean, Bounded
<1>4. ASSUME NEW r \in StoredRuns, e = [d EXCEPT !.runs[r].waits = TRUE]
      PROVE  Found(e)
  <2>1. /\ Database(e) /\ e.column = d.column /\ e.packages = d.packages
        /\ e.version = d.version /\ e.app = d.app
        /\ e.runs = [d.runs EXCEPT ![r] = [d.runs[r] EXCEPT !.waits = TRUE]]
    BY <1>2, <1>4 DEF Database
  <2>2. DOMAIN e.runs = DOMAIN d.runs /\ IsFunction(e.runs)
    BY <2>1, <1>1 DEF IsFunction
  <2>3. ASSUME NEW q \in DOMAIN d.runs
        PROVE  RunRow(e.runs[q]) /\ e.runs[q].wakeup = "none" /\ e.runs[q].package = d.runs[q].package
    <3>1. q \in StoredRuns /\ RunRow(d.runs[q]) /\ d.runs[q].wakeup = "none"
      BY <1>1 DEF Found
    <3>2. CASE q = r
      <4>1. e.runs[q] = [d.runs[q] EXCEPT !.waits = TRUE]
        BY <2>1, <3>1, <3>2, <1>1
      <4>2. e.runs[q] = [format |-> d.runs[q].format, package |-> d.runs[q].package,
                         state |-> d.runs[q].state, waits |-> TRUE, wakeup |-> d.runs[q].wakeup]
        BY <4>1, <3>1 DEF RunRow
      <4> QED
        BY <4>2, <3>1 DEF RunRow
    <3>3. CASE q # r
      BY <2>1, <3>1, <3>3, <1>1
    <3> QED
      BY <3>2, <3>3
  <2>4. {e.runs[q].package : q \in DOMAIN e.runs} = {d.runs[q].package : q \in DOMAIN d.runs}
    BY <2>2, <2>3
  <2> QED
    BY <2>1, <2>2, <2>3, <2>4, <1>1 DEF Found, Clean, Bounded
<1>5. ASSUME NEW r \in Records, e = [d EXCEPT !.records[r] = 1]
      PROVE  Found(e)
  <2>1. /\ Database(e) /\ e.column = d.column /\ e.packages = d.packages /\ e.runs = d.runs
        /\ e.version = d.version /\ e.app = d.app
    BY <1>2, <1>5 DEF Database
  <2>2. Clean(e) /\ Bounded(e)
    BY <2>1, <1>1 DEF Found, Clean, Bounded
  <2>3. Found(d)
    BY <1>1
  <2> HIDE DEF Clean, Bounded, Database
  <2>4. e.version \in {0, 1, 2, 4} /\ (e.app = "forge" => e.version # 0)
    BY <2>1, <2>3 DEF Found
  <2>5. /\ IsFunction(e.runs)
        /\ \A q \in DOMAIN e.runs : RunRow(e.runs[q]) /\ e.runs[q].wakeup = "none"
        /\ {k.id : k \in e.packages} = {e.runs[q].package : q \in DOMAIN e.runs}
    <3> DEFINE P(table, packages) ==
                 /\ IsFunction(table)
                 /\ \A q \in DOMAIN table : RunRow(table[q]) /\ table[q].wakeup = "none"
                 /\ {k.id : k \in packages} = {table[q].package : q \in DOMAIN table}
    <3>1. P(d.runs, d.packages)
      BY <2>3, <1>1, Zenon DEF Found
    <3>2. e.runs = d.runs /\ e.packages = d.packages
      BY <2>1
    <3> HIDE DEF P
    <3>3. P(e.runs, e.packages)
      BY <3>1, <3>2
    <3> QED
      BY <3>3, Zenon DEF P
  <2>6. /\ \A k \in e.packages : Row(k) /\ k.body \in Bodies
        /\ \A k, q \in e.packages : k.body = q.body => k = q
        /\ \A k, q \in e.packages : k.rowid = q.rowid => k = q
    BY <2>1, <2>3 DEF Found
  <2>7. e.column = FALSE
    BY <2>1, <2>3 DEF Found
  <2> QED
    BY <2>1, <2>2, <2>4, <2>5, <2>6, <2>7, Zenon DEF Found
<1> DEFINE Changed(p) == [p EXCEPT !.id = [@ EXCEPT !.content = "changed"]]
<1>6. ASSUME e = [d EXCEPT !.packages = {Changed(p) : p \in d.packages}]
      PROVE  Found(e)
  <2>1. /\ Database(e) /\ e.column = d.column /\ e.runs = d.runs
        /\ e.version = d.version /\ e.app = d.app
        /\ e.packages = {Changed(p) : p \in d.packages}
    BY <1>2, <1>6 DEF Database
  <2>2. ASSUME NEW p \in d.packages
        PROVE  /\ Row(Changed(p)) /\ Changed(p).body = p.body /\ Changed(p).rowid = p.rowid
               /\ Changed(p).id # p.body
    <3>1. Row(p) /\ p.id = p.body /\ p.body \in Bodies
      BY <1>1 DEF Found, Clean
    <3>2. p.body = [format |-> p.body.format, content |-> p.body.content,
                    spelling |-> p.body.spelling] /\ p.body.content # "changed"
      BY <3>1, MigrationAssumption
    <3> DEFINE B == [p.id EXCEPT !.content = "changed"]
    <3>3. B.content = "changed"
      BY <3>1, <3>2
    <3>4. B # p.body
      BY <3>2, <3>3
    <3>5. Changed(p) = [rowid |-> p.rowid, id |-> B, body |-> p.body]
      BY <3>1 DEF Row
    <3> HIDE DEF Changed, B
    <3> QED
      BY <3>1, <3>4, <3>5 DEF Row
  <2> HIDE DEF Changed
  <2>3. \A k \in e.packages : \E p \in d.packages : k = Changed(p)
    BY <2>1
  <2>4. \A k \in e.packages : Row(k) /\ k.body \in Bodies /\ k.id # k.body
    BY <2>2, <2>3, <1>1 DEF Found
  <2>5. \A k, q \in e.packages : (k.body = q.body \/ k.rowid = q.rowid) => k = q
    BY <2>2, <2>3, <1>1 DEF Found
  <2>6. Bounded(e)
    BY <2>2, <2>3, <1>1 DEF Found, Bounded
  <2>7. Clean(e) => {k.id : k \in e.packages} = {e.runs[r].package : r \in DOMAIN e.runs}
    <3> SUFFICES ASSUME Clean(e)
                 PROVE  {k.id : k \in e.packages} = {e.runs[r].package : r \in DOMAIN e.runs}
      OBVIOUS
    <3>1. e.packages = {}
      BY <2>4 DEF Clean
    <3>2. d.packages = {}
      BY <3>1, <2>1
    <3>3. {d.runs[r].package : r \in DOMAIN d.runs} = {}
      <4>1. {k.id : k \in d.packages} = {d.runs[r].package : r \in DOMAIN d.runs}
        BY <1>1, Zenon DEF Found
      <4> QED
        BY <4>1, <3>2
    <3>4. \A r : r \notin DOMAIN d.runs
      BY <3>3
    <3>5. DOMAIN e.runs = {}
      BY <3>4, <2>1
    <3> QED
      BY <3>1, <3>5
  <2> QED
    BY <2>1, <2>4, <2>5, <2>6, <2>7, <1>1, Zenon DEF Found
<1> QED
  BY <1>3, <1>4, <1>5, <1>6, Zenon DEF Damaged

LEMMA MigrationInitInv == MigrationInit => MigrationInv
<1> SUFFICES ASSUME MigrationInit PROVE MigrationInv
  OBVIOUS
<1>1. Found(original)
  BY DamagedFound, OlderFound, EmptyFound DEF MigrationInit
<1>2. FileInv
  BY DEF MigrationInit, FileInv
<1>3. LockInv
  BY MigrationAssumption DEF MigrationInit, LockInv, Nobody
<1>4. FailInv /\ TransactionInv
  BY DEF MigrationInit, FailInv, TransactionInv, Transaction, Rewrites
<1> QED
  BY <1>1, <1>2, <1>3, <1>4 DEF MigrationInv

-----------------------------------------------------------------------------
(* The steps. *)
LEMMA FileKept ==
    ASSUME FileInv, db' = db, original' = original
    PROVE  FileInv'
BY DEF FileInv, Whole, NotAStore

LEMMA ForeignFound ==
    ASSUME Found(original)
    PROVE  Foreign(original) <=> NotAStore(original)
<1>1. Empty.app = "none" /\ Empty.version = 0
  BY DEF Empty
<1>2. original.version \in {0, 1, 2, 4} /\ (original.app = "forge" => original.version # 0)
  BY DEF Found
<1> QED
  BY <1>1, <1>2 DEF Foreign, NotAStore, Version

(* The other processes do nothing while one has the lock. *)
LEMMA Alone ==
    ASSUME LockInv, NEW p \in Processes, lock = p, NEW s, pc' = [pc EXCEPT ![p] = s]
    PROVE  /\ pc'[p] = s
           /\ \A q \in Processes \ {p} : pc'[q] = pc[q] /\ pc[q] \in {"idle", "failed"}
<1>1. DOMAIN pc = Processes
  BY DEF LockInv
<1> QED
  BY <1>1 DEF LockInv

(* A process that keeps the lock. *)
LEMMA WorkingInv ==
    ASSUME MigrationInv, NEW p \in Processes, lock = p, lock' = lock, original' = original,
           NEW s \in {"check", "schema", "packages", "runs", "records", "version", "open"},
           pc' = [pc EXCEPT ![p] = s], FileInv', Transaction(p)'
    PROVE  MigrationInv'
<1>1. /\ pc'[p] = s
      /\ \A q \in Processes \ {p} : pc'[q] = pc[q] /\ pc[q] \in {"idle", "failed"}
  BY Alone DEF MigrationInv
<1>2. LockInv'
  <2>1. pc \in [Processes -> {"idle", "failed", "check", "schema", "packages", "runs", "records",
                             "version", "open"}]
    BY DEF MigrationInv, LockInv
  <2>2. pc' \in [Processes -> {"idle", "failed", "check", "schema", "packages", "runs", "records",
                             "version", "open"}]
    BY <2>1
  <2> QED
    BY <1>1, <2>2 DEF MigrationInv, LockInv
<1>3. FailInv'
  <2> SUFFICES ASSUME NEW q \in Processes, pc'[q] = "failed" PROVE ~Openable(q, original')
    BY DEF FailInv, Openable, NotAStore
  <2> QED
    BY <1>1 DEF MigrationInv, FailInv
<1>4. TransactionInv'
  <2> SUFFICES ASSUME NEW q \in Processes PROVE Transaction(q)'
    BY Zenon DEF TransactionInv
  <2>1. CASE q = p
    BY <2>1
  <2>2. CASE q # p
    BY <1>1, <2>2 DEF Transaction, Rewrites
  <2> QED
    BY <2>1, <2>2
<1>5. Found(original)'
  BY DEF MigrationInv
<1> QED
  BY <1>2, <1>3, <1>4, <1>5 DEF MigrationInv

(* A process that leaves the lock. *)
LEMMA LeavingInv ==
    ASSUME MigrationInv, NEW p \in Processes, lock = p, lock' = Nobody, original' = original, db' = db,
           NEW s \in {"idle", "failed"}, s = "failed" => ~Openable(p, original),
           pc' = [pc EXCEPT ![p] = s]
    PROVE  MigrationInv'
<1>1. /\ pc'[p] = s
      /\ \A q \in Processes \ {p} : pc'[q] = pc[q] /\ pc[q] \in {"idle", "failed"}
  BY Alone DEF MigrationInv
<1>2. LockInv'
  <2>1. pc \in [Processes -> {"idle", "failed", "check", "schema", "packages", "runs", "records",
                             "version", "open"}]
    BY DEF MigrationInv, LockInv
  <2>2. pc' \in [Processes -> {"idle", "failed", "check", "schema", "packages", "runs", "records",
                             "version", "open"}]
    BY <2>1
  <2>3. Nobody \notin Processes
    BY MigrationAssumption DEF Nobody
  <2> QED
    BY <1>1, <2>2, <2>3 DEF MigrationInv, LockInv
<1>3. FailInv'
  <2> SUFFICES ASSUME NEW q \in Processes, pc'[q] = "failed" PROVE ~Openable(q, original')
    BY DEF FailInv, Openable, NotAStore
  <2> QED
    BY <1>1 DEF MigrationInv, FailInv
<1>4. TransactionInv'
  BY <1>1 DEF TransactionInv, Transaction, Rewrites
<1>5. Found(original)' /\ FileInv'
  BY DEF MigrationInv, FileInv, Whole
<1> QED
  BY <1>2, <1>3, <1>4, <1>5 DEF MigrationInv

LEMMA AbandonInv ==
    ASSUME MigrationInv, NEW p \in Processes, lock = p, Abandon(p), ~Openable(p, original)
    PROVE  MigrationInv'
<1>1. /\ lock' = Nobody /\ original' = original /\ db' = db
      /\ pc' = [pc EXCEPT ![p] = "failed"]
  BY DEF Abandon, To
<1> QED
  BY <1>1, LeavingInv, Zenon

LEMMA CloseInv ==
    ASSUME MigrationInv, NEW p \in Processes, Close(p) \/ Die(p)
    PROVE  MigrationInv'
<1>1. /\ lock = p /\ lock' = Nobody /\ original' = original /\ db' = db
      /\ pc' = [pc EXCEPT ![p] = "idle"]
  BY DEF Close, Die, To
<1>2. "idle" # "failed"
  OBVIOUS
<1> QED
  BY <1>1, <1>2, LeavingInv, Zenon

LEMMA AcquireInv ==
    ASSUME MigrationInv, NEW p \in Processes, Acquire(p)
    PROVE  MigrationInv'
<1>1. /\ lock = Nobody /\ lock' = p /\ original' = original /\ db' = db
      /\ pc' = [pc EXCEPT ![p] = "check"]
  BY DEF Acquire, To
<1>2. pc \in [Processes -> {"idle", "failed", "check", "schema", "packages", "runs", "records",
                             "version", "open"}]
  BY DEF MigrationInv, LockInv
<1>3. \A q \in Processes : pc[q] \in {"idle", "failed"}
  BY <1>1, MigrationAssumption DEF MigrationInv, LockInv, Nobody
<1>4. pc'[p] = "check" /\ \A q \in Processes \ {p} : pc'[q] = pc[q]
  BY <1>1, <1>2
<1>5. pc' \in [Processes -> {"idle", "failed", "check", "schema", "packages", "runs", "records",
                             "version", "open"}]
  BY <1>1, <1>2
<1>6. LockInv'
  BY <1>1, <1>3, <1>4, <1>5 DEF LockInv
<1>7. FailInv'
  <2> SUFFICES ASSUME NEW q \in Processes, pc'[q] = "failed" PROVE ~Openable(q, original')
    BY DEF FailInv, Openable, NotAStore
  <2> QED
    BY <1>1, <1>4 DEF MigrationInv, FailInv
<1>8. TransactionInv'
  BY <1>3, <1>4 DEF TransactionInv, Transaction, Rewrites
<1>9. Found(original)' /\ FileInv'
  BY <1>1 DEF MigrationInv, FileInv, Whole
<1> QED
  BY <1>6, <1>7, <1>8, <1>9 DEF MigrationInv

LEMMA CheckHeaderInv ==
    ASSUME MigrationInv, NEW p \in Processes, CheckHeader(p)
    PROVE  MigrationInv'
<1>1. pc[p] = "check" /\ lock = p
  BY DEF CheckHeader
<1>2. db = original \/ (db.version = Version /\ db.app = "forge")
  BY DEF MigrationInv, FileInv, Whole
<1>3. Foreign(db) => db = original
  BY <1>2 DEF Foreign, Version
<1>4. Found(original)
  BY DEF MigrationInv
<1>5. CASE (Foreign(db) \/ ~Fits(p, File)) /\ Abandon(p)
  <2>1. ~Openable(p, original)
    BY <1>3, <1>4, <1>5, ForeignFound DEF Openable
  <2> QED
    BY <1>1, <1>5, <2>1, AbandonInv
<1>6. CASE /\ ~Foreign(db) /\ Working(p) /\ UNCHANGED pass
           /\ IF db.version = Version THEN To(p, "open") /\ UNCHANGED tx
                                      ELSE To(p, "schema") /\ tx' = db
  <2>1. lock' = lock /\ original' = original /\ db' = db
    BY <1>6 DEF Working
  <2>2. FileInv'
    BY <2>1, FileKept DEF MigrationInv
  <2>3. \A s : pc' = [pc EXCEPT ![p] = s] => pc'[p] = s
    BY <1>1, Alone DEF MigrationInv
  <2>4. CASE db.version = Version
    <3>1. pc' = [pc EXCEPT ![p] = "open"]
      BY <1>6, <2>4 DEF To
    <3>2. Transaction(p)'
      BY <3>1, <2>3 DEF Transaction, Rewrites
    <3> QED
      BY <1>1, <2>1, <2>2, <3>1, <3>2, WorkingInv
  <2>5. CASE db.version # Version
    <3>1. pc' = [pc EXCEPT ![p] = "schema"] /\ tx' = db
      BY <1>6, <2>5 DEF To
    <3>2. db = original
      BY <1>2, <2>5
    <3>3. original.version < Version
      BY <3>2, <1>6, <2>5, <1>4 DEF Found, Foreign, Version
    <3>4. Started'
      BY <3>2, <3>3, <2>1, <1>6 DEF Started, Foreign
    <3>5. Transaction(p)'
      BY <3>1, <3>2, <3>4, <2>1, <2>3 DEF Transaction, Rewrites
    <3> QED
      BY <1>1, <2>1, <2>2, <3>1, <3>5, WorkingInv
  <2> QED
    BY <2>4, <2>5
<1> QED
  BY <1>5, <1>6 DEF CheckHeader

(* What an instance of the step of the lock's holder needs. *)
LEMMA Holder ==
    ASSUME MigrationInv, NEW p \in Processes, pc[p] \in Rewrites
    PROVE  /\ Found(original) /\ FileInv /\ LockInv /\ Transaction(p)
           /\ db = original /\ ~NotAStore(original) /\ original.version < Version
<1>1. Found(original) /\ FileInv /\ LockInv /\ Transaction(p)
  BY DEF MigrationInv, TransactionInv
<1>2. Started
  BY <1>1 DEF Transaction
<1> QED
  BY <1>1, <1>2, ForeignFound DEF Started

(* A step of the transaction. *)
LEMMA RewriteInv ==
    ASSUME MigrationInv, NEW p \in Processes, pc[p] \in Rewrites, lock = p, Working(p),
           NEW s \in Rewrites, pc' = [pc EXCEPT ![p] = s], s # "schema",
           s = "packages" => PackagesInv',
           s \in {"runs", "records", "version"} => RewrittenInv',
           s \in {"runs", "records"} =>
              tx'.records = original.records /\ tx'.receipts = original.receipts,
           s \in {"records", "version"} => \A r \in DOMAIN tx'.runs : tx'.runs[r].format = Format,
           s = "version" => /\ \A r \in DOMAIN tx'.records : tx'.records[r] = Format
                            /\ \A r \in DOMAIN tx'.receipts : tx'.receipts[r] = Format
    PROVE  MigrationInv'
<1>1. lock' = lock /\ original' = original /\ db' = db
  BY DEF Working
<1>2. FileInv'
  BY <1>1, FileKept DEF MigrationInv
<1>3. pc'[p] = s
  BY Alone DEF MigrationInv
<1>4. Started'
  <2>1. Started
    BY DEF MigrationInv, TransactionInv, Transaction
  <2> QED
    BY <2>1, <1>1 DEF Started, Foreign
<1>5. Transaction(p)'
  BY <1>1, <1>3, <1>4 DEF Transaction
<1>6. s \in {"check", "schema", "packages", "runs", "records", "version", "open"}
  BY DEF Rewrites
<1> QED
  BY <1>1, <1>2, <1>5, <1>6, WorkingInv

LEMMA SchemaInv ==
    ASSUME MigrationInv, NEW p \in Processes, Schema(p)
    PROVE  MigrationInv'
<1>1. pc[p] = "schema" /\ lock = p
  BY DEF Schema
<1>2. pc[p] \in Rewrites
  BY <1>1 DEF Rewrites
<1>3. Found(original) /\ tx = original
  BY <1>1, <1>2, Holder DEF Transaction
<1>4. tx.column = FALSE
  BY <1>3 DEF Found
<1> DEFINE Rows0 == {0} \cup {k.rowid : k \in tx.packages}
<1>5. /\ Working(p) /\ pc' = [pc EXCEPT ![p] = "packages"]
      /\ tx' = [tx EXCEPT !.column = TRUE]
      /\ pass' = [at |-> 0, last |-> Max(Rows0)]
  BY <1>4 DEF Schema, To
<1>6. /\ tx'.packages = original.packages /\ tx'.runs = original.runs
      /\ tx'.records = original.records /\ tx'.receipts = original.receipts
      /\ tx'.column /\ Database(tx)'
  <2>1. Database(tx)
    BY <1>3 DEF Found
  <2> QED
    BY <2>1, <1>3, <1>5 DEF Database
<1>7. original' = original
  BY <1>5 DEF Working
<1>8. \A k \in original.packages : Row(k)
  BY <1>3 DEF Found
<1>9. Max(Rows0) \in Rows0 /\ \A x \in Rows0 : x <= Max(Rows0)
  <2>1. PICK b \in Nat : \A k \in original.packages : k.rowid <= b
    BY <1>3 DEF Found, Bounded
  <2>2. Rows0 \in SUBSET Nat /\ Rows0 # {} /\ \A x \in Rows0 : x <= b
    BY <2>1, <1>3, <1>8 DEF Row
  <2> HIDE DEF Rows0
  <2> QED
    BY <2>2, <2>1, Greatest
<1>10. /\ Max(Rows0) \in Nat
       /\ \A k \in original.packages : k.rowid <= Max(Rows0)
       /\ original.packages # {} => \E k \in original.packages : k.rowid = Max(Rows0)
  <2>1. Rows0 \in SUBSET Nat
    BY <1>3, <1>8 DEF Row
  <2>2. \A k \in original.packages : k.rowid \in Rows0 /\ k.rowid \in Nat \ {0}
    BY <1>3, <1>8 DEF Row
  <2>3. \A x \in Rows0 : x = 0 \/ \E k \in original.packages : k.rowid = x
    BY <1>3
  <2> DEFINE m == Max(Rows0)
  <2> HIDE DEF Rows0, m
  <2>4. m \in Rows0 /\ m \in Nat /\ \A x \in Rows0 : x <= m
    BY <1>9, <2>1 DEF m
  <2>5. original.packages # {} => m # 0
    BY <2>2, <2>4
  <2>6. /\ m \in Nat
        /\ \A k \in original.packages : k.rowid <= m
        /\ original.packages # {} => \E k \in original.packages : k.rowid = m
    BY <2>2, <2>3, <2>4, <2>5
  <2> QED
    BY <2>6 DEF m
<1> HIDE DEF Rows0
<1>11. pass'.at = 0 /\ pass'.last = Max(Rows0)
  BY <1>5
<1>12. \A k \in original.packages : ~Visited(k)'
  BY <1>8, <1>11 DEF Row, Visited
<1>13. \A r \in DOMAIN tx'.runs : tx'.runs[r] = [original.runs[r] EXCEPT !.package = Now(@)']
  <2> SUFFICES ASSUME NEW r \in DOMAIN original.runs
               PROVE  original.runs[r] = [original.runs[r] EXCEPT !.package = Now(@)']
    BY <1>6
  <2> DEFINE P == original.runs[r].package
  <2>1. Now(P)' = P
    BY <1>7, <1>12 DEF Now
  <2>2. RunRow(original.runs[r])
    BY <1>3 DEF Found
  <2> QED
    BY <2>1, <2>2 DEF RunRow
<1>14. PackagesInv'
  <2>1. /\ Clean(original) => \A k, q \in original.packages : k.id = q.id => k = q
        /\ Clean(original) => {k.id : k \in original.packages}
                                 = {original.runs[r].package : r \in DOMAIN original.runs}
        /\ IsFunction(original.runs) /\ Bounded(original)
    BY <1>3 DEF Found, Clean
  <2>2. Bounded(tx)' /\ IsFunction(tx.runs)' /\ (Clean(original)' <=> Clean(original))
    BY <2>1, <1>6, <1>7 DEF Bounded, IsFunction, Clean
  <2>3. Clean(original)' => {k.id : k \in tx'.packages} = {tx'.runs[r].package : r \in DOMAIN tx'.runs}
    BY <2>1, <2>2, <1>6
  <2> QED
    BY <2>1, <2>2, <2>3, <1>5, <1>6, <1>7, <1>10, <1>11, <1>12, <1>13 DEF PackagesInv
<1> QED
  <2>1. "packages" \in Rewrites /\ "packages" # "schema"
        /\ "packages" \notin {"runs", "records", "version"}
    BY DEF Rewrites
  <2> QED
    BY <1>1, <1>2, <1>5, <1>14, <2>1, RewriteInv

LEMMA RewrittenKept ==
    ASSUME RewrittenInv, Database(tx)', tx'.packages = tx.packages, tx'.runs = tx.runs,
           tx'.column = tx.column, original' = original
    PROVE  RewrittenInv'
<1>1. {k.id : k \in tx'.packages} = {tx'.runs[q].package : q \in DOMAIN tx'.runs}
  <2> DEFINE P(packages, table) ==
               {k.id : k \in packages} = {table[q].package : q \in DOMAIN table}
  <2>1. P(tx.packages, tx.runs)
    BY Zenon DEF RewrittenInv
  <2> HIDE DEF P
  <2>2. P(tx'.packages, tx'.runs)
    BY <2>1
  <2> QED
    BY <2>2, Zenon DEF P
<1>2. IsFunction(tx.runs)'
  BY DEF RewrittenInv, IsFunction
<1>3. \A r \in DOMAIN tx'.runs :
          /\ RunRow(tx'.runs[r]) /\ tx'.runs[r].wakeup = "none"
          /\ tx'.runs[r].format \in {original'.runs[r].format, Format}
          /\ tx'.runs[r].waits = original'.runs[r].waits
          /\ tx'.runs[r].package.content = original'.runs[r].package.content
  BY DEF RewrittenInv
<1>4. /\ \A k \in tx'.packages : k.id = k.body /\ k.body.format = Format
      /\ \A k, q \in tx'.packages : k.id = q.id => k = q
      /\ DOMAIN tx'.runs = DOMAIN original'.runs /\ tx'.column
  BY DEF RewrittenInv
<1> QED
  BY <1>1, <1>2, <1>3, <1>4 DEF RewrittenInv

LEMMA FrozenRunInv ==
    ASSUME MigrationInv, NEW p \in Processes, FrozenRun(p)
    PROVE  MigrationInv'
<1>1. pc[p] = "runs" /\ lock = p
  BY DEF FrozenRun
<1>2. pc[p] \in Rewrites
  BY <1>1 DEF Rewrites
<1>3. /\ Found(original) /\ RewrittenInv /\ ~NotAStore(original) /\ original.version < Version
      /\ tx.records = original.records /\ tx.receipts = original.receipts
  BY <1>1, <1>2, Holder DEF Transaction
<1>4. ASSUME NEW r \in DOMAIN tx.runs, tx.runs[r].format # Format,
             tx.runs[r].format # 2 \/ tx.runs[r].waits \/ ~Fits(p, r), Abandon(p)
      PROVE  MigrationInv'
  <2>1. /\ r \in DOMAIN original.runs /\ tx.runs[r].format = original.runs[r].format
        /\ tx.runs[r].waits = original.runs[r].waits
    BY <1>3, <1>4 DEF RewrittenInv
  <2>2. ~Openable(p, original)
    BY <2>1, <1>3, <1>4 DEF Openable
  <2> QED
    BY <1>1, <1>4, <2>2, AbandonInv
<1>5. ASSUME NEW r \in DOMAIN tx.runs, tx.runs[r].format # Format, tx.runs[r].format = 2,
             Working(p), tx' = [tx EXCEPT !.runs[r].format = Format], UNCHANGED <<pc, pass>>
      PROVE  MigrationInv'
  <2>1. pc' = [pc EXCEPT ![p] = "runs"]
    <3>1. DOMAIN pc = Processes /\ pc = [x \in DOMAIN pc |-> pc[x]]
      BY DEF MigrationInv, LockInv
    <3> QED
      BY <3>1, <1>1, <1>5
  <2>2. /\ tx'.packages = tx.packages /\ tx'.records = tx.records /\ tx'.receipts = tx.receipts
        /\ tx'.column = tx.column /\ Database(tx)'
        /\ tx'.runs = [tx.runs EXCEPT ![r] = [tx.runs[r] EXCEPT !.format = Format]]
    <3>1. Database(tx)
      BY <1>3 DEF RewrittenInv
    <3> QED
      BY <3>1, <1>5 DEF Database
  <2>3. DOMAIN tx'.runs = DOMAIN tx.runs /\ IsFunction(tx.runs)'
    BY <2>2 DEF IsFunction
  <2>4. original' = original
    BY <1>5 DEF Working
  <2>5. ASSUME NEW q \in DOMAIN tx.runs
        PROVE  /\ RunRow(tx'.runs[q]) /\ tx'.runs[q].wakeup = tx.runs[q].wakeup
               /\ tx'.runs[q].format \in {tx.runs[q].format, Format}
               /\ tx'.runs[q].waits = tx.runs[q].waits
               /\ tx'.runs[q].package = tx.runs[q].package
    <3>1. RunRow(tx.runs[q])
      BY <1>3 DEF RewrittenInv
    <3>2. CASE q = r
      <4>1. tx'.runs[q] = [tx.runs[q] EXCEPT !.format = Format]
        BY <2>2, <3>2
      <4>2. tx'.runs[q] = [format |-> Format, package |-> tx.runs[q].package,
                           state |-> tx.runs[q].state, waits |-> tx.runs[q].waits,
                           wakeup |-> tx.runs[q].wakeup]
        BY <4>1, <3>1 DEF RunRow
      <4> QED
        BY <4>2, <3>1 DEF RunRow
    <3>3. CASE q # r
      BY <2>2, <3>1, <3>3
    <3> QED
      BY <3>2, <3>3
  <2>6. {tx'.runs[q].package : q \in DOMAIN tx'.runs} = {tx.runs[q].package : q \in DOMAIN tx.runs}
    BY <2>3, <2>5
  <2>7. RewrittenInv'
    <3>1. \A q \in DOMAIN tx'.runs :
             /\ RunRow(tx'.runs[q]) /\ tx'.runs[q].wakeup = "none"
             /\ tx'.runs[q].format \in {original.runs[q].format, Format}
             /\ tx'.runs[q].waits = original.runs[q].waits
             /\ tx'.runs[q].package.content = original.runs[q].package.content
      BY <1>3, <2>3, <2>5 DEF RewrittenInv
    <3>2. {k.id : k \in tx'.packages} = {tx'.runs[q].package : q \in DOMAIN tx'.runs}
      <4>1. {k.id : k \in tx.packages} = {tx.runs[q].package : q \in DOMAIN tx.runs}
        BY <1>3, Zenon DEF RewrittenInv
      <4>2. {k.id : k \in tx'.packages} = {k.id : k \in tx.packages}
        BY <2>2
      <4> QED
        BY <4>1, <4>2, <2>6, Zenon
    <3>3. /\ tx'.column
          /\ \A k \in tx'.packages : k.id = k.body /\ k.body.format = Format
          /\ \A k, q \in tx'.packages : k.id = q.id => k = q
          /\ DOMAIN tx'.runs = DOMAIN original'.runs
      BY <1>3, <2>2, <2>3, <2>4 DEF RewrittenInv
    <3> QED
      BY <3>1, <3>2, <3>3, <2>2, <2>3, <2>4 DEF RewrittenInv
  <2>8. "runs" \in Rewrites /\ "runs" \notin {"schema", "packages", "records", "version"}
    BY DEF Rewrites
  <2> QED
    BY <1>1, <1>2, <1>3, <1>5, <2>1, <2>2, <2>7, <2>8, RewriteInv
<1>6. ASSUME \A r \in DOMAIN tx.runs : tx.runs[r].format = Format,
             Working(p), To(p, "records"), UNCHANGED <<tx, pass>>
      PROVE  MigrationInv'
  <2>1. RewrittenInv'
    <3>1. tx' = tx /\ original' = original /\ Database(tx)
      BY <1>3, <1>6 DEF RewrittenInv, Working
    <3>2. Database(tx)'
      BY <3>1 DEF Database
    <3> QED
      BY <1>3, <3>1, <3>2, RewrittenKept
  <2>2. "records" \in Rewrites /\ "records" \notin {"schema", "packages", "version"}
    BY DEF Rewrites
  <2>3. pc' = [pc EXCEPT ![p] = "records"] /\ tx' = tx
    BY <1>6 DEF To
  <2> QED
    BY <1>1, <1>2, <1>3, <1>6, <2>1, <2>2, <2>3, RewriteInv
<1> QED
  BY <1>4, <1>5, <1>6 DEF FrozenRun

LEMMA RowsInv ==
    ASSUME MigrationInv, NEW p \in Processes, Rows(p)
    PROVE  MigrationInv'
<1>1. pc[p] = "records" /\ lock = p
  BY DEF Rows
<1>2. pc[p] \in Rewrites
  BY <1>1 DEF Rewrites
<1>3. /\ Found(original) /\ RewrittenInv /\ ~NotAStore(original) /\ original.version < Version
      /\ tx.records = original.records /\ tx.receipts = original.receipts
      /\ \A r \in DOMAIN tx.runs : tx.runs[r].format = Format
  BY <1>1, <1>2, Holder DEF Transaction
<1>4. CASE ~(Suitable(p, tx.records) /\ Suitable(p, tx.receipts)) /\ Abandon(p)
  <2>1. ~Openable(p, original)
    BY <1>3, <1>4 DEF Openable, Suitable
  <2> QED
    BY <1>1, <1>4, <2>1, AbandonInv
<1>5. CASE /\ Working(p) /\ To(p, "version")
           /\ tx' = [tx EXCEPT !.records = [r \in DOMAIN @ |-> Format],
                               !.receipts = [r \in DOMAIN @ |-> Format]]
  <2>1. /\ tx'.packages = tx.packages /\ tx'.runs = tx.runs /\ tx'.column = tx.column
        /\ tx'.records = [r \in DOMAIN tx.records |-> Format]
        /\ tx'.receipts = [r \in DOMAIN tx.receipts |-> Format] /\ Database(tx)'
    <3>1. Database(tx)
      BY <1>3 DEF RewrittenInv
    <3> QED
      BY <3>1, <1>5 DEF Database
  <2>2. original' = original
    BY <1>5 DEF Working
  <2>3. RewrittenInv'
    BY <1>3, <2>1, <2>2, RewrittenKept
  <2>4. "version" \in Rewrites /\ "version" \notin {"schema", "packages", "runs", "records"}
    BY DEF Rewrites
  <2>5. pc' = [pc EXCEPT ![p] = "version"]
    BY <1>5 DEF To
  <2>6. /\ \A r \in DOMAIN tx'.records : tx'.records[r] = Format
        /\ \A r \in DOMAIN tx'.receipts : tx'.receipts[r] = Format
        /\ \A r \in DOMAIN tx'.runs : tx'.runs[r].format = Format
    BY <1>3, <2>1
  <2> QED
    BY <1>1, <1>2, <1>5, <2>3, <2>4, <2>5, <2>6, RewriteInv
<1> QED
  BY <1>4, <1>5 DEF Rows

LEMMA CommitInv ==
    ASSUME MigrationInv, NEW p \in Processes, Commit(p)
    PROVE  MigrationInv'
<1>1. /\ pc[p] = "version" /\ lock = p /\ db' = Stamped(tx) /\ pc' = [pc EXCEPT ![p] = "open"]
      /\ original' = original /\ lock' = lock
  BY DEF Commit, To
<1>2. pc[p] \in Rewrites
  BY <1>1 DEF Rewrites
<1>3. /\ RewrittenInv /\ ~NotAStore(original)
      /\ \A r \in DOMAIN tx.runs : tx.runs[r].format = Format
      /\ \A r \in DOMAIN tx.records : tx.records[r] = Format
      /\ \A r \in DOMAIN tx.receipts : tx.receipts[r] = Format
  BY <1>1, <1>2, Holder DEF Transaction
<1> DEFINE Woken == [r \in DOMAIN tx.runs |->
                       IF tx.runs[r].state = "waiting" THEN [tx.runs[r] EXCEPT !.wakeup = "deadline"]
                                                       ELSE tx.runs[r]]
<1>4. /\ db'.packages = tx.packages /\ db'.runs = Woken /\ db'.column = tx.column
      /\ db'.records = tx.records /\ db'.receipts = tx.receipts
      /\ db'.version = Version /\ db'.app = "forge"
  <2>1. Database(tx)
    BY <1>3 DEF RewrittenInv
  <2> QED
    BY <2>1, <1>1 DEF Database, Stamped
<1>5. ASSUME NEW r \in DOMAIN tx.runs
      PROVE  /\ Woken[r].format = Format /\ Woken[r].package = tx.runs[r].package
             /\ Woken[r].state = tx.runs[r].state
             /\ Woken[r].wakeup = IF tx.runs[r].state = "waiting" THEN "deadline" ELSE "none"
  <2>1. RunRow(tx.runs[r]) /\ tx.runs[r].wakeup = "none" /\ tx.runs[r].format = Format
    BY <1>3 DEF RewrittenInv
  <2>2. CASE tx.runs[r].state = "waiting"
    <3>1. Woken[r] = [tx.runs[r] EXCEPT !.wakeup = "deadline"]
      BY <2>2
    <3>2. Woken[r] = [format |-> tx.runs[r].format, package |-> tx.runs[r].package,
                      state |-> tx.runs[r].state, waits |-> tx.runs[r].waits,
                      wakeup |-> "deadline"]
      BY <3>1, <2>1 DEF RunRow
    <3> HIDE DEF Woken
    <3> QED
      BY <3>2, <2>1, <2>2
  <2>3. CASE tx.runs[r].state # "waiting"
    BY <2>1, <2>3
  <2> QED
    BY <2>2, <2>3
<1>6. DOMAIN Woken = DOMAIN tx.runs
  OBVIOUS
<1> HIDE DEF Woken
<1>7. /\ db'.version = Version /\ db'.column
      /\ \A k \in db'.packages : k.id = k.body /\ k.body.format = Format
      /\ \A k, q \in db'.packages : k.id = q.id => k = q
      /\ \A r \in DOMAIN db'.records : db'.records[r] = Format
      /\ \A r \in DOMAIN db'.receipts : db'.receipts[r] = Format
  BY <1>3, <1>4 DEF RewrittenInv
<1>9. {k.id : k \in db'.packages} = {db'.runs[r].package : r \in DOMAIN db'.runs}
  BY <1>3, <1>4, <1>5, <1>6 DEF RewrittenInv
<1>10. ASSUME NEW r \in DOMAIN db'.runs
       PROVE  /\ db'.runs[r].format = Format
              /\ db'.runs[r].wakeup = IF db'.runs[r].state = "waiting" THEN "deadline" ELSE "none"
              /\ \E k \in db'.packages : k.id = db'.runs[r].package
              /\ db'.runs[r].package.content = original.runs[r].package.content
  <2>1. r \in DOMAIN tx.runs
    BY <1>4, <1>6
  <2>2. db'.runs[r].package \in {k.id : k \in db'.packages}
    BY <1>9
  <2>3. tx.runs[r].package.content = original.runs[r].package.content
    BY <2>1, <1>3 DEF RewrittenInv
  <2> QED
    BY <1>4, <1>5, <2>1, <2>2, <2>3
<1>11. Whole(db)'
  BY <1>7, <1>9, <1>10, <1>1 DEF Whole
<1>12. FileInv'
  <2>1. DOMAIN db'.runs = DOMAIN original.runs
    BY <1>3, <1>4, <1>6 DEF RewrittenInv
  <2> QED
    BY <1>1, <1>3, <1>4, <1>11, <2>1 DEF FileInv, NotAStore
<1>13. Transaction(p)'
  BY <1>1, Alone DEF Transaction, Rewrites, MigrationInv
<1> QED
  BY <1>1, <1>12, <1>13, WorkingInv

-----------------------------------------------------------------------------
(* The packages, one at a time. *)
ComesNext(k) == k \in Ahead /\ \A q \in Ahead : k.rowid <= q.rowid

(* The next package is one of the file, and every earlier one is visited. *)
LEMMA NextPackage ==
    ASSUME Found(original), PackagesInv, NEW k, ComesNext(k)
    PROVE  /\ k \in original.packages /\ k \in tx.packages /\ ~Visited(k) /\ k.rowid \in Nat
           /\ \A q \in original.packages : q.rowid <= k.rowid <=> Visited(q) \/ q = k
           /\ k.id = k.body => Clean(original)
<1>1. /\ k \in tx.packages /\ k.rowid > pass.at /\ k.rowid <= pass.last
      /\ \A q \in Ahead : k.rowid <= q.rowid
  BY DEF ComesNext, Ahead
<1>2. pass.at \in Nat /\ pass.last \in Nat
  BY DEF PackagesInv
<1>3. \/ k \in original.packages
      \/ k.rowid > pass.last /\ Row(k)
  BY <1>1 DEF PackagesInv
<1>4. k \in original.packages
  BY <1>1, <1>2, <1>3 DEF Row
<1>5. \A q \in original.packages : q.rowid \in Nat
  BY DEF Found, Row
<1>6. ~Visited(k)
  BY <1>1, <1>2, <1>4, <1>5 DEF Visited
<1>7. ASSUME NEW q \in original.packages
      PROVE  q.rowid <= k.rowid <=> Visited(q) \/ q = k
  <2>1. CASE Visited(q)
    BY <2>1, <1>1, <1>2, <1>4, <1>5 DEF Visited
  <2>2. CASE ~Visited(q)
    <3>1. q \in tx.packages /\ q.rowid <= pass.last
      BY <2>2 DEF PackagesInv
    <3>2. q \in Ahead
      BY <3>1, <2>2, <1>2, <1>5 DEF Ahead, Visited
    <3>3. k.rowid <= q.rowid
      BY <3>2, <1>1
    <3>4. q.rowid <= k.rowid => q = k
      BY <3>3, <1>4, <1>5 DEF Found
    <3> QED
      BY <3>4, <2>2, <1>4, <1>5
  <2> QED
    BY <2>1, <2>2
<1>8. k.id = k.body => Clean(original)
  BY <1>4 DEF Found
<1> QED
  BY <1>1, <1>4, <1>5, <1>6, <1>7, <1>8

LEMMA AheadLeast ==
    ASSUME Found(original), PackagesInv, Ahead # {}
    PROVE  ComesNext(CHOOSE next \in Ahead : \A q \in Ahead : next.rowid <= q.rowid)
<1>1. \A k \in Ahead : k.rowid \in Nat
  BY DEF Found, PackagesInv, Ahead, Row
<1>2. PICK n \in {k.rowid : k \in Ahead} : \A m \in {k.rowid : k \in Ahead} : n <= m
  <2>1. {k.rowid : k \in Ahead} \in SUBSET Nat /\ {k.rowid : k \in Ahead} # {}
    BY <1>1
  <2> QED
    BY <2>1, Least
<1>3. \E k \in Ahead : \A q \in Ahead : k.rowid <= q.rowid
  BY <1>2
<1> QED
  BY <1>3 DEF ComesNext

LEMMA AllVisited ==
    ASSUME Found(original), PackagesInv, Ahead = {}
    PROVE  Clean(original) /\ \A k \in original.packages : Visited(k)
<1>1. ASSUME NEW k \in original.packages
      PROVE  Visited(k)
  <2>1. k.rowid \in Nat /\ pass.at \in Nat
    BY DEF Found, Row, PackagesInv
  <2>2. ~Visited(k) => k \in Ahead
    BY <2>1 DEF PackagesInv, Ahead, Visited
  <2> QED
    BY <2>2
<1>2. Clean(original)
  BY <1>1 DEF PackagesInv, Clean
<1> QED
  BY <1>1, <1>2

LEMMA PackagesDone ==
    ASSUME Found(original), PackagesInv, Ahead = {}, tx' = tx, original' = original
    PROVE  RewrittenInv'
<1>1. Clean(original) /\ \A k \in original.packages : Visited(k)
  BY AllVisited
<1>2. \A k \in tx.packages : k.id = k.body /\ k.body.format = Format
  <2> SUFFICES ASSUME NEW k \in tx.packages PROVE k.id = k.body /\ k.body.format = Format
    OBVIOUS
  <2>1. \/ k \in original.packages /\ (Visited(k) => k.body.format = Format)
        \/ k.id = k.body /\ \E q \in original.packages : k.body = Upgraded(q.body)
    BY Zenon DEF PackagesInv
  <2>2. \A b : Upgraded(b).format = Format
    BY DEF Upgraded
  <2> QED
    BY <1>1, <2>1, <2>2 DEF Clean
<1>3. /\ \A k, q \in tx.packages : k.id = q.id => k = q
      /\ DOMAIN tx.runs = DOMAIN original.runs /\ IsFunction(tx.runs)
      /\ Database(tx) /\ tx.column
  BY <1>1 DEF PackagesInv
<1>4. {k.id : k \in tx.packages} = {tx.runs[r].package : r \in DOMAIN tx.runs}
  BY <1>1, Zenon DEF PackagesInv
<1>5. ASSUME NEW r \in DOMAIN tx.runs
      PROVE  /\ RunRow(tx.runs[r]) /\ tx.runs[r].wakeup = "none"
             /\ tx.runs[r].format \in {original.runs[r].format, Format}
             /\ tx.runs[r].waits = original.runs[r].waits
             /\ tx.runs[r].package.content = original.runs[r].package.content
  <2> DEFINE P == original.runs[r].package
             N == Now(P)
  <2>1. RunRow(original.runs[r]) /\ original.runs[r].wakeup = "none"
    BY <1>3 DEF Found
  <2>2. tx.runs[r] = [original.runs[r] EXCEPT !.package = N]
    BY DEF PackagesInv
  <2>3. N.content = P.content
    BY DEF Now, Upgraded
  <2> HIDE DEF N
  <2>4. tx.runs[r] = [format |-> original.runs[r].format, package |-> N,
                      state |-> original.runs[r].state, waits |-> original.runs[r].waits,
                      wakeup |-> original.runs[r].wakeup]
    BY <2>1, <2>2 DEF RunRow
  <2> QED
    BY <2>1, <2>3, <2>4 DEF RunRow
<1>6. RewrittenInv
  BY <1>2, <1>3, <1>4, <1>5 DEF RewrittenInv
<1>7. Database(tx)'
  BY <1>3 DEF Database
<1> QED
  BY <1>6, <1>7, RewrittenKept

LEMMA NowNext ==
    ASSUME Found(original), PackagesInv, NEW k, ComesNext(k), k.id = k.body,
           original' = original, pass' = [pass EXCEPT !.at = k.rowid]
    PROVE  /\ pass' = [at |-> pass'.at, last |-> pass'.last]
           /\ pass'.at = k.rowid /\ pass'.last = pass.last
           /\ \A q \in original.packages : Visited(q)' <=> Visited(q) \/ q = k
           /\ \A id : Now(id)' = IF id = k.id /\ id.format = 2 THEN Upgraded(id) ELSE Now(id)
           /\ Now(k.id) = k.id
<1>1. pass' = [at |-> k.rowid, last |-> pass.last]
  BY DEF PackagesInv
<1>2. pass' = [at |-> pass'.at, last |-> pass'.last]
      /\ pass'.at = k.rowid /\ pass'.last = pass.last
  BY <1>1
<1>3. /\ k \in original.packages /\ ~Visited(k)
      /\ \A q \in original.packages : q.rowid <= k.rowid <=> Visited(q) \/ q = k
      /\ Clean(original)
  BY NextPackage
<1>4. \A q \in original.packages : Visited(q)' <=> Visited(q) \/ q = k
  BY <1>2, <1>3 DEF Visited
<1>5. \A id : (\E q \in original.packages : q.id = id /\ Visited(q)')
               <=> id = k.id \/ \E q \in original.packages : q.id = id /\ Visited(q)
  BY <1>3, <1>4
<1>6. \A id : Now(id)' = IF id = k.id /\ id.format = 2 THEN Upgraded(id) ELSE Now(id)
  <2> SUFFICES ASSUME NEW id
               PROVE  Now(id)' = IF id = k.id /\ id.format = 2 THEN Upgraded(id) ELSE Now(id)
    OBVIOUS
  <2>1. Now(id)' = IF id.format = 2 /\ \E q \in original.packages : q.id = id /\ Visited(q)'
                   THEN Upgraded(id) ELSE id
    BY DEF Now
  <2> QED
    BY <2>1, <1>5 DEF Now
<1>7. Now(k.id) = k.id
  <2>1. \A q \in original.packages : q.id = k.id => q = k
    BY <1>3 DEF Found, Clean
  <2> QED
    BY <2>1, <1>3 DEF Now
<1> QED
  BY <1>2, <1>4, <1>6, <1>7

LEMMA PackageKept ==
    ASSUME Found(original), PackagesInv, NEW k, ComesNext(k), k.id = k.body, k.body.format = Format,
           original' = original, tx' = tx, pass' = [pass EXCEPT !.at = k.rowid]
    PROVE  PackagesInv'
<1>1. /\ pass' = [at |-> pass'.at, last |-> pass'.last]
      /\ pass'.at = k.rowid /\ pass'.last = pass.last
      /\ \A q \in original.packages : Visited(q)' <=> Visited(q) \/ q = k
      /\ \A id : Now(id)' = IF id = k.id /\ id.format = 2 THEN Upgraded(id) ELSE Now(id)
  BY NowNext
<1>2. \A id : Now(id)' = Now(id)
  BY <1>1 DEF Format
<1>3. k.rowid \in Nat
  BY NextPackage
<1>4. Clean(original) => {q.id : q \in tx'.packages} = {tx'.runs[r].package : r \in DOMAIN tx'.runs}
  <2> DEFINE P(d) == {q.id : q \in d.packages} = {d.runs[r].package : r \in DOMAIN d.runs}
  <2>1. Clean(original) => P(tx)
    BY Zenon DEF PackagesInv
  <2> HIDE DEF P
  <2>2. Clean(original) => P(tx')
    BY <2>1
  <2> QED
    BY <2>2, Zenon DEF P
<1>5. \A r \in DOMAIN tx'.runs : tx'.runs[r] = [original.runs[r] EXCEPT !.package = Now(@)']
  <2> SUFFICES ASSUME NEW r \in DOMAIN tx.runs
               PROVE  tx.runs[r] = [original.runs[r] EXCEPT !.package = Now(@)']
    OBVIOUS
  <2>1. tx.runs[r] = [original.runs[r] EXCEPT !.package = Now(@)]
    BY DEF PackagesInv
  <2> QED
    BY <2>1, <1>2
<1>6. \A q \in tx.packages :
          \/ q \in original.packages /\ (Visited(q)' => q.body.format = Format)
          \/ /\ Row(q) /\ q.rowid > pass'.last /\ q.id = q.body
             /\ \E o \in original.packages :
                   Visited(o)' /\ o.body.format = 2 /\ q.body = Upgraded(o.body)
  BY <1>1 DEF PackagesInv
<1>7. /\ \A q \in original.packages : Visited(q)' => q.id = q.body /\ q.body.format \in {2, Format}
      /\ \A q \in original.packages : ~Visited(q)' => q \in tx.packages
      /\ \A q \in original.packages : q.rowid <= pass'.last
      /\ original.packages # {} => \E q \in original.packages : q.rowid = pass'.last
  BY <1>1 DEF PackagesInv
<1>8. /\ Database(tx)' /\ tx'.column /\ Bounded(tx)' /\ IsFunction(tx.runs)'
      /\ tx'.records = original.records /\ tx'.receipts = original.receipts
      /\ pass'.at \in Nat /\ pass'.last \in Nat
      /\ DOMAIN tx'.runs = DOMAIN original.runs
      /\ Clean(original) => \A j, q \in tx'.packages : j.id = q.id => j = q
  BY <1>1, <1>3 DEF PackagesInv, Database, Bounded, IsFunction
<1>9. Clean(original)' <=> Clean(original)
  BY DEF Clean
<1> QED
  BY <1>1, <1>4, <1>5, <1>6, <1>7, <1>8, <1>9 DEF PackagesInv

(* A package of the old format gives way to the one it becomes. *)
LEMMA PackageReplaced ==
    ASSUME Found(original), PackagesInv, NEW k, ComesNext(k), k.id = k.body, k.body.format = 2,
           original' = original, tx' = Replaced(tx, k), pass' = [pass EXCEPT !.at = k.rowid]
    PROVE  PackagesInv'
<1> DEFINE new == Upgraded(k.body)
           next == 1 + Max({q.rowid : q \in tx.packages})
           row == [rowid |-> next, id |-> new, body |-> new]
           there == \E q \in tx.packages : q.id = new
           Became(r) == IF tx.runs[r].package = k.id THEN [tx.runs[r] EXCEPT !.package = new] ELSE tx.runs[r]
<1>1. /\ pass' = [at |-> pass'.at, last |-> pass'.last]
      /\ pass'.at = k.rowid /\ pass'.last = pass.last
      /\ \A q \in original.packages : Visited(q)' <=> Visited(q) \/ q = k
      /\ \A id : Now(id)' = IF id = k.id /\ id.format = 2 THEN Upgraded(id) ELSE Now(id)
      /\ Now(k.id) = k.id
  BY NowNext
<1>2. /\ k \in original.packages /\ k \in tx.packages /\ ~Visited(k) /\ k.rowid \in Nat
      /\ Clean(original) /\ k.rowid > pass.at /\ k.rowid <= pass.last
  BY NextPackage DEF ComesNext, Ahead
<1>3. /\ tx'.packages = {q \in tx.packages : q.id # k.id} \cup (IF there THEN {} ELSE {row})
      /\ tx'.runs = [r \in DOMAIN tx.runs |-> Became(r)]
      /\ tx'.records = tx.records /\ tx'.receipts = tx.receipts /\ tx'.column = tx.column
      /\ Database(tx)'
  <2>1. Database(tx)
    BY DEF PackagesInv
  <2> QED
    BY <2>1 DEF Database, Replaced
<1>4. new.format = Format /\ new # k.id
  BY DEF Upgraded, Format
<1>5. \A q \in tx.packages : q.rowid \in Nat
  BY DEF PackagesInv, Found, Row
<1>6. next \in Nat \ {0} /\ \A q \in tx.packages : q.rowid < next
  <2> DEFINE S == {q.rowid : q \in tx.packages}
  <2>1. PICK b \in Nat : \A q \in tx.packages : q.rowid <= b
    BY DEF PackagesInv, Bounded
  <2>2. S \in SUBSET Nat /\ S # {} /\ \A x \in S : x <= b
    BY <1>2, <1>5, <2>1
  <2>3. \A q \in tx.packages : q.rowid \in S
    OBVIOUS
  <2> HIDE DEF S
  <2>4. Max(S) \in S /\ \A x \in S : x <= Max(S)
    BY <2>1, <2>2, Greatest
  <2>5. Max(S) \in Nat /\ \A x \in S : x \in Nat /\ x <= Max(S)
    BY <2>2, <2>4
  <2>6. next = 1 + Max(S)
    BY DEF S
  <2> HIDE DEF next
  <2> QED
    BY <2>3, <2>5, <2>6
<1>7. pass.at \in Nat /\ pass.last \in Nat
  BY DEF PackagesInv
<1>8. next > pass.last
  <2>1. PICK q \in original.packages : q.rowid = pass.last
    BY <1>2 DEF PackagesInv
  <2>2. ~Visited(q)
    BY <1>2, <1>7, <2>1 DEF Visited
  <2>3. q \in tx.packages
    BY <2>2 DEF PackagesInv
  <2> QED
    BY <1>5, <1>6, <2>1, <2>3
<1> HIDE DEF new, next, there
<1>9. \A q \in tx'.packages : (q \in tx.packages /\ q.id # k.id) \/ (q = row /\ ~there)
  BY <1>3
<1>10. row.rowid = next /\ row.id = new /\ row.body = new /\ Row(row)
  BY <1>6 DEF Row
<1> HIDE DEF row, Became
<1>11. \A q \in tx'.packages : q.rowid <= next /\ q.rowid \in Nat
  BY <1>5, <1>6, <1>9, <1>10
<1>12. Bounded(tx)'
  BY <1>6, <1>11 DEF Bounded
<1>13. \A q \in original.packages : ~Visited(q)' => q \in tx'.packages
  <2> SUFFICES ASSUME NEW q \in original.packages, ~Visited(q)'
               PROVE  q \in tx'.packages
    OBVIOUS
  <2>1. ~Visited(q) /\ q # k
    BY <1>1
  <2>2. q \in tx.packages
    BY <2>1 DEF PackagesInv
  <2>3. q.id # k.id
    BY <1>2, <2>1 DEF Found, Clean
  <2> QED
    BY <1>3, <2>2, <2>3
<1>14. ASSUME NEW q \in tx'.packages
       PROVE  \/ q \in original.packages /\ (Visited(q)' => q.body.format = Format)
              \/ /\ Row(q) /\ q.rowid > pass'.last /\ q.id = q.body
                 /\ \E o \in original.packages :
                       Visited(o)' /\ o.body.format = 2 /\ q.body = Upgraded(o.body)
  <2>1. CASE q \in tx.packages /\ q.id # k.id
    <3>1. \/ q \in original.packages /\ (Visited(q) => q.body.format = Format)
          \/ /\ Row(q) /\ q.rowid > pass.last /\ q.id = q.body
             /\ \E o \in original.packages :
                   Visited(o) /\ o.body.format = 2 /\ q.body = Upgraded(o.body)
      BY <2>1, Zenon DEF PackagesInv
    <3> QED
      BY <1>1, <2>1, <3>1
  <2>2. CASE q = row
    <3>1. Visited(k)'
      BY <1>1, <1>2
    <3>2. Row(q) /\ q.rowid > pass'.last /\ q.id = q.body /\ q.body = Upgraded(k.body)
      BY <1>1, <1>8, <1>10, <2>2 DEF new
    <3> QED
      BY <1>2, <3>1, <3>2
  <2> QED
    BY <1>9, <2>1, <2>2
<1>15. \A j, q \in tx'.packages : j.id = q.id => j = q
  <2>1. \A j, q \in tx.packages : j.id = q.id => j = q
    BY <1>2 DEF PackagesInv
  <2> QED
    BY <2>1, <1>9, <1>10 DEF there
<1>16. ASSUME NEW r \in DOMAIN tx.runs
       PROVE  /\ tx'.runs[r] = [original.runs[r] EXCEPT !.package = Now(@)']
              /\ tx'.runs[r].package = IF tx.runs[r].package = k.id THEN new ELSE tx.runs[r].package
  <2> DEFINE P == original.runs[r].package
             N == Now(P)
             M == Now(P)'
  <2>1. RunRow(original.runs[r])
    BY DEF Found, PackagesInv
  <2>2. tx.runs[r] = [original.runs[r] EXCEPT !.package = N]
    BY DEF PackagesInv
  <2>3. tx'.runs[r] = Became(r)
    BY <1>3
  <2>4. N = k.id <=> P = k.id
    <3>1. P = k.id => N = k.id
      BY <1>1
    <3>2. N = k.id => N = P
      BY DEF Now, Upgraded, Format
    <3> QED
      BY <3>1, <3>2
  <2>5. M = IF N = k.id THEN new ELSE N
    <3>1. M = IF P = k.id /\ P.format = 2 THEN Upgraded(P) ELSE N
      BY <1>1
    <3> QED
      BY <3>1, <2>4 DEF new
  <2>6. [original.runs[r] EXCEPT !.package = Now(@)'] = [original.runs[r] EXCEPT !.package = M]
    OBVIOUS
  <2> HIDE DEF N, M
  <2>7. tx.runs[r] = [format |-> original.runs[r].format, package |-> N,
                      state |-> original.runs[r].state, waits |-> original.runs[r].waits,
                      wakeup |-> original.runs[r].wakeup]
    BY <2>1, <2>2 DEF RunRow
  <2>8. [original.runs[r] EXCEPT !.package = M] =
           [format |-> original.runs[r].format, package |-> M,
            state |-> original.runs[r].state, waits |-> original.runs[r].waits,
            wakeup |-> original.runs[r].wakeup]
    BY <2>1 DEF RunRow
  <2>9. tx.runs[r].package = N
    BY <2>7
  <2>10. CASE N = k.id
    <3>1. Became(r) = [tx.runs[r] EXCEPT !.package = new]
      BY <2>9, <2>10 DEF Became
    <3>2. Became(r) = [format |-> original.runs[r].format, package |-> new,
            state |-> original.runs[r].state, waits |-> original.runs[r].waits,
            wakeup |-> original.runs[r].wakeup]
      BY <2>7, <3>1
    <3> QED
      BY <2>3, <2>5, <2>6, <2>8, <2>9, <2>10, <3>2
  <2>11. CASE N # k.id
    <3>1. Became(r) = tx.runs[r] /\ M = N
      BY <2>5, <2>9, <2>11 DEF Became
    <3> QED
      BY <2>3, <2>6, <2>7, <2>8, <2>9, <2>11, <3>1
  <2> QED
    BY <2>10, <2>11
<1>17. DOMAIN tx'.runs = DOMAIN tx.runs /\ IsFunction(tx.runs)'
  BY <1>3 DEF IsFunction
<1>18. {q.id : q \in tx'.packages} = {tx'.runs[r].package : r \in DOMAIN tx'.runs}
  <2> DEFINE I == {q.id : q \in tx.packages}
             J == {q.id : q \in tx'.packages}
             R == {tx'.runs[r].package : r \in DOMAIN tx'.runs}
  <2>1. I = {tx.runs[r].package : r \in DOMAIN tx.runs}
    BY <1>2, Zenon DEF PackagesInv
  <2>2. J = (I \ {k.id}) \cup {new}
    <3>1. \A x \in J : x \in (I \ {k.id}) \cup {new}
      BY <1>9, <1>10
    <3>2. \A x \in I \ {k.id} : x \in J
      BY <1>3
    <3>3. new \in J
      <4>1. CASE there
        BY <4>1, <1>3, <1>4 DEF there
      <4>2. CASE ~there
        BY <4>2, <1>3, <1>10
      <4> QED
        BY <4>1, <4>2
    <3> HIDE DEF I, J
    <3> QED
      BY <3>1, <3>2, <3>3
  <2>3. R = (I \ {k.id}) \cup {new}
    <3>1. ASSUME NEW x \in R PROVE x \in (I \ {k.id}) \cup {new}
      <4>1. PICK r \in DOMAIN tx.runs : x = tx'.runs[r].package
        BY <1>17
      <4>2. tx.runs[r].package \in I
        BY <2>1
      <4> QED
        BY <1>16, <4>1, <4>2
    <3>2. \A x \in I \ {k.id} : x \in R
      BY <1>16, <1>17, <2>1
    <3>3. new \in R
      <4>1. k.id \in I
        BY <1>2
      <4>2. PICK r \in DOMAIN tx.runs : tx.runs[r].package = k.id
        BY <4>1, <2>1
      <4>3. tx'.runs[r].package = new
        BY <4>2, <1>16
      <4> QED
        BY <4>3, <1>17
    <3> HIDE DEF I, R
    <3> QED
      BY <3>1, <3>2, <3>3
  <2> QED
    BY <2>2, <2>3, Zenon
<1>19. /\ \A q \in original.packages : Visited(q)' => q.id = q.body /\ q.body.format \in {2, Format}
       /\ \A q \in original.packages : q.rowid <= pass'.last
       /\ original.packages # {} => \E q \in original.packages : q.rowid = pass'.last
  BY <1>1 DEF PackagesInv
<1>20. /\ tx'.column /\ DOMAIN tx'.runs = DOMAIN original.runs
       /\ tx'.records = original.records /\ tx'.receipts = original.receipts
       /\ pass'.at \in Nat /\ pass'.last \in Nat
  BY <1>1, <1>2, <1>3, <1>17 DEF PackagesInv
<1>21. Clean(original)' <=> Clean(original)
  BY DEF Clean
<1> QED
  BY <1>1, <1>3, <1>12, <1>13, <1>14, <1>15, <1>16, <1>17, <1>18, <1>19, <1>20, <1>21
  DEF PackagesInv

LEMMA PackageInv ==
    ASSUME MigrationInv, NEW p \in Processes, Package(p)
    PROVE  MigrationInv'
<1>1. pc[p] = "packages" /\ lock = p
  BY DEF Package
<1>2. pc[p] \in Rewrites
  BY <1>1 DEF Rewrites
<1>3. /\ Found(original) /\ PackagesInv /\ ~NotAStore(original) /\ original.version < Version
  BY <1>1, <1>2, Holder DEF Transaction
<1>4. CASE Ahead = {}
  <2>1. Working(p) /\ pc' = [pc EXCEPT ![p] = "runs"] /\ tx' = tx
    BY <1>4 DEF Package, To
  <2>2. RewrittenInv'
    BY <1>3, <1>4, <2>1, PackagesDone DEF Working
  <2>3. "runs" \in Rewrites /\ "runs" \notin {"schema", "packages", "records", "version"}
    BY DEF Rewrites
  <2>4. tx'.records = original.records /\ tx'.receipts = original.receipts
    BY <1>3, <2>1 DEF PackagesInv
  <2> QED
    BY <1>1, <1>2, <2>1, <2>2, <2>3, <2>4, RewriteInv
<1>5. CASE Ahead # {}
  <2> DEFINE k == CHOOSE next \in Ahead : \A q \in Ahead : next.rowid <= q.rowid
  <2>1. ComesNext(k)
    BY <1>3, <1>5, AheadLeast
  <2>2. \/ /\ k.id # k.body \/ k.body.format # 2 \/ ~Fits(p, k.body.content)
           /\ Abandon(p)
        \/ /\ k.id = k.body /\ k.body.format \in {2, Format} /\ Working(p)
           /\ tx' = IF k.body.format = 2 THEN Replaced(tx, k) ELSE tx
           /\ pass' = [pass EXCEPT !.at = k.rowid]
           /\ UNCHANGED pc
    BY <1>5 DEF Package, Convertible
  <2> HIDE DEF k
  <2>3. k \in original.packages
    BY <1>3, <2>1, NextPackage
  <2>4. CASE /\ k.id # k.body \/ k.body.format # 2 \/ ~Fits(p, k.body.content)
             /\ Abandon(p)
    <3>1. ~Openable(p, original)
      BY <1>3, <2>3, <2>4 DEF Openable
    <3> QED
      BY <1>1, <2>4, <3>1, AbandonInv
  <2>5. CASE /\ k.id = k.body /\ k.body.format \in {2, Format} /\ Working(p)
             /\ tx' = IF k.body.format = 2 THEN Replaced(tx, k) ELSE tx
             /\ pass' = [pass EXCEPT !.at = k.rowid]
             /\ UNCHANGED pc
    <3>1. pc' = [pc EXCEPT ![p] = "packages"]
      <4>1. DOMAIN pc = Processes /\ pc = [x \in DOMAIN pc |-> pc[x]]
        BY DEF MigrationInv, LockInv
      <4> QED
        BY <4>1, <1>1, <2>5
    <3>2. original' = original
      BY <2>5 DEF Working
    <3>3. PackagesInv'
      <4>1. CASE k.body.format = 2
        BY <1>3, <2>1, <2>5, <3>2, <4>1, PackageReplaced
      <4>2. CASE k.body.format = Format
        BY <1>3, <2>1, <2>5, <3>2, <4>2, PackageKept DEF Format
      <4> QED
        BY <2>5, <4>1, <4>2
    <3>4. "packages" \in Rewrites /\ "packages" \notin {"schema", "runs", "records", "version"}
      BY DEF Rewrites
    <3> QED
      BY <1>1, <1>2, <2>5, <3>1, <3>3, <3>4, RewriteInv
  <2> QED
    BY <2>2, <2>4, <2>5
<1> QED
  BY <1>4, <1>5

-----------------------------------------------------------------------------
LEMMA MigrationStutterInv ==
    ASSUME MigrationInv, UNCHANGED migrationVars
    PROVE  MigrationInv'
<1>1. /\ db' = db /\ original' = original /\ lock' = lock /\ pc' = pc /\ tx' = tx
      /\ pass' = pass
  BY DEF migrationVars
<1>2. FileInv' /\ LockInv' /\ Found(original)'
  BY <1>1, FileKept DEF MigrationInv, LockInv
<1>3. FailInv'
  <2> SUFFICES ASSUME NEW q \in Processes, pc'[q] = "failed" PROVE ~Openable(q, original')
    BY DEF FailInv, Openable, NotAStore
  <2> QED
    BY <1>1 DEF MigrationInv, FailInv
<1>4. TransactionInv'
  <2> SUFFICES ASSUME NEW q \in Processes PROVE Transaction(q)'
    BY Zenon DEF TransactionInv
  <2>1. Transaction(q)
    BY DEF MigrationInv, TransactionInv
  <2>2. Started => Started'
    BY <1>1 DEF Started, Foreign
  <2>3. PackagesInv => PackagesInv'
    <3> SUFFICES ASSUME PackagesInv PROVE PackagesInv'
      OBVIOUS
    <3>1. /\ Database(tx)' /\ Bounded(tx)' /\ IsFunction(tx.runs)' /\ (Clean(original)' <=> Clean(original))
          /\ \A k : Visited(k)' <=> Visited(k)
      BY <1>1 DEF PackagesInv, Visited, Clean, Bounded, Database, IsFunction
    <3>2. \A id : Now(id)' = Now(id)
      BY <1>1, <3>1 DEF Now
    <3>3. \A r \in DOMAIN tx'.runs : tx'.runs[r] = [original.runs[r] EXCEPT !.package = Now(@)']
      <4> SUFFICES ASSUME NEW r \in DOMAIN tx.runs
                   PROVE  tx.runs[r] = [original.runs[r] EXCEPT !.package = Now(@)']
        BY <1>1
      <4>1. tx.runs[r] = [original.runs[r] EXCEPT !.package = Now(@)]
        BY DEF PackagesInv
      <4> QED
        BY <1>1, <3>2, <4>1
    <3>4. Clean(original) => {k.id : k \in tx'.packages} = {tx'.runs[r].package : r \in DOMAIN tx'.runs}
      <4> DEFINE P(d) == {k.id : k \in d.packages} = {d.runs[r].package : r \in DOMAIN d.runs}
      <4>1. Clean(original) => P(tx)
        BY Zenon DEF PackagesInv
      <4> HIDE DEF P
      <4>2. Clean(original) => P(tx')
        BY <1>1, <4>1
      <4> QED
        BY <4>2, Zenon DEF P
    <3>5. \A k \in tx'.packages :
             \/ k \in original.packages /\ (Visited(k)' => k.body.format = Format)
             \/ /\ Row(k) /\ k.rowid > pass'.last /\ k.id = k.body
                /\ \E o \in original.packages :
                      Visited(o)' /\ o.body.format = 2 /\ k.body = Upgraded(o.body)
      BY <1>1, <3>1 DEF PackagesInv
    <3>6. /\ \A k \in original.packages : Visited(k)' => k.id = k.body /\ k.body.format \in {2, Format}
          /\ \A k \in original.packages : ~Visited(k)' => k \in tx'.packages
      BY <1>1, <3>1 DEF PackagesInv
    <3> QED
      BY <1>1, <3>1, <3>3, <3>4, <3>5, <3>6 DEF PackagesInv
  <2>4. RewrittenInv => RewrittenInv'
    <3>1. RewrittenInv => Database(tx)'
      BY <1>1 DEF RewrittenInv, Database
    <3> QED
      BY <1>1, <3>1, RewrittenKept
  <2> QED
    BY <1>1, <2>1, <2>2, <2>3, <2>4 DEF Transaction
<1> QED
  BY <1>2, <1>3, <1>4 DEF MigrationInv

LEMMA MigrationNextInv == MigrationInv /\ [MigrationNext]_migrationVars => MigrationInv'
<1> SUFFICES ASSUME MigrationInv, [MigrationNext]_migrationVars PROVE MigrationInv'
  OBVIOUS
<1>1. CASE UNCHANGED migrationVars
  BY <1>1, MigrationStutterInv
<1>2. CASE MigrationNext
  <2>1. PICK p \in Processes : \/ Acquire(p) \/ CheckHeader(p) \/ Schema(p) \/ Package(p) \/ FrozenRun(p)
                               \/ Rows(p) \/ Commit(p) \/ Close(p) \/ Die(p)
    BY <1>2 DEF MigrationNext
  <2> QED
    BY <2>1, AcquireInv, CheckHeaderInv, SchemaInv, PackageInv, FrozenRunInv, RowsInv, CommitInv, CloseInv
<1> QED
  BY <1>1, <1>2

LEMMA InvMigratesOnce == MigrationInv => MigratesOnce
<1> SUFFICES ASSUME MigrationInv PROVE MigratesOnce
  OBVIOUS
<1>1. AllOrNothing /\ ForeignIsUntouched
  BY DEF MigrationInv, FileInv, AllOrNothing, ForeignIsUntouched
<1>2. FailsForCause
  BY DEF MigrationInv, FailInv, FailsForCause
<1> QED
  BY <1>1, <1>2 DEF MigratesOnce

(* A migration happens once and wholly, fails for a cause in the file, and  *)
(* leaves foreign files alone, whatever processes die and take turns        *)
(* (schema.rs:12-29, schema.rs:41).                                         *)
THEOREM MigrationIsOnce == MigrationSpec => []MigratesOnce
<1>1. MigrationInit => MigrationInv
  BY MigrationInitInv
<1>2. MigrationInv /\ [MigrationNext]_migrationVars => MigrationInv'
  BY MigrationNextInv
<1>3. MigrationInv => MigratesOnce
  BY InvMigratesOnce
<1> QED
  BY <1>1, <1>2, <1>3, PTL DEF MigrationSpec
=============================================================================
