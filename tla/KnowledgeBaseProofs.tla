-------------------------- MODULE KnowledgeBaseProofs --------------------------
(***************************************************************************)
(* Proofs about KnowledgeBase, for any runs of any programs.               *)
(***************************************************************************)
EXTENDS KnowledgeBase, TLAPS

(* What a run wants *)

LEMMA SeenIs ==
  ASSUME KnowledgeInv, NEW n \in Runs
  PROVE  /\ run[n].seen \subseteq Rows /\ run[n].byRecord \subseteq Rows
         /\ run[n].at \in {"new", "lock", "read", "write", "done", "failed"}
         /\ run[n].disturbed \in BOOLEAN /\ run[n].does \in DOMAIN Programs \cup {None}
<1>1. run[n] \in RunStates
  BY DEF KnowledgeInv, TypeOK
<1> QED
  BY <1>1 DEF RunStates

LEMMA DoesIs ==
  ASSUME KnowledgeInv, NEW n \in Runs, Under(n)
  PROVE  /\ run[n].does \in DOMAIN Programs
         /\ Does(n).op \in {"startup", "manual", "file"} /\ Does(n).model \in Models
         /\ Does(n).op = "startup" => ~Does(n).sync
         /\ Does(n).op = "file" => Does(n).records = {}
         /\ Does(n).op # "manual" => Does(n).model = Configured
         /\ Does(n).records \subseteq Records /\ Does(n).pieces \subseteq Pieces
<1>1. run[n].does \in DOMAIN Programs
  BY SeenIs DEF KnowledgeInv, Locked
<1> QED
  BY <1>1, KnowledgeAssumption DEF Does, Records, Pieces

\* A run that writes gives a row that is new an id of its own.
LEMMA FreshIds ==
  ASSUME KnowledgeInv, NEW n \in Runs, run[n].at # "done"
  PROVE  /\ \A row \in rows : row.id[1] # n
         /\ \A m \in Runs : run[m].at = "write" => \A row \in run[m].seen : row.id[1] # n
BY DEF KnowledgeInv, Knows, Sound

\* A row is known by its record.
LEMMA CurrentIs ==
  ASSUME KnowledgeInv, NEW n \in Runs, run[n].at = "write", Does(n).op # "file",
         NEW r \in Does(n).records
  PROVE  /\ \A row \in Current(n, r) :
              row \in run[n].seen /\ row.record = r.record /\ row.type = r.type
         /\ \A p, q \in Current(n, r) : p = q
         /\ Current(n, r) = {} => \A row \in run[n].seen : row.record # r.record
<1>1. /\ Sound(run[n].seen) /\ run[n].byRecord \in OnePerRecord(run[n].seen)
      /\ \A row \in run[n].seen : row.record # None
  BY DEF KnowledgeInv, Knows
<1>2. /\ run[n].byRecord \subseteq run[n].seen
      /\ \A p, q \in run[n].byRecord : p.record = q.record => p = q
      /\ \A row \in run[n].seen : \E q \in run[n].byRecord : q.record = row.record
  <2>1. {row.record : row \in run[n].byRecord} = {row.record : row \in run[n].seen} \ {None}
    BY <1>1 DEF OnePerRecord
  <2>2. \A row \in run[n].seen : row.record \in {q.record : q \in run[n].byRecord}
    BY <1>1, <2>1
  <2> QED
    BY <1>1, <2>2 DEF OnePerRecord
<1>3. \A row \in run[n].seen : row.chunk = VectorId(r) => row.record = r.record
  BY <1>1 DEF Sound, VectorId
<1>4. \A row \in run[n].seen : row.record = r.record => row.type = r.type
  <2>1. Under(n) /\ run[n].does \in DOMAIN Programs
    BY DoesIs DEF Under
  <2>2. \A s \in Records : s.record = r.record => s.type = r.type
    BY <2>1, KnowledgeAssumption DEF Records, Does
  <2> QED
    BY <1>1, <2>2 DEF Sound
<1>5. \A p, q \in run[n].seen : p.chunk = q.chunk => p = q
  BY <1>1 DEF Sound
<1> QED
  BY <1>2, <1>3, <1>4, <1>5 DEF Current

\* What a run makes of a record.
LEMMA WantedIs ==
  ASSUME KnowledgeInv, NEW n \in Runs, run[n].at = "write", Does(n).op # "file",
         NEW r \in Does(n).records
  PROVE  \E id : /\ Wanted(n, r) = {RowOf(r, id, Does(n).model)}
                 /\ \/ id = <<n, r.record>> /\ \A row \in run[n].seen : row.record # r.record
                    \/ \E row \in run[n].seen :
                         row.id = id /\ row.record = r.record /\ row.type = r.type
<1>1. CASE Current(n, r) = {}
  BY <1>1, CurrentIs DEF Wanted
<1>2. CASE Current(n, r) # {}
  <2>0. PICK row \in Current(n, r) : TRUE
    BY <1>2
  <2>1. Current(n, r) = {row}
    BY <2>0, CurrentIs
  <2>2. row \in run[n].seen /\ row.record = r.record /\ row.type = r.type /\ row \in Rows
    BY <2>1, CurrentIs, SeenIs
  <2>3. Unchanged(n, r, row) =>
          [row EXCEPT !.active = r.enabled] = RowOf(r, row.id, Does(n).model)
    BY <2>2 DEF Unchanged, RowOf, Rows
  <2>4. Wanted(n, r) = {RowOf(r, row.id, Does(n).model)}
    BY <2>1, <2>3 DEF Wanted
  <2> QED
    BY <2>2, <2>4
<1> QED
  BY <1>1, <1>2

LEMMA RowOfIs ==
  ASSUME KnowledgeInv, NEW n \in Runs, Under(n), NEW r \in Does(n).records,
         NEW id \in Runs \X Names
  PROVE  LET row == RowOf(r, id, Does(n).model) IN
         /\ row \in Rows /\ row.id = id /\ row.record = r.record /\ row.type = r.type
         /\ row.chunk = VectorId(r) /\ row.chunk[1] = r.record /\ row.text = r.text
         /\ row.model = Does(n).model /\ row.active = r.enabled
         /\ r \in Records /\ row.record # None
<1>1. r \in Records /\ Does(n).model \in Models /\ run[n].does \in DOMAIN Programs
  BY DoesIs
<1>2. r.record # None /\ r.enabled \in BOOLEAN
  BY <1>1, KnowledgeAssumption DEF Does
<1>3. VectorId(r) \in Names \X ({0} \cup {s.version : s \in Records})
  BY <1>1 DEF VectorId, Names
<1>4. /\ r.record \in {s.record : s \in Records} \cup {None}
      /\ r.type \in {s.type : s \in Records} \cup {"faq"}
      /\ r.text \in {s.text : s \in Records} \cup Pieces
  BY <1>1
<1>5. VectorId(r)[1] = r.record
  BY DEF VectorId
<1>6. RowOf(r, id, Does(n).model) \in Rows
  BY <1>1, <1>2, <1>3, <1>4 DEF RowOf, Rows
<1> QED
  BY <1>1, <1>2, <1>5, <1>6 DEF RowOf

LEMMA PieceIs ==
  ASSUME NEW n \in Runs, NEW p \in Pieces
  PROVE  /\ Piece(n, p) \in Rows /\ Piece(n, p).id = <<n, p>> /\ Piece(n, p).record = None
         /\ Piece(n, p).chunk = <<p, 0>> /\ Piece(n, p).type = "faq"
<1>1. <<n, p>> \in Runs \X Names /\ <<p, 0>> \in Names \X ({0} \cup {r.version : r \in Records})
  BY DEF Names
<1> QED
  BY <1>1, KnowledgeAssumption DEF Piece, Rows

\* The rows a run puts have an id each: of its own, or of a row of the same
\* record that it has read.
LEMMA PutIs ==
  ASSUME KnowledgeInv, NEW n \in Runs, run[n].at = "write", NEW p \in Puts(n)
  PROVE  /\ p \in Rows
         /\ p.record # None =>
              p.chunk[1] = p.record /\ \E r \in Records : r.record = p.record /\ r.type = p.type
         /\ p.type \in Types(Does(n))
         /\ (p.record # None) <=> Does(n).op # "file"
         /\ \/ p.id[1] = n /\ \A row \in run[n].seen : p.record # None => row.record # p.record
            \/ \E row \in run[n].seen :
                 row.id = p.id /\ row.record = p.record /\ row.type = p.type
<1>1. Under(n)
  BY DEF Under
<1>2. CASE Does(n).op = "file"
  <2>1. PICK x \in Does(n).pieces : p = Piece(n, x)
    BY <1>2 DEF Puts
  <2>2. x \in Pieces
    BY <1>1, <2>1, DoesIs
  <2> QED
    BY <1>2, <2>1, <2>2, PieceIs DEF Types
<1>3. CASE Does(n).op # "file"
  <2>1. PICK r \in Does(n).records : p \in Wanted(n, r)
    BY <1>3 DEF Puts
  <2>2. PICK id : /\ p = RowOf(r, id, Does(n).model)
                  /\ \/ id = <<n, r.record>> /\ \A row \in run[n].seen : row.record # r.record
                     \/ \E row \in run[n].seen :
                          row.id = id /\ row.record = r.record /\ row.type = r.type
    BY <1>3, <2>1, WantedIs
  <2>3. id \in Runs \X Names
    <3>1. r.record \in Names
      BY <1>1, DoesIs DEF Names
    <3>2. \A row \in run[n].seen : row.id \in Runs \X Names
      BY SeenIs DEF Rows
    <3> QED
      BY <2>2, <3>1, <3>2
  <2>4. /\ p \in Rows /\ p.id = id /\ p.record = r.record /\ p.type = r.type
        /\ p.chunk[1] = r.record /\ r \in Records /\ p.record # None
    BY <1>1, <2>2, <2>3, RowOfIs
  <2>5. p.type \in Types(Does(n))
    BY <1>3, <2>4 DEF Types
  <2> QED
    BY <1>3, <2>2, <2>4, <2>5
<1> QED
  BY <1>2, <1>3

LEMMA PutsDiffer ==
  ASSUME KnowledgeInv, NEW n \in Runs, run[n].at = "write", NEW p \in Puts(n), NEW q \in Puts(n)
  PROVE  /\ p.id = q.id => p = q
         /\ p.record # None /\ p.record = q.record => p = q
<1>1. Under(n)
  BY DEF Under
<1>2. CASE Does(n).op = "file"
  <2>1. PICK x \in Does(n).pieces, y \in Does(n).pieces : p = Piece(n, x) /\ q = Piece(n, y)
    BY <1>2 DEF Puts
  <2>2. p.id = <<n, x>> /\ q.id = <<n, y>> /\ p.record = None
    BY <1>1, <2>1, DoesIs, PieceIs
  <2> QED
    BY <2>1, <2>2
<1>3. CASE Does(n).op # "file"
  <2>1. PICK r \in Does(n).records : p \in Wanted(n, r)
    BY <1>3 DEF Puts
  <2>2. PICK s \in Does(n).records : q \in Wanted(n, s)
    BY <1>3 DEF Puts
  <2>3. p.record = r.record /\ q.record = s.record
    BY <1>3, <2>1, <2>2, WantedIs DEF RowOf
  <2>4. r.record = s.record => p = q
    <3>1. r.record = s.record => r = s
      BY <1>1, DoesIs, KnowledgeAssumption DEF Does
    <3>2. r = s => p = q
      BY <1>3, <2>1, <2>2, WantedIs
    <3> QED
      BY <3>1, <3>2
  <2>5. p.id = q.id => p.record = q.record
    <3>1. \/ p.id = <<n, r.record>>
          \/ \E row \in run[n].seen : row.id = p.id /\ row.record = r.record
      BY <1>3, <2>1, WantedIs DEF RowOf
    <3>2. \/ q.id = <<n, s.record>>
          \/ \E row \in run[n].seen : row.id = q.id /\ row.record = s.record
      BY <1>3, <2>2, WantedIs DEF RowOf
    <3>3. \A row \in run[n].seen : row.id[1] # n
      BY FreshIds
    <3>4. \A x, y \in run[n].seen : x.id = y.id => x = y
      BY DEF KnowledgeInv, Knows, Sound
    <3> QED
      BY <2>3, <3>1, <3>2, <3>3, <3>4
  <2> QED
    BY <2>3, <2>4, <2>5
<1> QED
  BY <1>2, <1>3
----------------------------------------------------------------------------
(* What a run leaves *)

LEMMA SameRow ==
  ASSUME NEW x \in Rows, NEW y \in Rows, x.id = y.id, x.chunk = y.chunk, x.record = y.record,
         x.type = y.type, x.text = y.text, x.model = y.model, x.active = y.active
  PROVE  x = y
BY DEF Rows

\* What it writes that is not new was read, and is still the same record's.
LEMMA UpdatedIs ==
  ASSUME KnowledgeInv, NEW n \in Runs, run[n].at = "write",
         NEW p \in Written(n), NEW row \in rows, NEW q \in run[n].seen, row.id = p.id, q.id = p.id
  PROVE  LET x == Update(row, q, p) IN
         /\ x \in Rows /\ x.id = row.id /\ x.record = row.record /\ x.type = row.type
         /\ q.record = row.record /\ p.record = row.record /\ p.record # None
         /\ q.type = row.type /\ p.type = row.type
         /\ row.record # None => x.chunk[1] = row.record
         /\ q = row => x = p
<1>1. /\ p \in Rows /\ row \in Rows /\ q \in Rows
      /\ p.record # None => p.chunk[1] = p.record
      /\ \/ p.id[1] = n
         \/ \E y \in run[n].seen : y.id = p.id /\ y.record = p.record /\ y.type = p.type
  BY PutIs, SeenIs DEF Written, KnowledgeInv, TypeOK
<1>2. q.record = row.record /\ q.type = row.type /\ (row.record # None => row.chunk[1] = row.record)
  BY DEF KnowledgeInv, Knows, Sound
<1>3. q.record = p.record /\ q.type = p.type
  <2>1. q.id[1] # n
    BY FreshIds
  <2>2. \A y \in run[n].seen : y.id = q.id => y = q
    BY DEF KnowledgeInv, Knows, Sound
  <2> QED
    BY <1>1, <2>1, <2>2
<1>4. p.record # None
  <2>1. Does(n).op # "file"
    <3>1. q.id[1] # n
      BY FreshIds
    <3>2. ASSUME Does(n).op = "file" PROVE FALSE
      <4>1. PICK z \in Does(n).pieces : p = Piece(n, z)
        BY <3>2 DEF Written, Puts
      <4> QED
        BY <3>1, <4>1 DEF Piece
    <3> QED
      BY <3>2
  <2> QED
    BY <2>1, PutIs DEF Written
<1> DEFINE c == Column(q.chunk, p.chunk, row.chunk)
           t == Column(q.text, p.text, row.text)
           m == Column(q.model, p.model, row.model)
           a == Column(q.active, p.active, row.active)
<1>5. c \in {p.chunk, row.chunk} /\ t \in {p.text, row.text} /\ m \in {p.model, row.model}
      /\ a \in {p.active, row.active}
  BY DEF Column
<1>6. q = row => c = p.chunk /\ t = p.text /\ m = p.model /\ a = p.active
  BY DEF Column
<1>7. Update(row, q, p) = [row EXCEPT !.chunk = c, !.text = t, !.model = m, !.active = a]
  BY DEF Update
<1> HIDE DEF c, t, m, a
<1>8. /\ Update(row, q, p) \in Rows /\ Update(row, q, p).id = row.id
      /\ Update(row, q, p).record = row.record /\ Update(row, q, p).type = row.type
      /\ Update(row, q, p).chunk = c /\ Update(row, q, p).text = t
      /\ Update(row, q, p).model = m /\ Update(row, q, p).active = a
  BY <1>1, <1>5, <1>7 DEF Rows
<1>9. q = row => Update(row, q, p) = p
  BY <1>1, <1>2, <1>3, <1>6, <1>8, SameRow
<1> QED
  BY <1>1, <1>2, <1>3, <1>4, <1>5, <1>8, <1>9

\* A row after the run is one it left alone, or one it inserted, or one it
\* updated.
LEMMA AfterIs ==
  ASSUME KnowledgeInv, NEW n \in Runs, run[n].at = "write", NEW x \in After(n)
  PROVE  /\ x \in Rows
         /\ x.record # None =>
              x.chunk[1] = x.record /\ \E r \in Records : r.record = x.record /\ r.type = x.type
         /\ \/ x \in rows /\ x.id \notin {p.id : p \in Written(n)}
            \/ x \in Written(n) /\ x.id[1] = n
            \/ \E p \in Written(n), row \in rows :
                 /\ p.id = x.id /\ row.id = x.id /\ p.record = x.record
                 /\ row.record = x.record /\ row.type = x.type /\ x.record # None
                 /\ p.type = x.type
                 /\ x.id[1] # n
                 /\ row \in run[n].seen => x = p
<1>1. CASE x \in rows /\ x.id \notin {p.id : p \in Written(n)}
  BY <1>1 DEF KnowledgeInv, TypeOK, Sound
<1>2. CASE x \in Written(n) /\ \A q \in run[n].seen : q.id # x.id
  BY <1>2, PutIs DEF Written
<1>3. CASE \E p \in Written(n) : x \in Updated(n, p)
  <2>1. PICK p \in Written(n), row \in rows, q \in run[n].seen :
               row.id = p.id /\ q.id = p.id /\ x = Update(row, q, p)
    BY <1>3 DEF Updated
  <2>2. /\ x \in Rows /\ x.id = row.id /\ x.record = row.record /\ x.type = row.type
        /\ p.record = row.record /\ p.record # None /\ p.type = row.type
        /\ row.record # None => x.chunk[1] = row.record
        /\ q = row => x = p
    BY <2>1, UpdatedIs
  <2>3. \E r \in Records : r.record = row.record /\ r.type = row.type
    BY <2>2 DEF KnowledgeInv, Sound
  <2>4. row.id[1] # n /\ (row \in run[n].seen => q = row)
    BY <2>1, FreshIds DEF KnowledgeInv, Knows, Sound
  <2> QED
    BY <2>1, <2>2, <2>3, <2>4
<1> QED
  BY <1>1, <1>2, <1>3 DEF After

LEMMA AfterSound ==
  ASSUME KnowledgeInv, NEW n \in Runs, run[n].at = "write", ~Clash(n),
         NEW x \in After(n), NEW y \in After(n), x.id = y.id \/ x.chunk = y.chunk
  PROVE  x = y
<1>1. CASE x.chunk = y.chunk
  BY <1>1 DEF Clash
<1>2. CASE x.id = y.id
  <2>1. ASSUME NEW u \in After(n), NEW v \in After(n), u.id = v.id, u \in rows,
               u.id \notin {p.id : p \in Written(n)}
        PROVE  u = v
    <3>1. v \in rows
      BY <2>1, AfterIs, FreshIds
    <3> QED
      BY <2>1, <3>1 DEF KnowledgeInv, Sound
  <2>2. CASE x \in Written(n) /\ x.id[1] = n
    <3>1. y \in Written(n)
      BY <1>2, <2>1, <2>2, AfterIs
    <3> QED
      BY <1>2, <2>2, <3>1, PutsDiffer DEF Written
  <2>3. CASE ~(x \in rows /\ x.id \notin {p.id : p \in Written(n)}) /\ x.id[1] # n
    <3>1. PICK p \in Written(n), row \in rows, q \in run[n].seen :
                 row.id = p.id /\ q.id = p.id /\ p.id = x.id /\ x = Update(row, q, p)
      <4>1. PICK p \in Written(n) : x \in Updated(n, p)
        BY <2>3, AfterIs, PutIs DEF After, Written
      <4> QED
        BY <4>1, UpdatedIs DEF Updated
    <3>2. PICK s \in Written(n), line \in rows, seen \in run[n].seen :
                 line.id = s.id /\ seen.id = s.id /\ s.id = y.id /\ y = Update(line, seen, s)
      <4>1. ~(y \in rows /\ y.id \notin {w.id : w \in Written(n)}) /\ y.id[1] # n
        BY <1>2, <2>3, <3>1
      <4>2. ~(y \in Written(n) /\ \A z \in run[n].seen : z.id # y.id)
        BY <1>2, <3>1
      <4>3. PICK s \in Written(n) : y \in Updated(n, s)
        BY <4>1, <4>2 DEF After
      <4> QED
        BY <4>3, UpdatedIs DEF Updated
    <3>3. p = s
      BY <1>2, <3>1, <3>2, PutsDiffer DEF Written
    <3>4. row = line /\ q = seen
      BY <1>2, <3>1, <3>2 DEF KnowledgeInv, Knows, Sound
    <3> QED
      BY <3>1, <3>2, <3>3, <3>4
  <2> QED
    BY <1>2, <2>1, <2>2, <2>3, AfterIs
<1> QED
  BY <1>1, <1>2

\* A run that had the rows to itself leaves everything it puts, and what it
\* does not delete.
LEMMA AloneAfter ==
  ASSUME KnowledgeInv, NEW n \in Runs, run[n].at = "write", ~run[n].disturbed
  PROVE  /\ run[n].seen = Existing(n) /\ Puts(n) \subseteq After(n)
         /\ \A x \in After(n) :
              x \in Puts(n) \/ (x \in rows /\ x.id \notin Deletes(n) \cup {p.id : p \in Puts(n)})
<1>1. run[n].seen = Existing(n) /\ run[n].seen \subseteq rows /\ Sound(rows)
  BY DEF KnowledgeInv, Knows, Existing
<1>2. \A p \in Written(n) : p \in Puts(n) /\ p \notin run[n].seen
  BY DEF Written
<1>3. ASSUME NEW p \in Puts(n) PROVE p \in After(n)
  <2>1. CASE p \in Written(n) /\ \A q \in run[n].seen : q.id # p.id
    BY <2>1 DEF After
  <2>2. CASE p \in Written(n) /\ \E q \in run[n].seen : q.id = p.id
    <3>1. PICK q \in run[n].seen : q.id = p.id
      BY <2>2
    <3>2. p = Update(q, q, p) /\ q \in rows
      BY <1>1, <2>2, <3>1, UpdatedIs
    <3>3. p \in Updated(n, p)
      BY <3>1, <3>2 DEF Updated
    <3> QED
      BY <2>2, <3>3 DEF After
  <2>3. CASE p \notin Written(n)
    <3>1. p \in run[n].seen /\ p \in rows
      BY <1>1, <2>3 DEF Written
    <3>2. p.id \notin {q.id : q \in Written(n)}
      BY <1>2, <1>3, <3>1, PutsDiffer
    <3>3. p.id \notin Deletes(n)
      <4>1. CASE Does(n).op = "file"
        <5>1. PICK z : p = Piece(n, z)
          BY <4>1 DEF Puts
        <5> QED
          BY <3>1, <5>1, FreshIds DEF Piece
      <4>2. CASE Does(n).op # "file"
        BY <4>2 DEF Deletes
      <4> QED
        BY <4>1, <4>2
    <3> QED
      BY <3>1, <3>2, <3>3 DEF After
  <2> QED
    BY <2>1, <2>2, <2>3
<1>4. ASSUME NEW x \in After(n)
      PROVE  x \in Puts(n) \/ (x \in rows /\ x.id \notin Deletes(n) \cup {p.id : p \in Puts(n)})
  <2>1. CASE x \in rows /\ x.id \notin Deletes(n) \cup {p.id : p \in Written(n)}
    <3>1. ASSUME NEW p \in Puts(n), p.id = x.id PROVE x = p
      BY <1>1, <2>1, <3>1 DEF Sound, Written
    <3> QED
      BY <2>1, <3>1
  <2>2. CASE x \in Written(n)
    BY <1>2, <2>2
  <2>3. CASE \E p \in Written(n) : x \in Updated(n, p)
    <3>1. PICK p \in Written(n), row \in rows, q \in run[n].seen :
                 row.id = p.id /\ q.id = p.id /\ x = Update(row, q, p)
      BY <2>3 DEF Updated
    <3>2. q = row
      BY <1>1, <3>1 DEF Sound
    <3> QED
      BY <1>2, <3>1, <3>2, UpdatedIs
  <2> QED
    BY <2>1, <2>2, <2>3 DEF After
<1> QED
  BY <1>1, <1>3, <1>4

----------------------------------------------------------------------------
(* Steps *)

\* What others know stays known while the rows stay the same records'.
LEMMA KnowsKept ==
  ASSUME NEW m, Knows(m), run'[m].at = run[m].at, run'[m].does = run[m].does,
         run'[m].seen = run[m].seen, run'[m].byRecord = run[m].byRecord,
         \A k \in Runs : run[k].at = "done" => run'[k].at = "done",
         run[m].at = "write" => \A row \in run[m].seen : row.id[1] \in Runs,
         run[m].at = "write" =>
           \/ rows' = rows /\ run'[m].disturbed = run[m].disturbed
           \/ /\ run'[m].disturbed
              /\ \A q \in run[m].seen, row \in rows' :
                   q.id = row.id => q.record = row.record /\ q.type = row.type
  PROVE  Knows(m)'
<1>1. SUFFICES ASSUME run[m].at = "write" PROVE Knows(m)'
  BY DEF Knows
<1>2. Does(m)' = Does(m)
  BY DEF Does
<1>3. Sound(run[m].seen)'
  BY <1>1 DEF Knows, Sound
<1>4. (run[m].byRecord \in OnePerRecord(run[m].seen))'
  BY <1>1 DEF Knows, OnePerRecord
<1>5. CASE rows' = rows /\ run'[m].disturbed = run[m].disturbed
  <2>1. Existing(m)' = Existing(m)
    BY <1>2, <1>5 DEF Existing
  <2> QED
    BY <1>1, <1>2, <1>3, <1>4, <1>5, <2>1 DEF Knows
<1>6. CASE /\ run'[m].disturbed
           /\ \A q \in run[m].seen, row \in rows' :
                q.id = row.id => q.record = row.record /\ q.type = row.type
  BY <1>1, <1>2, <1>3, <1>4, <1>6 DEF Knows
<1> QED
  BY <1>1, <1>5, <1>6

LEMMA SeenIds ==
  ASSUME KnowledgeInv, NEW m \in Runs
  PROVE  \A row \in run[m].seen : row.id[1] \in Runs
BY SeenIs DEF Rows

\* The states of a run.
LEMMA EndIs ==
  ASSUME NEW at \in {"done", "failed"}
  PROVE  LET r == [New EXCEPT !.at = at] IN
         r \in RunStates /\ r.at = at /\ r.does = None /\ ~r.disturbed
BY DEF New, RunStates

LEMMA DisturbIs ==
  ASSUME NEW x \in RunStates, NEW b \in BOOLEAN
  PROVE  LET r == [x EXCEPT !.disturbed = b] IN
         /\ r \in RunStates /\ r.at = x.at /\ r.does = x.does /\ r.seen = x.seen
         /\ r.byRecord = x.byRecord /\ r.disturbed = b
BY DEF RunStates

LEMMA PlanKeeps == ASSUME KnowledgeInv, SetUpPlan PROVE KnowledgeInv'
<1>1. plan' \in {None, "configured", "seeded"} /\ UNCHANGED <<rows, lock, run, last>>
  BY DEF SetUpPlan
<1>2. TypeOK'
  BY <1>1 DEF KnowledgeInv, TypeOK
<1>3. Sound(rows)' /\ (last.startups => OnlyStarts)'
  BY <1>1 DEF KnowledgeInv, Sound, OnlyStarts, Under, Does
<1>4. \A m \in Runs : Locked(m)'
  BY <1>1 DEF KnowledgeInv, Locked, Under, Does
<1>5. ASSUME NEW m \in Runs PROVE Knows(m)'
  BY <1>1, <1>5, KnowsKept, SeenIds DEF KnowledgeInv
<1> QED
  BY <1>2, <1>3, <1>4, <1>5 DEF KnowledgeInv

LEMMA StartKeeps ==
  ASSUME KnowledgeInv, NEW n \in Runs, NEW x \in DOMAIN Programs, Start(n, x)
  PROVE  KnowledgeInv'
<1> DEFINE at == IF Programs[x].op = "startup" THEN "lock" ELSE "read"
           r == [New EXCEPT !.does = x, !.at = at]
<1>1. /\ run[n].at = "new" /\ run' = [run EXCEPT ![n] = r]
      /\ last' = [last EXCEPT !.startups = @ /\ Programs[x].op = "startup"]
      /\ UNCHANGED <<plan, rows, lock>>
  BY DEF Start
<1>2. at \in {"lock", "read"} /\ (at = "lock" <=> Programs[x].op = "startup")
  OBVIOUS
<1> HIDE DEF at
<1>a. r \in RunStates /\ r.at = at /\ r.does = x /\ ~r.disturbed
  <2>1. /\ x \in DOMAIN Programs \cup {None}
        /\ at \in {"new", "lock", "read", "write", "done", "failed"}
    BY <1>2
  <2> QED
    BY <2>1 DEF New, RunStates
<1> HIDE DEF r
<1>3. run'[n].at = at /\ run'[n].does = x /\ ~run'[n].disturbed
  BY <1>1, <1>a DEF KnowledgeInv, TypeOK
<1>4. \A m \in Runs \ {n} : run'[m] = run[m]
  BY <1>1 DEF KnowledgeInv, TypeOK
<1>5. TypeOK'
  <2>1. last' \in [does : DOMAIN Programs \cup {None}, alone : BOOLEAN, startups : BOOLEAN]
    <3> DEFINE b == last.startups /\ Programs[x].op = "startup"
    <3>1. b \in BOOLEAN /\ last' = [last EXCEPT !.startups = b]
      BY <1>1 DEF KnowledgeInv, TypeOK
    <3> HIDE DEF b
    <3> QED
      BY <3>1 DEF KnowledgeInv, TypeOK
  <2> QED
    BY <1>1, <1>a, <2>1 DEF KnowledgeInv, TypeOK
<1>6. \A m \in Runs : run[m].at = "done" => run'[m].at = "done"
  BY <1>1, <1>4
<1>7. Sound(rows)'
  <2>1. \A row \in rows : row.id[1] \in Runs
    BY DEF KnowledgeInv, TypeOK, Rows
  <2> QED
    BY <1>1, <1>6, <2>1 DEF KnowledgeInv, Sound
<1>8. ASSUME NEW m \in Runs PROVE Locked(m)'
  <2>1. CASE m = n
    <3>1. lock # n
      BY <1>1 DEF KnowledgeInv, Locked
    <3> QED
      BY <1>1, <1>2, <1>3, <2>1, <3>1, KnowledgeAssumption DEF Locked, Under, Does
  <2>2. CASE m # n
    BY <1>1, <1>4, <1>8, <2>2 DEF KnowledgeInv, Locked, Under, Does
  <2> QED
    BY <2>1, <2>2
<1>9. ASSUME NEW m \in Runs PROVE Knows(m)'
  <2>1. CASE m = n
    BY <1>2, <1>3, <2>1 DEF Knows
  <2>2. CASE m # n
    BY <1>1, <1>4, <1>6, <1>9, <2>2, KnowsKept, SeenIds DEF KnowledgeInv
  <2> QED
    BY <2>1, <2>2
<1>10. (last.startups => OnlyStarts)'
  <2>1. last'.startups => last.startups /\ Programs[x].op = "startup"
    BY <1>1 DEF KnowledgeInv, TypeOK
  <2> QED
    BY <1>1, <1>3, <1>4, <2>1 DEF KnowledgeInv, OnlyStarts, Under, Does
<1> QED
  BY <1>5, <1>7, <1>8, <1>9, <1>10 DEF KnowledgeInv

LEMMA LockKeeps ==
  ASSUME KnowledgeInv, NEW n \in Runs, Lock(n)
  PROVE  KnowledgeInv'
<1>1. /\ run[n].at = "lock" /\ lock = None /\ lock' = n
      /\ run' = [run EXCEPT ![n].at = "read"] /\ UNCHANGED <<plan, rows, last>>
  BY DEF Lock
<1>2. /\ run'[n].at = "read" /\ run'[n].does = run[n].does
      /\ run'[n].disturbed = run[n].disturbed /\ \A m \in Runs \ {n} : run'[m] = run[m]
  BY <1>1 DEF KnowledgeInv, TypeOK, RunStates
<1>3. TypeOK'
  BY <1>1 DEF KnowledgeInv, TypeOK, RunStates
<1>4. \A m \in Runs : run[m].at = "done" => run'[m].at = "done"
  BY <1>1, <1>2
<1>5. Sound(rows)'
  <2>1. \A row \in rows : row.id[1] \in Runs
    BY DEF KnowledgeInv, TypeOK, Rows
  <2> QED
    BY <1>1, <1>4, <2>1 DEF KnowledgeInv, Sound
<1>6. ASSUME NEW m \in Runs PROVE Locked(m)'
  <2>1. CASE m = n
    BY <1>1, <1>2, <2>1 DEF KnowledgeInv, Locked, Under, Does
  <2>2. CASE m # n
    BY <1>1, <1>2, <1>6, <2>2, KnowledgeAssumption DEF KnowledgeInv, Locked, Under, Does
  <2> QED
    BY <2>1, <2>2
<1>7. ASSUME NEW m \in Runs PROVE Knows(m)'
  <2>1. CASE m = n
    BY <1>2, <2>1 DEF Knows
  <2>2. CASE m # n
    BY <1>1, <1>2, <1>4, <1>7, <2>2, KnowsKept, SeenIds DEF KnowledgeInv
  <2> QED
    BY <2>1, <2>2
<1>8. (last.startups => OnlyStarts)'
  BY <1>1, <1>2 DEF KnowledgeInv, OnlyStarts, Under, Does
<1> QED
  BY <1>3, <1>5, <1>6, <1>7, <1>8 DEF KnowledgeInv

\* The end of a run, whatever it leaves.
LEMMA FinishKeeps ==
  ASSUME KnowledgeInv, NEW n \in Runs, Under(n), NEW at \in {"done", "failed"}, Finish(n, at),
         plan' = plan, rows' \subseteq Rows,
         last' \in [does : DOMAIN Programs \cup {None}, alone : BOOLEAN, startups : BOOLEAN],
         last'.startups = last.startups,
         at = "failed" => rows' = rows,
         at = "done" => run[n].at = "write",
         \A p, q \in rows' : p.id = q.id \/ p.chunk = q.chunk => p = q,
         \A row \in rows' :
           /\ run[row.id[1]].at = "done" \/ (at = "done" /\ row.id[1] = n)
           /\ row.record # None =>
                /\ row.chunk[1] = row.record
                /\ \E r \in Records : r.record = row.record /\ r.type = row.type,
         at = "done" => \A m \in Runs : run[m].at = "write" =>
           \A q \in run[m].seen, row \in rows' :
             q.id = row.id => q.record = row.record /\ q.type = row.type,
         last.startups =>
           /\ \A row \in rows' : row.record # None
           /\ \A p, q \in rows' : p.record = q.record => p = q
  PROVE  KnowledgeInv'
<1> DEFINE Hit(m) == run[m].disturbed \/ (at = "done" /\ run[m].at = "write")
           end == [New EXCEPT !.at = at]
<1>a. run \in [Runs -> RunStates] /\ end \in RunStates
      /\ end.at = at /\ end.does = None /\ ~end.disturbed
  BY EndIs DEF KnowledgeInv, TypeOK
<1>1. /\ run' = [m \in Runs |-> IF m = n THEN end ELSE [run[m] EXCEPT !.disturbed = Hit(m)]]
      /\ lock' = IF lock = n THEN None ELSE lock
  BY DEF Finish
<1>b. \A m \in Runs : Hit(m) \in BOOLEAN
  BY SeenIs
<1> HIDE DEF end
<1>2. run'[n].at = at /\ run'[n].does = None /\ ~run'[n].disturbed
  BY <1>1, <1>a
<1>3. ASSUME NEW m \in Runs \ {n}
      PROVE  /\ run'[m] \in RunStates
             /\ run'[m].at = run[m].at /\ run'[m].does = run[m].does
             /\ run'[m].seen = run[m].seen /\ run'[m].byRecord = run[m].byRecord
             /\ run'[m].disturbed <=> Hit(m)
  <2> DEFINE b == Hit(m)
             x == run[m]
  <2>1. run'[m] = [x EXCEPT !.disturbed = b] /\ b \in BOOLEAN /\ x \in RunStates
    BY <1>1, <1>3, <1>a, <1>b
  <2> HIDE DEF b, x
  <2>2. /\ run'[m] \in RunStates /\ run'[m].at = x.at /\ run'[m].does = x.does
        /\ run'[m].seen = x.seen /\ run'[m].byRecord = x.byRecord /\ run'[m].disturbed = b
    BY <2>1, DisturbIs
  <2> QED
    BY <2>2 DEF b, x
<1>4. run' \in [Runs -> RunStates]
  BY <1>1, <1>3, <1>a
<1>5. TypeOK'
  BY <1>1, <1>4 DEF KnowledgeInv, TypeOK
<1>6. \A m \in Runs : run[m].at = "done" => run'[m].at = "done"
  BY <1>2, <1>3 DEF Under
<1>7. Sound(rows)'
  <2>1. \A row \in rows' : row.id[1] \in Runs
    BY DEF Rows
  <2> QED
    BY <1>2, <1>6, <2>1 DEF Sound
<1>8. ASSUME NEW m \in Runs PROVE Locked(m)'
  <2>1. CASE m = n
    BY <1>1, <1>2, <2>1, KnowledgeAssumption DEF Locked, Under
  <2>2. CASE m # n
    <3>1. run'[m].at = run[m].at /\ run'[m].does = run[m].does /\ (lock' = m <=> lock = m)
      BY <1>1, <1>3, <1>8, <2>2, KnowledgeAssumption
    <3>2. Locked(m)
      BY <1>8 DEF KnowledgeInv
    <3> QED
      BY <3>1, <3>2 DEF Locked, Under, Does
  <2> QED
    BY <2>1, <2>2
<1>9. ASSUME NEW m \in Runs PROVE Knows(m)'
  <2>1. CASE m = n
    BY <1>2, <2>1 DEF Knows
  <2>2. CASE m # n
    <3>1. Knows(m) /\ run[m].disturbed \in BOOLEAN /\ run'[m].disturbed \in BOOLEAN
      BY <1>4, <1>9, SeenIs DEF KnowledgeInv, RunStates
    <3>2. run[m].at = "write" =>
           \/ rows' = rows /\ run'[m].disturbed = run[m].disturbed
           \/ /\ run'[m].disturbed
              /\ \A q \in run[m].seen, row \in rows' :
                   q.id = row.id => q.record = row.record /\ q.type = row.type
      BY <1>3, <1>9, <2>2, <3>1
    <3> QED
      BY <1>3, <1>6, <1>9, <2>2, <3>1, <3>2, KnowsKept, SeenIds
  <2> QED
    BY <2>1, <2>2
<1>10. (last.startups => OnlyStarts)'
  <2> SUFFICES ASSUME last.startups PROVE OnlyStarts'
    OBVIOUS
  <2>1. OnlyStarts
    BY DEF KnowledgeInv
  <2>2. ASSUME NEW m \in Runs \ {n} PROVE ~run'[m].disturbed
    <3>1. ~(at = "done" /\ run[m].at = "write")
      BY <2>1 DEF KnowledgeInv, Locked, OnlyStarts, Under
    <3> QED
      BY <1>3, <2>1, <3>1 DEF OnlyStarts
  <2>3. \A m \in Runs : Under(m)' => (Does(m).op = "startup")'
    BY <1>2, <1>3, <2>1 DEF OnlyStarts, Under, Does
  <2> QED
    BY <1>2, <2>2, <2>3 DEF OnlyStarts
<1> QED
  BY <1>5, <1>7, <1>8, <1>9, <1>10 DEF KnowledgeInv

LEMMA FailedKeeps ==
  ASSUME KnowledgeInv, NEW n \in Runs, Under(n), Finish(n, "failed"),
         UNCHANGED <<plan, rows, last>>
  PROVE  KnowledgeInv'
<1>1. \A row \in rows : row.id[1] \in Runs
  BY DEF KnowledgeInv, TypeOK, Rows
<1> QED
  BY <1>1, FinishKeeps DEF KnowledgeInv, TypeOK, Sound, OnlyStarts

LEMMA ReadKeeps ==
  ASSUME KnowledgeInv, NEW n \in Runs, Read(n)
  PROVE  KnowledgeInv'
<1>1. run[n].at = "read" /\ Under(n) /\ UNCHANGED <<plan, rows, last>>
  BY DEF Read, Under
<1>2. CASE Finish(n, "failed")
  BY <1>1, <1>2, FailedKeeps
<1>3. CASE /\ \E seen \in {Existing(n)} : \E byRecord \in OnePerRecord(seen) :
                run' = [run EXCEPT ![n] = [@ EXCEPT
                          !.seen = seen, !.byRecord = byRecord, !.at = "write"]]
           /\ UNCHANGED lock
  <2> DEFINE seen == Existing(n)
  <2>1. PICK byRecord \in OnePerRecord(seen) :
               run' = [run EXCEPT ![n] = [run[n] EXCEPT
                         !.seen = seen, !.byRecord = byRecord, !.at = "write"]]
    BY <1>3
  <2>2. seen \subseteq rows /\ byRecord \subseteq seen /\ seen \subseteq Rows
    BY DEF Existing, OnePerRecord, KnowledgeInv, TypeOK
  <2>3. Sound(seen)
    BY <2>2 DEF KnowledgeInv, Sound
  <2>4. \A row \in seen : row.type \in Types(Does(n)) /\ (Does(n).op = "file" \/ row.record # None)
    BY DEF Existing
  <2> DEFINE r == [run[n] EXCEPT !.seen = seen, !.byRecord = byRecord, !.at = "write"]
  <2> HIDE DEF seen
  <2>5. /\ r \in RunStates /\ r.at = "write" /\ r.does = run[n].does
        /\ r.disturbed = run[n].disturbed /\ r.seen = seen /\ r.byRecord = byRecord
    <3>1. run[n] \in RunStates /\ byRecord \in SUBSET Rows /\ seen \in SUBSET Rows
      BY <2>2 DEF KnowledgeInv, TypeOK
    <3> QED
      BY <3>1 DEF RunStates
  <2> HIDE DEF r
  <2>6. run'[n] = r /\ \A m \in Runs \ {n} : run'[m] = run[m]
    BY <2>1 DEF KnowledgeInv, TypeOK, r
  <2>7. TypeOK'
    <3>1. run' = [run EXCEPT ![n] = r]
      BY <2>1 DEF r
    <3> QED
      BY <1>1, <1>3, <2>5, <3>1 DEF KnowledgeInv, TypeOK
  <2>8. \A m \in Runs : run[m].at = "done" => run'[m].at = "done"
    BY <1>1, <2>6
  <2>9. Sound(rows)' /\ Sound(seen)'
    <3>1. \A row \in rows : row.id[1] \in Runs
      BY DEF KnowledgeInv, TypeOK, Rows
    <3>2. seen' = seen
      BY <1>1, <2>5, <2>6 DEF seen, Existing, Does
    <3> QED
      BY <1>1, <2>2, <2>3, <2>8, <3>1, <3>2 DEF KnowledgeInv, Sound
  <2>10. ASSUME NEW m \in Runs PROVE Locked(m)'
    <3>1. Locked(m)
      BY DEF KnowledgeInv
    <3>2. run'[m].does = run[m].does /\ lock' = lock
      BY <1>3, <2>5, <2>6
    <3>3. CASE m = n
      BY <1>1, <2>5, <2>6, <3>1, <3>2, <3>3 DEF Locked, Under, Does
    <3>4. CASE m # n
      BY <2>6, <2>10, <3>1, <3>2, <3>4 DEF Locked, Under, Does
    <3> QED
      BY <3>3, <3>4
  <2>11. ASSUME NEW m \in Runs PROVE Knows(m)'
    <3>1. CASE m = n
      <4>1. Existing(n)' = seen /\ Does(n)' = Does(n) /\ OnePerRecord(seen)' = OnePerRecord(seen)
        <5>1. seen' = seen
          BY <1>1, <2>5, <2>6 DEF seen, Existing, Does
        <5> QED
          BY <1>1, <2>5, <2>6, <5>1 DEF seen, Existing, Does, OnePerRecord
      <4>2. \A row \in seen, q \in rows : q.id = row.id => q = row
        BY <2>2 DEF KnowledgeInv, Sound
      <4>3. run'[n].seen = seen /\ run'[n].byRecord = byRecord /\ seen' = seen
        BY <1>1, <2>5, <2>6 DEF seen, Existing, Does
      <4> QED
        BY <1>1, <2>4, <2>9, <3>1, <4>1, <4>2, <4>3 DEF Knows, Sound
    <3>2. CASE m # n
      BY <1>1, <2>6, <2>8, <2>11, <3>2, KnowsKept, SeenIds DEF KnowledgeInv
    <3> QED
      BY <3>1, <3>2
  <2>12. (last.startups => OnlyStarts)'
    BY <1>1, <2>5, <2>6 DEF KnowledgeInv, OnlyStarts, Under, Does
  <2> QED
    BY <2>7, <2>9, <2>10, <2>11, <2>12 DEF KnowledgeInv
<1> QED
  BY <1>2, <1>3 DEF Read

\* A start that finds a row of its record writes that one.
LEMMA StartReplaces ==
  ASSUME KnowledgeInv, last.startups, NEW n \in Runs, run[n].at = "write"
  PROVE  /\ \A x \in After(n) : x.record # None
         /\ \A x, y \in After(n) : x.record = y.record => x = y
<1>1. OnlyStarts /\ Under(n) /\ Does(n).op = "startup"
  BY DEF KnowledgeInv, OnlyStarts, Under
<1>2. run[n].seen = Existing(n) /\ ~run[n].disturbed
  BY <1>1 DEF KnowledgeInv, Knows, OnlyStarts
<1>3. \A x \in After(n) :
        x \in Puts(n) \/ (x \in rows /\ x.id \notin {p.id : p \in Puts(n)})
  BY <1>2, AloneAfter
<1>4. \A x \in After(n) : x.record # None
  BY <1>1, <1>3, PutIs DEF OnlyStarts
<1>5. ASSUME NEW x \in rows, x.id \notin {p.id : p \in Puts(n)}, NEW p \in Puts(n),
             x.record = p.record
      PROVE  FALSE
  <2>1. p.record # None /\ p.type \in Types(Does(n))
    BY <1>1, PutIs
  <2>2. x.type = p.type
    <3>1. PICK r \in Records : r.record = x.record /\ r.type = x.type
      BY <1>5, <2>1 DEF KnowledgeInv, Sound
    <3>2. PICK s \in Records : s.record = p.record /\ s.type = p.type
      BY <2>1, PutIs
    <3> QED
      BY <1>5, <3>1, <3>2, KnowledgeAssumption DEF Records
  <2>3. x \in run[n].seen
    BY <1>2, <1>5, <2>1, <2>2 DEF Existing
  <2>4. PICK row \in run[n].seen : row.id = p.id /\ row.record = p.record
    BY <1>5, <2>1, <2>3, PutIs
  <2>5. row = x
    BY <1>1, <1>2, <1>5, <2>4 DEF OnlyStarts, Existing
  <2> QED
    BY <1>5, <2>4, <2>5
<1>6. ASSUME NEW x \in After(n), NEW y \in After(n), x.record = y.record
      PROVE  x = y
  <2>1. CASE x \in Puts(n) /\ y \in Puts(n)
    BY <1>4, <1>6, <2>1, PutsDiffer
  <2>2. CASE x \notin Puts(n) /\ y \notin Puts(n)
    BY <1>1, <1>3, <1>6, <2>2 DEF OnlyStarts
  <2>3. CASE x \in Puts(n) /\ y \notin Puts(n)
    BY <1>3, <1>5, <1>6, <2>3
  <2>4. CASE x \notin Puts(n) /\ y \in Puts(n)
    BY <1>3, <1>5, <1>6, <2>4
  <2> QED
    BY <2>1, <2>2, <2>3, <2>4
<1> QED
  BY <1>4, <1>6

LEMMA WriteKeeps ==
  ASSUME KnowledgeInv, NEW n \in Runs, Write(n)
  PROVE  KnowledgeInv'
<1>1. run[n].at = "write" /\ Under(n) /\ plan' = plan
  BY DEF Write, Under
<1>2. CASE Clash(n)
  BY <1>1, <1>2, FailedKeeps DEF Write
<1>3. CASE ~Clash(n)
  <2>1. /\ rows' = After(n) /\ Finish(n, "done")
        /\ last' = [last EXCEPT !.does = run[n].does, !.alone = ~run[n].disturbed]
    BY <1>3 DEF Write
  <2>2. /\ last' \in [does : DOMAIN Programs \cup {None}, alone : BOOLEAN, startups : BOOLEAN]
        /\ last'.startups = last.startups
    BY <2>1, SeenIs DEF KnowledgeInv, TypeOK
  <2>3. rows' \subseteq Rows
    BY <1>1, <2>1, AfterIs
  <2>4. \A p, q \in rows' : p.id = q.id \/ p.chunk = q.chunk => p = q
    BY <1>1, <1>3, <2>1, AfterSound
  <2>5. ASSUME NEW x \in rows'
        PROVE  /\ run[x.id[1]].at = "done" \/ x.id[1] = n
               /\ x.record # None =>
                    /\ x.chunk[1] = x.record
                    /\ \E r \in Records : r.record = x.record /\ r.type = x.type
    <3>1. \A row \in rows : run[row.id[1]].at = "done"
      BY DEF KnowledgeInv, Sound
    <3> QED
      BY <1>1, <2>1, <2>5, <3>1, AfterIs
  <2>6. ASSUME NEW m \in Runs, run[m].at = "write", NEW q \in run[m].seen, NEW x \in rows',
               q.id = x.id
        PROVE  q.record = x.record /\ q.type = x.type
    <3>1. q.id[1] # n
      BY <1>1, <2>6, FreshIds
    <3>2. \A row \in rows : q.id = row.id => q.record = row.record /\ q.type = row.type
      BY <2>6 DEF KnowledgeInv, Knows
    <3>3. \E row \in rows : row.id = x.id /\ row.record = x.record /\ row.type = x.type
      BY <1>1, <2>1, <2>6, <3>1, AfterIs
    <3> QED
      BY <2>6, <3>2, <3>3
  <2>7. last.startups =>
           /\ \A row \in rows' : row.record # None
           /\ \A p, q \in rows' : p.record = q.record => p = q
    BY <1>1, <2>1, StartReplaces
  <2> QED
    BY <1>1, <2>1, <2>2, <2>3, <2>4, <2>5, <2>6, <2>7, FinishKeeps
<1> QED
  BY <1>2, <1>3

LEMMA NextKeeps == KnowledgeInv /\ [Next]_vars => KnowledgeInv'
<1> SUFFICES ASSUME KnowledgeInv, [Next]_vars PROVE KnowledgeInv'
  OBVIOUS
<1>1. ASSUME NEW n \in Runs, Fail(n) PROVE KnowledgeInv'
  BY <1>1, FailedKeeps DEF Fail, Under
<1>2. CASE UNCHANGED vars
  <2>1. UNCHANGED <<plan, rows, lock, run, last>>
    BY <1>2 DEF vars
  <2>2. TypeOK' /\ Sound(rows)' /\ (last.startups => OnlyStarts)'
    BY <2>1 DEF KnowledgeInv, TypeOK, Sound, OnlyStarts, Under, Does
  <2>3. \A m \in Runs : Locked(m)'
    BY <2>1 DEF KnowledgeInv, Locked, Under, Does
  <2>4. ASSUME NEW m \in Runs PROVE Knows(m)'
    BY <2>1, <2>4, KnowsKept, SeenIds DEF KnowledgeInv
  <2> QED
    BY <2>2, <2>3, <2>4 DEF KnowledgeInv
<1> QED
  BY <1>1, <1>2, PlanKeeps, StartKeeps, LockKeeps, ReadKeeps, WriteKeeps DEF Next

LEMMA InitKeeps == Init => KnowledgeInv
<1> SUFFICES ASSUME Init PROVE KnowledgeInv
  OBVIOUS
<1>1. /\ plan = None /\ rows = {} /\ lock = None /\ run = [n \in Runs |-> New]
      /\ last = [does |-> None, alone |-> TRUE, startups |-> TRUE]
  BY DEF Init
<1>2. New \in RunStates /\ New.at = "new" /\ ~New.disturbed /\ New.does = None
  BY DEF New, RunStates
<1>3. TypeOK
  BY <1>1, <1>2 DEF TypeOK
<1> QED
  BY <1>1, <1>2, <1>3, KnowledgeAssumption
     DEF KnowledgeInv, Sound, Locked, Knows, OnlyStarts, Under

\* Rows have one identity and one chunk_id each and stay their record's, the
\* lock is held by exactly the start that reads and writes, and starts alone
\* never make a second row of a record.
THEOREM KnowledgeInvariant == Spec => []KnowledgeInv
BY InitKeeps, NextKeeps, PTL DEF Spec

----------------------------------------------------------------------------
(* What the latest commit leaves *)

LEMMA Commits ==
  ASSUME KnowledgeInv, NEW n \in Runs, Write(n), ~Clash(n)
  PROVE  /\ run[n].at = "write" /\ Under(n) /\ rows' = After(n)
         /\ last'.does = run[n].does /\ last'.startups = last.startups
         /\ last'.alone = ~run[n].disturbed /\ LastDoes' = Does(n)
<1>1. last' = [last EXCEPT !.does = run[n].does, !.alone = ~run[n].disturbed]
  BY DEF Write
<1>2. last \in [does : DOMAIN Programs \cup {None}, alone : BOOLEAN, startups : BOOLEAN]
  BY DEF KnowledgeInv, TypeOK
<1>3. /\ last'.does = run[n].does /\ last'.startups = last.startups
      /\ last'.alone = ~run[n].disturbed
  BY <1>1, <1>2
<1> QED
  BY <1>3 DEF Write, Under, LastDoes, Does

\* Any other step leaves the rows, and what is known of the latest commit,
\* except that others than starts have begun.
LEMMA OthersOnly ==
  ASSUME KnowledgeInv, [Next]_vars, \A n \in Runs : Write(n) => Clash(n)
  PROVE  /\ rows' = rows /\ last'.does = last.does /\ last'.alone = last.alone
         /\ last'.startups => last.startups
<1>1. last \in [does : DOMAIN Programs \cup {None}, alone : BOOLEAN, startups : BOOLEAN]
  BY DEF KnowledgeInv, TypeOK
<1>2. ASSUME NEW n \in Runs, NEW x \in DOMAIN Programs, Start(n, x)
      PROVE  /\ rows' = rows /\ last'.does = last.does /\ last'.alone = last.alone
             /\ last'.startups => last.startups
  BY <1>1, <1>2 DEF Start
<1>3. CASE UNCHANGED <<rows, last>>
  BY <1>3
<1>4. CASE Next /\ ~UNCHANGED <<rows, last>>
  BY <1>2, <1>4 DEF Next, SetUpPlan, Lock, Read, Write, Fail
<1> QED
  BY <1>3, <1>4 DEF vars

\* Each record of a run that had the rows to itself has the row it wants.
LEMMA RecordThere ==
  ASSUME KnowledgeInv, NEW n \in Runs, run[n].at = "write", ~run[n].disturbed,
         NEW r \in Does(n).records
  PROVE  \E id \in Runs \X Names :
           RowOf(r, id, Does(n).model) \in After(n) /\ RowOf(r, id, Does(n).model) \in Puts(n)
<1>1. Under(n)
  BY DEF Under
<1>2. Does(n).op # "file"
  BY <1>1, DoesIs
<1>3. PICK id : Wanted(n, r) = {RowOf(r, id, Does(n).model)}
  BY <1>2, WantedIs
<1>4. RowOf(r, id, Does(n).model) \in Puts(n)
  BY <1>2, <1>3 DEF Puts
<1>5. RowOf(r, id, Does(n).model) \in Rows /\ RowOf(r, id, Does(n).model).id = id
  BY <1>4, PutIs DEF RowOf
<1> QED
  BY <1>4, <1>5, AloneAfter DEF Rows

\* A seed run that had the rows to itself leaves every record as its file has
\* it (ingest_records).
THEOREM SeedCompleteHolds == Spec => []SeedComplete
<1>1. Init => SeedComplete
  BY DEF Init, SeedComplete
<1>2. KnowledgeInv /\ SeedComplete /\ [Next]_vars => SeedComplete'
  <2> SUFFICES ASSUME KnowledgeInv, SeedComplete, [Next]_vars PROVE SeedComplete'
    OBVIOUS
  <2>1. ASSUME NEW n \in Runs, Write(n), ~Clash(n) PROVE SeedComplete'
    <3> SUFFICES ASSUME last'.alone, NEW r \in LastDoes'.records
                 PROVE  \E row \in rows' : row = RowOf(r, row.id, LastDoes'.model)
      BY DEF SeedComplete, RowOf, VectorId
    <3>1. PICK id \in Runs \X Names : RowOf(r, id, Does(n).model) \in rows'
      BY <2>1, Commits, RecordThere
    <3>2. RowOf(r, id, Does(n).model).id = id
      BY DEF RowOf
    <3> QED
      BY <2>1, <3>1, <3>2, Commits
  <2>2. CASE \A n \in Runs : Write(n) => Clash(n)
    BY <2>2, OthersOnly DEF SeedComplete, LastDoes, RowOf, VectorId
  <2> QED
    BY <2>1, <2>2
<1> QED
  BY <1>1, <1>2, KnowledgeInvariant, PTL DEF Spec

\* While nothing but starts has run, of one deployment or of two, each has the
\* rows to itself, and the chat finds of a record what the latest start has
\* (ingest_configured_seed).
THEOREM StartupsAgreeHolds == Spec => []StartupsAgree
<1>1. Init => StartupsAgree
  BY DEF Init, StartupsAgree
<1>2. KnowledgeInv /\ StartupsAgree /\ [Next]_vars => StartupsAgree'
  <2> SUFFICES ASSUME KnowledgeInv, StartupsAgree, [Next]_vars PROVE StartupsAgree'
    OBVIOUS
  <2>1. ASSUME NEW n \in Runs, Write(n), ~Clash(n) PROVE StartupsAgree'
    <3> SUFFICES ASSUME last'.startups
                 PROVE  /\ last'.alone
                        /\ \A r \in LastDoes'.records :
                             {row.text : row \in {q \in Searchable' : q.record = r.record}} =
                             IF r.enabled THEN {r.text} ELSE {}
      BY DEF StartupsAgree
    <3>1. /\ run[n].at = "write" /\ Under(n) /\ rows' = After(n) /\ last.startups
          /\ last'.alone = ~run[n].disturbed /\ LastDoes' = Does(n)
      BY <2>1, Commits
    <3>2. ~run[n].disturbed /\ Does(n).op = "startup"
      BY <3>1 DEF KnowledgeInv, OnlyStarts
    <3>3. Does(n).model = Configured
      BY <3>1, <3>2, DoesIs
    <3>4. ASSUME NEW r \in Does(n).records
          PROVE  {row.text : row \in {q \in Searchable' : q.record = r.record}} =
                 IF r.enabled THEN {r.text} ELSE {}
      <4>1. PICK id \in Runs \X Names : RowOf(r, id, Configured) \in After(n)
        BY <3>1, <3>2, <3>3, <3>4, RecordThere
      <4>2. \A q \in After(n) : q.record = r.record => q = RowOf(r, id, Configured)
        BY <3>1, <4>1, StartReplaces DEF RowOf
      <4>3. RowOf(r, id, Configured) \in Searchable' <=> r.enabled
        BY <3>1, <4>1 DEF Searchable, RowOf
      <4>4. Searchable' \subseteq After(n)
        BY <3>1 DEF Searchable
      <4>5. RowOf(r, id, Configured).record = r.record /\ RowOf(r, id, Configured).text = r.text
        BY DEF RowOf
      <4> QED
        BY <4>2, <4>3, <4>4, <4>5
    <3> QED
      BY <3>1, <3>2, <3>4
  <2>2. CASE \A n \in Runs : Write(n) => Clash(n)
    BY <2>2, OthersOnly DEF StartupsAgree, LastDoes, Searchable
  <2> QED
    BY <2>1, <2>2
<1> QED
  BY <1>1, <1>2, KnowledgeInvariant, PTL DEF Spec

\* With --sync a run that had the rows to itself leaves nothing else in its
\* datasets, and the file's command nothing of its type but its pieces.
THEOREM SyncExactHolds == Spec => []SyncExact
<1>1. Init => SyncExact
  BY DEF Init, SyncExact
<1>2. KnowledgeInv /\ SyncExact /\ [Next]_vars => SyncExact'
  <2> SUFFICES ASSUME KnowledgeInv, SyncExact, [Next]_vars PROVE SyncExact'
    OBVIOUS
  <2>1. ASSUME NEW n \in Runs, Write(n), ~Clash(n) PROVE SyncExact'
    <3>1. /\ run[n].at = "write" /\ Under(n) /\ rows' = After(n)
          /\ last'.alone = ~run[n].disturbed /\ LastDoes' = Does(n)
      BY <2>1, Commits
    <3> DEFINE mine == {row \in After(n) : row.type \in Types(Does(n))}
    <3>2. ASSUME ~run[n].disturbed, Does(n).op = "file"
          PROVE  {row.chunk : row \in mine} = {<<p, 0>> : p \in Does(n).pieces}
      <4>1. run[n].seen = {row \in rows : row.type = "faq"} /\ Types(Does(n)) = {"faq"}
        BY <3>1, <3>2, AloneAfter DEF Existing, Types
      <4>2. ASSUME NEW p \in Does(n).pieces
            PROVE  \E row \in mine : row.chunk = <<p, 0>>
        <5>1. p \in Pieces
          BY <3>1, <4>2, DoesIs
        <5>2. CASE \A row \in run[n].seen : row.chunk # <<p, 0>>
          <6>1. Piece(n, p) \in Puts(n)
            BY <3>2, <5>1, <5>2, PieceIs DEF Puts
          <6> QED
            BY <3>1, <3>2, <4>1, <5>1, <6>1, PieceIs, AloneAfter
        <5>3. ASSUME NEW row \in run[n].seen, row.chunk = <<p, 0>>
              PROVE  row \in mine
          <6>1. row \in rows /\ row.type = "faq"
            BY <4>1, <5>3
          <6>2. row.id \notin Deletes(n)
            <7>1. \A q \in rows : q.id = row.id => q = row
              BY <6>1 DEF KnowledgeInv, Sound
            <7> QED
              BY <3>2, <5>3, <7>1 DEF Deletes
          <6>3. \A q \in Written(n) : q.id # row.id
            <7>1. row.id[1] # n
              BY <3>1, <5>3, FreshIds
            <7>2. \A q \in Puts(n) : q.id[1] = n
              BY <3>2 DEF Puts, Piece
            <7> QED
              BY <7>1, <7>2 DEF Written
          <6> QED
            BY <4>1, <6>1, <6>2, <6>3 DEF After
        <5> QED
          BY <5>2, <5>3
      <4>3. ASSUME NEW row \in mine
            PROVE  \E p \in Does(n).pieces : row.chunk = <<p, 0>>
        <5>1. CASE row \in Puts(n)
          BY <3>2, <5>1 DEF Puts, Piece
        <5>2. CASE row \in rows /\ row.id \notin Deletes(n)
          <6>1. row \in run[n].seen
            BY <4>1, <5>2
          <6> QED
            BY <3>2, <5>2, <6>1 DEF Deletes
        <5> QED
          BY <3>1, <3>2, <4>3, <5>1, <5>2, AloneAfter
      <4> QED
        BY <4>2, <4>3
    <3>3. ASSUME ~run[n].disturbed, Does(n).op # "file", Does(n).sync
          PROVE  {row.chunk : row \in {q \in mine : q.record # None}} =
                 {VectorId(r) : r \in Does(n).records}
      <4>1. ASSUME NEW r \in Does(n).records
            PROVE  \E row \in mine : row.record # None /\ row.chunk = VectorId(r)
        <5>1. PICK id \in Runs \X Names : RowOf(r, id, Does(n).model) \in After(n)
          BY <3>1, <3>3, <4>1, RecordThere
        <5> DEFINE row == RowOf(r, id, Does(n).model)
        <5>2. row.type = r.type /\ row.record # None /\ row.chunk = VectorId(r)
          BY <3>1, <4>1, RowOfIs
        <5>3. r.type \in Types(Does(n))
          BY <3>3 DEF Types
        <5> QED
          BY <5>1, <5>2, <5>3
      <4>2. ASSUME NEW row \in mine, row.record # None
            PROVE  \E r \in Does(n).records : row.chunk = VectorId(r)
        <5>1. CASE row \in Puts(n)
          <6>1. PICK r \in Does(n).records : row \in Wanted(n, r)
            BY <3>3, <5>1 DEF Puts
          <6> QED
            BY <3>1, <3>3, <6>1, WantedIs DEF RowOf
        <5>2. CASE row \in rows /\ row.id \notin Deletes(n) \cup {p.id : p \in Puts(n)}
          <6>1. row \in run[n].seen
            BY <3>1, <3>3, <4>2, <5>2, AloneAfter DEF Existing
          <6> QED
            BY <3>3, <5>2, <6>1 DEF Deletes
        <5> QED
          BY <3>1, <3>3, <4>2, <5>1, <5>2, AloneAfter
      <4> QED
        BY <4>1, <4>2
    <3>4. Types(LastDoes)' = Types(Does(n)) /\ \A r : VectorId(r)' = VectorId(r)
      BY <3>1 DEF Types, VectorId
    <3> HIDE DEF mine
    <3>5. mine = {row \in rows' : row.type \in Types(LastDoes)'}
      BY <3>1, <3>4 DEF mine
    <3> QED
      BY <3>1, <3>2, <3>3, <3>4, <3>5 DEF SyncExact
  <2>2. CASE \A n \in Runs : Write(n) => Clash(n)
    BY <2>2, OthersOnly DEF SyncExact, LastDoes, Types, VectorId
  <2> QED
    BY <2>1, <2>2
<1> QED
  BY <1>1, <1>2, KnowledgeInvariant, PTL DEF Spec

\* Only its own commit makes a run that writes one that is done.
LEMMA DoneIs ==
  ASSUME KnowledgeInv, [Next]_vars, NEW n \in Runs, run[n].at = "write", run'[n].at = "done"
  PROVE  Write(n) /\ ~Clash(n)
<1>1. run \in [Runs -> RunStates]
  BY DEF KnowledgeInv, TypeOK
<1>2. \A m \in Runs : Finish(m, "failed") => run'[n].at # "done"
  <2>1. ASSUME NEW m \in Runs, Finish(m, "failed") PROVE run'[n].at # "done"
    <3>1. m = n => run'[n].at = "failed"
      BY <2>1 DEF Finish, New
    <3>2. m # n => run'[n] = [run[n] EXCEPT !.disturbed = run[n].disturbed]
      BY <2>1 DEF Finish
    <3>3. run[n] \in RunStates
      BY <1>1
    <3> QED
      BY <3>1, <3>2, <3>3 DEF RunStates
  <2> QED
    BY <2>1
<1>3. \A m \in Runs, x \in DOMAIN Programs : Start(m, x) => run'[n] = run[n]
  BY <1>1 DEF Start
<1>4. \A m \in Runs : Lock(m) => run'[n] = run[n]
  BY <1>1 DEF Lock
<1>5. \A m \in Runs : Read(m) => run'[n] = run[n] \/ Finish(m, "failed")
  BY <1>1 DEF Read
<1>6. ASSUME NEW m \in Runs, Write(m) PROVE m = n /\ ~Clash(n)
  <2>1. Finish(m, "failed") \/ (Finish(m, "done") /\ ~Clash(m))
    BY <1>6 DEF Write
  <2>2. ASSUME Finish(m, "done"), m # n PROVE FALSE
    <3>1. run'[n].at = run[n].at
      BY <1>1, <2>2, DisturbIs, SeenIs DEF Finish
    <3> QED
      BY <3>1
  <2> QED
    BY <1>2, <2>1, <2>2
<1>7. \A m \in Runs : Fail(m) => Finish(m, "failed")
  BY DEF Fail
<1> QED
  BY <1>2, <1>3, <1>4, <1>5, <1>6, <1>7 DEF Next, SetUpPlan, vars

\* No seed run touches what the file brought or what another dataset brought.
THEOREM OthersKeptHolds == Spec => OthersKept
<1>1. ASSUME KnowledgeInv, [Next]_vars
      PROVE  [\A n \in Runs :
                run[n].at = "write" /\ run'[n].at = "done" /\ Does(n).op # "file" =>
                  \A row \in rows \cup rows' :
                    row.record = None \/ row.type \notin Types(Does(n)) => row \in rows \cap rows']_vars
  <2> SUFFICES ASSUME NEW n \in Runs, run[n].at = "write", run'[n].at = "done",
                      Does(n).op # "file", NEW row \in rows \cup rows',
                      row.record = None \/ row.type \notin Types(Does(n))
               PROVE  row \in rows \cap rows'
    OBVIOUS
  <2>1. rows' = After(n)
    BY <1>1, DoneIs, Commits
  <2>2. \A p \in Written(n) : p.record # None /\ p.type \in Types(Does(n))
    BY <1>1, PutIs DEF Written
  <2>3. CASE row \in rows
    <3>1. \A q \in run[n].seen : q.id # row.id
      BY <1>1, <2>3 DEF KnowledgeInv, Knows
    <3>2. row.id \notin Deletes(n)
      BY <3>1 DEF Deletes
    <3>3. ASSUME NEW p \in Written(n) PROVE p.id # row.id
      BY <1>1, <2>3, <3>1, FreshIds, PutIs DEF Written
    <3>4. row \in After(n)
      BY <2>3, <3>2, <3>3 DEF After
    <3> QED
      BY <2>1, <2>3, <3>4
  <2>4. CASE row \in After(n)
    BY <1>1, <2>1, <2>2, <2>4, AfterIs
  <2> QED
    BY <2>1, <2>3, <2>4
<1> QED
  BY <1>1, KnowledgeInvariant, PTL DEF Spec, OthersKept
=============================================================================
