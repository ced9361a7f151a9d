---------------------------- MODULE InventoryFeed ---------------------------
(***************************************************************************)
(* Planning data that comes in as files, and the inventory position that   *)
(* follows from it: a file is previewed and committed row by row, each     *)
(* stock row that is applied publishes an event, and the consumer of the   *)
(* events keeps the position of the newest observation.                    *)
(***************************************************************************)
EXTENDS Integers, Sequences, FiniteSets, FiniteSetsExt

CONSTANTS
  Files,        \* contents: sets of rows, at most one per kind and key
  Materials,    \* codes of materials
  MaxFeeds      \* bound: previews

\* A row has the key it has in its source; "says" is the time of a stock
\* observation or the quantity of an order, and 0 when it cannot be used.
RowKinds == {"material", "stock", "order"}

ASSUME FeedAssumption ==
  /\ \A f \in Files : \A row \in f : row.kind \in RowKinds /\ row.material \in Materials /\ row.says \in Nat
  /\ MaxFeeds \in Nat

VARIABLES
  masters,    \* codes of the materials there are
  facts,      \* <<kind, key>> -> material and what the record reports
  receipts,   \* <<kind, key>> -> the last row that was applied
  feeds,      \* batches: file, status, outcome of each row
  unread,      \* inventory events that have not been consumed: keys of observations
  position    \* time of the observation the position of a material shows; 0: none

feedVars == <<masters, facts, receipts, feeds, unread, position>>

-----------------------------------------------------------------------------
FeedInit ==
  /\ masters = {} /\ facts = <<>> /\ receipts = <<>> /\ feeds = <<>>
  /\ unread = {} /\ position = [m \in Materials |-> 0]

Id(row) == <<row.kind, row.key>>

\* Only a file that was applied completely is recognised when it comes again.
PreviewFeed(file) ==
  /\ Len(feeds) < MaxFeeds
  /\ ~ \E i \in DOMAIN feeds : feeds[i].file = file /\ feeds[i].status = "completed"
  /\ feeds' = Append(feeds, [file |-> file, status |-> "previewed", outcome |-> <<>>])
  /\ UNCHANGED <<masters, facts, receipts, unread, position>>

-----------------------------------------------------------------------------
(* commit: masters before what refers to them.                             *)

\* The materials there are once the rows of the file have been applied.
KnownWith(file) == masters \union {row.material : row \in {r \in file : r.kind = "material" /\ r.says # 0}}

SameAsReceipt(row) == Id(row) \in DOMAIN receipts /\ receipts[Id(row)] = row

Outcome(row, file) ==
  IF row.says = 0 THEN "error"
  ELSE IF SameAsReceipt(row) THEN "unchanged"
  ELSE IF row.material \notin KnownWith(file) THEN "error" ELSE "applied"

Applied(file) == {row \in file : Outcome(row, file) = "applied"}

\* Observations and orders that exist under the key are returned as they are.
FactsWith(applied) ==
  [id \in DOMAIN facts \union {Id(row) : row \in applied} |->
     IF id \in DOMAIN facts THEN facts[id]
     ELSE LET row == CHOOSE r \in applied : Id(r) = id
          IN [material |-> row.material, says |-> row.says]]

ReceiptsWith(applied) ==
  [id \in DOMAIN receipts \union {Id(row) : row \in applied} |->
     IF \E row \in applied : Id(row) = id THEN CHOOSE row \in applied : Id(row) = id ELSE receipts[id]]

\* The key of a material stays mapped to its material: a row that maps it to
\* another stops the request, nothing is applied, and the file stays previewed.
Remapped(applied) ==
  \E row \in applied :
    row.kind = "material" /\ Id(row) \in DOMAIN receipts /\ receipts[Id(row)].material # row.material

CommitFeed(i) ==
  LET file == feeds[i].file
      applied == Applied(file)
  IN /\ feeds[i].status = "previewed"
     /\ ~ Remapped(applied)
     /\ masters' = KnownWith(file)
     /\ facts' = FactsWith({row \in applied : row.kind # "material"})
     /\ receipts' = ReceiptsWith(applied)
     /\ unread' = unread \union {row.key : row \in {r \in applied : r.kind = "stock"}}
     /\ feeds' = [feeds EXCEPT ![i] =
          [@ EXCEPT !.outcome = [row \in file |-> Outcome(row, file)],
                    !.status = IF \E row \in file : Outcome(row, file) = "error"
                                 THEN "partially_completed" ELSE "completed"]]
     /\ UNCHANGED position

-----------------------------------------------------------------------------
(* The consumer of inventory events.                                       *)

\* Mutant: the observation that is unread last is shown.
ShowsAlways(o) == TRUE

Shows(o) == o.says >= position[o.material]

Hear(key) ==
  LET o == facts[<<"stock", key>>]
  IN /\ unread' = unread \ {key}
     /\ position' = IF Shows(o) THEN [position EXCEPT ![o.material] = o.says] ELSE position
     /\ UNCHANGED <<masters, facts, receipts, feeds>>

FeedNext ==
  \/ \E file \in Files : PreviewFeed(file)
  \/ \E i \in DOMAIN feeds : CommitFeed(i)
  \/ \E key \in unread : Hear(key)

FeedSpec == FeedInit /\ [][FeedNext]_feedVars

-----------------------------------------------------------------------------
ObservedOf(m) ==
  {facts[id].says : id \in {i \in DOMAIN facts : i[1] = "stock" /\ facts[i].material = m}}

\* In whatever order files come in and events are consumed, the position is
\* that of the newest observation once every event has been consumed.
PositionIsNewest ==
  unread = {} => \A m \in Materials : position[m] = Max(ObservedOf(m) \union {0})

\* What is reported as applied is what the records say: a corrected row is
\* not, when its observation or order exists already.
AppliedIsRecorded ==
  [][\A i \in DOMAIN feeds : feeds[i].status = "previewed" /\ feeds'[i].status # "previewed" =>
       \A row \in {r \in feeds[i].file : r.kind # "material"} :
         feeds'[i].outcome[row] \in {"applied", "unchanged"} => facts'[Id(row)].says = row.says]_feedVars
=============================================================================
