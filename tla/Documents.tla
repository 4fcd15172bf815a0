------------------------------ MODULE Documents ------------------------------
(***************************************************************************)
(* Documents: the document of an issue under one key, its revisions, and    *)
(* the transactions that write and delete it (documents.ts).                *)
(*                                                                         *)
(* Transactions run at PostgreSQL's default level: a statement sees what    *)
(* was committed before it, waits for a row or an index entry that another  *)
(* transaction has written, and goes on when that one is over.  Nothing     *)
(* locks the row that upsertIssueDocument reads first; the unique index on  *)
(* (document, revision number) and the reference of a revision to its       *)
(* document have to hold writers apart.  Body, title and authors are left   *)
(* out; a revision is its number and the revision its writer had read.      *)
(***************************************************************************)
EXTENDS Naturals

CONSTANTS
    Docs,         \* documents ever created for the key
    Writers,      \* requests in flight
    MaxRevisions, \* bound: revisions of a document
    NoDoc

DocumentsAssumption == MaxRevisions \in Nat \ {0} /\ NoDoc \notin Docs

VARIABLES
    link,   \* the document of the key in issue_documents
    latest, \* documents.latest_revision_number; 0: there is no such document
    base,   \* the revisions of each document: what the writer of each had read
    taken,  \* documents whose id is taken
    tx      \* transactions in flight

documentVars == <<link, latest, base, taken, tx>>

Numbers == 1..MaxRevisions
NoRevision == [doc |-> NoDoc, number |-> 0]
Revisions == {NoRevision} \cup [doc : Docs, number : Numbers]

\* read: baseRevisionId of the request; doc, number: what the select found.
Tx(pc, op, read, doc) == [pc |-> pc, op |-> op, read |-> read, doc |-> doc, number |-> 0]
NoTx == Tx("idle", "none", NoRevision, NoDoc)

DocumentsInit ==
    /\ link = NoDoc
    /\ latest = [d \in Docs |-> 0]
    /\ base = [d \in Docs |-> [n \in Numbers |-> NoRevision]]
    /\ taken = {}
    /\ tx = [w \in Writers |-> NoTx]

TxAt(w, pc) == tx[w].pc = pc
TxGo(w, pc) == tx' = [tx EXCEPT ![w].pc = pc]
EndTx(w) == tx' = [tx EXCEPT ![w] = NoTx]

\* The locks of other transactions: on the entry of a revision and the row of its
\* document, from its insert on; on the row of the link; on that of the document.
Writing(u) == tx[u].pc \in {"update", "touch", "commit"}
Creating(u) == tx[u].pc = "publish"
Unlinking(u) == tx[u].pc \in {"drop", "forget"} /\ tx[u].doc = link
Dropping(u) == tx[u].pc = "forget"
Others(w) == {u \in Writers \ {w} : tx[u].doc = tx[w].doc}

-----------------------------------------------------------------------------
(* upsertIssueDocument *)

\* A writer names the revision it has read, if any.
BeginUpsert(w, read) ==
    /\ TxAt(w, "idle")
    /\ read # NoRevision => read.doc \in Docs /\ latest[read.doc] >= read.number
    /\ tx' = [tx EXCEPT ![w] = Tx("select", "upsert", read, NoDoc)]
    /\ UNCHANGED <<link, latest, base, taken>>

\* Mutant: baseRevisionId is only asked for.
SelectAnyBase(w) ==
    /\ TxAt(w, "select") /\ tx[w].op = "upsert"
    /\ IF (link = NoDoc) = (tx[w].read = NoRevision)
       THEN tx' = [tx EXCEPT ![w].pc = IF link = NoDoc THEN "create" ELSE "insert",
                             ![w].doc = link,
                             ![w].number = IF link = NoDoc THEN 0 ELSE latest[link]]
       ELSE EndTx(w)
    /\ UNCHANGED <<link, latest, base, taken>>

\* The document of the key as it is committed: an update needs its latest
\* revision, a creation none.
Select(w) ==
    /\ TxAt(w, "select") /\ tx[w].op = "upsert"
    /\ LET current == IF link = NoDoc THEN NoRevision ELSE [doc |-> link, number |-> latest[link]] IN
        IF tx[w].read = current
        THEN tx' = [tx EXCEPT ![w].pc = IF link = NoDoc THEN "create" ELSE "insert",
                              ![w].doc = link, ![w].number = current.number]
        ELSE EndTx(w)
    /\ UNCHANGED <<link, latest, base, taken>>

\* The next revision: it waits for one of the same number that is not committed
\* and for a deletion of its document, and fails if either was committed.
InsertRevision(w) ==
    /\ TxAt(w, "insert") /\ tx[w].number < MaxRevisions
    /\ \A u \in Others(w) : ~Dropping(u)
    /\ \A u \in Others(w) : ~(Writing(u) /\ tx[u].number = tx[w].number)
    /\ IF latest[tx[w].doc] = tx[w].number THEN TxGo(w, "update") ELSE EndTx(w)
    /\ UNCHANGED <<link, latest, base, taken>>

\* The rows of the document and of its link are updated.
UpdateDocument(w) ==
    /\ TxAt(w, "update")
    /\ \A u \in Others(w) : tx[u].pc \notin {"touch", "commit"}
    /\ TxGo(w, "touch")
    /\ UNCHANGED <<link, latest, base, taken>>

TouchLink(w) ==
    /\ TxAt(w, "touch")
    /\ \A u \in Others(w) : ~Unlinking(u)
    /\ TxGo(w, "commit")
    /\ UNCHANGED <<link, latest, base, taken>>

CommitRevision(w) ==
    /\ TxAt(w, "commit")
    /\ LET d == tx[w].doc
           n == tx[w].number + 1
       IN /\ latest' = [latest EXCEPT ![d] = n]
          /\ base' = [base EXCEPT ![d][n] = tx[w].read]
    /\ EndTx(w)
    /\ UNCHANGED <<link, taken>>

\* A new document and its first revision, which nobody sees yet, and its link: it
\* waits for another new link and for the deletion of an old one, and fails if
\* there is one now.
CreateDocument(w) ==
    /\ TxAt(w, "create")
    /\ \A u \in Writers \ {w} : ~Creating(u) /\ ~Unlinking(u)
    /\ IF link # NoDoc THEN EndTx(w) /\ UNCHANGED taken
       ELSE \E d \in Docs \ taken :
                /\ taken' = taken \cup {d}
                /\ tx' = [tx EXCEPT ![w].pc = "publish", ![w].doc = d]
    /\ UNCHANGED <<link, latest, base>>

CommitDocument(w) ==
    /\ TxAt(w, "publish")
    /\ link' = tx[w].doc
    /\ latest' = [latest EXCEPT ![tx[w].doc] = 1]
    /\ EndTx(w)
    /\ UNCHANGED <<base, taken>>

-----------------------------------------------------------------------------
(* deleteIssueDocument *)

BeginDelete(w) ==
    /\ TxAt(w, "idle") /\ link # NoDoc
    /\ tx' = [tx EXCEPT ![w] = Tx("unlink", "delete", NoRevision, link)]
    /\ UNCHANGED <<link, latest, base, taken>>

\* The link, then the document, which waits for writers that refer to it.  Rows that
\* are gone are no error.
DeleteLink(w) ==
    /\ TxAt(w, "unlink")
    /\ \A u \in Others(w) : ~Unlinking(u)
    /\ \A u \in Others(w) : ~TxAt(u, "commit")
    /\ TxGo(w, "drop")
    /\ UNCHANGED <<link, latest, base, taken>>

DeleteDocument(w) ==
    /\ TxAt(w, "drop")
    /\ \A u \in Others(w) : ~Writing(u)
    /\ TxGo(w, "forget")
    /\ UNCHANGED <<link, latest, base, taken>>

\* The revisions go with their document.
CommitDelete(w) ==
    /\ TxAt(w, "forget")
    /\ link' = IF link = tx[w].doc THEN NoDoc ELSE link
    /\ latest' = [latest EXCEPT ![tx[w].doc] = 0]
    /\ base' = [base EXCEPT ![tx[w].doc] = [n \in Numbers |-> NoRevision]]
    /\ EndTx(w)
    /\ UNCHANGED taken

\* A statement fails, the server crashes, or the transaction is the one that
\* PostgreSQL ends when a writer, which has the document and needs the link, and a
\* deletion, which has the link and needs the document, wait for each other.
Abort(w) ==
    /\ ~TxAt(w, "idle")
    /\ EndTx(w)
    /\ UNCHANGED <<link, latest, base, taken>>

-----------------------------------------------------------------------------
TxStep(w) ==
    \/ Select(w) \/ InsertRevision(w) \/ UpdateDocument(w) \/ TouchLink(w) \/ CommitRevision(w)
    \/ CreateDocument(w) \/ CommitDocument(w)
    \/ BeginDelete(w) \/ DeleteLink(w) \/ DeleteDocument(w) \/ CommitDelete(w)
    \/ Abort(w)

DocumentsNext == \E w \in Writers : TxStep(w) \/ \E read \in Revisions : BeginUpsert(w, read)

DocumentsSpec == DocumentsInit /\ [][DocumentsNext]_documentVars

-----------------------------------------------------------------------------
(* Properties *)

PCs == {"idle", "select", "create", "insert", "update", "touch", "commit", "publish",
        "unlink", "drop", "forget"}

Transactions == [pc : PCs, op : {"none", "upsert", "delete"}, read : Revisions,
                 doc : Docs \cup {NoDoc}, number : 0..MaxRevisions]

DocumentsTypeOK ==
    /\ link \in Docs \cup {NoDoc}
    /\ latest \in [Docs -> 0..MaxRevisions]
    /\ base \in [Docs -> [Numbers -> Revisions]]
    /\ taken \subseteq Docs
    /\ tx \in [Writers -> Transactions]

\* No update is lost: whoever wrote a revision had read the one before it, although
\* the check and the insert are separate statements and nothing locks the row; and
\* the key names a document that is there, no other one being left behind, however
\* creations, deletions and updates overlap.
RevisionsFollow ==
    \A d \in Docs : \A n \in 2..latest[d] : base[d][n] = [doc |-> d, number |-> n - 1]
OneDocumentPerKey == \A d \in Docs : latest[d] > 0 <=> link = d
DocumentsAreWhole == RevisionsFollow /\ OneDocumentPerKey
=============================================================================
