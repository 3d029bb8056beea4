------------------------------ MODULE Publishing ------------------------------
(***************************************************************************)
(* How a product gets on sale: POST /api/admin/products makes a draft,     *)
(* POST /api/admin/assets/upload scans a file, puts it in the object store *)
(* and then writes its row, and POST /api/admin/assets/:id/publish         *)
(* publishes the asset and its product in one transaction.                 *)
(*                                                                         *)
(* The store and the database are changed in steps of their own; an upload *)
(* undoes the first when the second fails.  The publish transaction runs   *)
(* statement by statement under PostgreSQL's READ COMMITTED: an update     *)
(* sees committed rows, waits for a row another transaction has updated,   *)
(* and nothing shows before the commit.  With SQLite a mutex serialises    *)
(* the same steps.  No operation edits a product or deletes a row.         *)
(* Definitions named X_Fault are faulty variants of X, used by no action.  *)
(***************************************************************************)
CONSTANTS
    Products, Versions,
    Assets,         \* uploads: each makes an asset identifier of its own
    Publishers,     \* slots for publish requests running at once
    Faults,         \* what may go wrong besides a failing put or insert
    VersionKept     \* editors upload under the version of the draft

ASSUME PublishingAssumption ==
    /\ Assets # {}
    /\ Faults \subseteq {"head", "delete", "crash", "ambiguous"}
    /\ VersionKept \in BOOLEAN

VARIABLES
    product, version,   \* per product: its row in products
    upload,             \* per asset: what the editor sent and the scan found
    uPc,                \* per asset: where its upload handler is
    asset,              \* per asset: the status in product_assets, or none
    files,              \* keys present in the object store
    tPc, tAsset         \* per publisher: its transaction

uploads == <<upload, uPc, files>>
txs     == <<tPc, tAsset>>
vars    == <<product, version, asset, uploads, txs>>

Upload == [product : Products, version : Versions, clean : BOOLEAN]

Init ==
    /\ product = [p \in Products |-> "none"]
    /\ version \in [Products -> Versions]
    /\ upload \in [Assets -> Upload]
    /\ uPc = [a \in Assets |-> "none"]
    /\ asset = [a \in Assets |-> "none"]
    /\ files = {}
    /\ tPc = [x \in Publishers |-> "idle"]
    /\ tAsset \in [Publishers -> {CHOOSE a \in Assets : TRUE}]

ProductOf(a) == upload[a].product

CreateProduct(p) ==
    /\ product[p] = "none"
    /\ product' = [product EXCEPT ![p] = "draft"]
    /\ UNCHANGED <<version, asset, uploads, txs>>

-------------------------------------------------------------------------------
(* Upload *)

\* The version is the editor's word: only its presence is checked.
UploadStart(a) ==
    /\ uPc[a] = "none"
    /\ product[ProductOf(a)] = "draft"
    /\ VersionKept => upload[a].version = version[ProductOf(a)]
    /\ uPc' = [uPc EXCEPT ![a] = "put"]
    /\ UNCHANGED <<product, version, upload, asset, files, txs>>

Put(a) ==
    /\ uPc[a] = "put"
    /\ uPc' = [uPc EXCEPT ![a] = "insert"]
    /\ files' = files \cup {a}
    /\ UNCHANGED <<product, version, upload, asset, txs>>

PutFails_Ignored(a) ==
    /\ uPc[a] = "put"
    /\ uPc' = [uPc EXCEPT ![a] = "insert"]
    /\ UNCHANGED <<product, version, upload, asset, files, txs>>

\* The S3 adapter asks for the object's head after the put: when that fails
\* the object is there, and the handler's try block has not been entered.
PutFails(a) ==
    /\ uPc[a] = "put"
    /\ uPc' = [uPc EXCEPT ![a] = "failed"]
    /\ files' \in {files} \cup {files \cup {a} : f \in Faults \cap {"head"}}
    /\ UNCHANGED <<product, version, upload, asset, txs>>

\* The status the scan earns.
Verdict(a) == IF upload[a].clean THEN "approved" ELSE "rejected"

Insert(a) ==
    /\ uPc[a] = "insert"
    /\ uPc' = [uPc EXCEPT ![a] = "done"]
    /\ asset' = [asset EXCEPT ![a] = Verdict(a)]
    /\ UNCHANGED <<product, version, upload, files, txs>>

\* An insert that was committed may still be reported as an error.
InsertFails(a) ==
    /\ uPc[a] = "insert"
    /\ uPc' = [uPc EXCEPT ![a] = "undo"]
    /\ asset' \in {asset}
         \cup {[asset EXCEPT ![a] = Verdict(a)] : f \in Faults \cap {"ambiguous"}}
    /\ UNCHANGED <<product, version, upload, files, txs>>

Undo(a) ==
    /\ uPc[a] = "undo"
    /\ uPc' = [uPc EXCEPT ![a] = "failed"]
    /\ files' = files \ {a}
    /\ UNCHANGED <<product, version, upload, asset, txs>>

\* The failure of the compensation is only logged.
UndoFails(a) ==
    /\ "delete" \in Faults
    /\ uPc[a] = "undo"
    /\ uPc' = [uPc EXCEPT ![a] = "failed"]
    /\ UNCHANGED <<product, version, upload, asset, files, txs>>

Crash(a) ==
    /\ "crash" \in Faults
    /\ uPc[a] \in {"put", "insert", "undo"}
    /\ uPc' = [uPc EXCEPT ![a] = "failed"]
    /\ UNCHANGED <<product, version, upload, asset, files, txs>>

-------------------------------------------------------------------------------
(* Publish *)

Step(x, pc) == tPc' = [tPc EXCEPT ![x] = pc]

\* The transaction's select of the asset and its product.
Publishable(a) == product[ProductOf(a)] = "draft" /\ asset[a] = "approved"

PublishRead(x, a) ==
    /\ tPc[x] = "idle"
    /\ Publishable(a)
    /\ tAsset' = [tAsset EXCEPT ![x] = a]
    /\ Step(x, "asset")
    /\ UNCHANGED <<product, version, asset, uploads>>

\* Transactions that have updated and not committed the row.
AssetLocked(a) == \E x \in Publishers : tPc[x] \in {"project", "commit"} /\ tAsset[x] = a
ProductLocked(p) == \E x \in Publishers : tPc[x] = "commit" /\ ProductOf(tAsset[x]) = p

\* The asset's update in a transaction of its own.
PublishAsset_Alone(x) ==
    /\ tPc[x] = "asset"
    /\ ~AssetLocked(tAsset[x])
    /\ asset' = [asset EXCEPT ![tAsset[x]] = "published"]
    /\ Step(x, "project")
    /\ UNCHANGED <<product, version, uploads, tAsset>>

\* update product_assets ... where status='approved': no row changed is a
\* conflict, which rolls back.
PublishAsset(x) ==
    /\ tPc[x] = "asset"
    /\ ~AssetLocked(tAsset[x])
    /\ Step(x, IF asset[tAsset[x]] = "approved" THEN "project" ELSE "idle")
    /\ UNCHANGED <<product, version, asset, uploads, tAsset>>

\* The project's update by its key alone.
StillDraft_AnyStatus(x) == product[ProductOf(tAsset[x])] # "none"

\* update products ... where status='draft'
StillDraft(x) == product[ProductOf(tAsset[x])] = "draft"

PublishProject(x) ==
    /\ tPc[x] = "project"
    /\ ~ProductLocked(ProductOf(tAsset[x]))
    /\ Step(x, IF StillDraft(x) THEN "commit" ELSE "idle")
    /\ UNCHANGED <<product, version, asset, uploads, tAsset>>

Commit(x) ==
    /\ tPc[x] = "commit"
    /\ asset' = [asset EXCEPT ![tAsset[x]] = "published"]
    /\ product' = [product EXCEPT ![ProductOf(tAsset[x])] = "published"]
    /\ Step(x, "idle")
    /\ UNCHANGED <<version, uploads, tAsset>>

\* A statement fails, the audit record's included, or the process dies.
Rollback(x) ==
    /\ tPc[x] # "idle"
    /\ Step(x, "idle")
    /\ UNCHANGED <<product, version, asset, uploads, tAsset>>

-------------------------------------------------------------------------------
UploadStep(a) ==
    \/ UploadStart(a)
    \/ Put(a) \/ PutFails(a)
    \/ Insert(a) \/ InsertFails(a)
    \/ Undo(a) \/ UndoFails(a)
    \/ Crash(a)

PublishStep(x) ==
    \/ \E a \in Assets : PublishRead(x, a)
    \/ PublishAsset(x) \/ PublishProject(x) \/ Commit(x) \/ Rollback(x)

Next ==
    \/ \E p \in Products : CreateProduct(p)
    \/ \E a \in Assets : UploadStep(a)
    \/ \E x \in Publishers : PublishStep(x)

Spec == Init /\ [][Next]_vars

-------------------------------------------------------------------------------
(* Properties *)

\* Every variable holds a value the code can give it.
TypeOK ==
    /\ product \in [Products -> {"none", "draft", "published"}]
    /\ version \in [Products -> Versions]
    /\ upload \in [Assets -> Upload]
    /\ uPc \in [Assets -> {"none", "put", "insert", "undo", "done", "failed"}]
    /\ asset \in [Assets -> {"none", "approved", "rejected", "published"}]
    /\ files \in SUBSET Assets
    /\ tPc \in [Publishers -> {"idle", "asset", "project", "commit"}]
    /\ tAsset \in [Publishers -> Assets]

PublishedFor(p) == {a \in Assets : asset[a] = "published" /\ ProductOf(a) = p}

\* A product and its file go on sale together, whatever fails in between.
PublishedTogether ==
    \A p \in Products : product[p] = "published" <=> PublishedFor(p) # {}

\* Concurrent publish requests put one file of a product on sale.
OnePublication == \A p \in Products : \A a, b \in PublishedFor(p) : a = b

\* What is on sale passed the scan.
PublishedIsClean == \A p \in Products : \A a \in PublishedFor(p) : upload[a].clean

\* An upload that was answered with success has its row and its file for good,
\* whatever befalls others and whatever is published.
RowHasFile == \A a \in Assets : uPc[a] = "done" => asset[a] # "none" /\ a \in files

\* When compensation works, a stored file has a row or an upload at work on it.
FilesAccounted ==
    \A a \in files : asset[a] # "none" \/ uPc[a] \in {"insert", "undo"}

\* The insert of the row was committed and reported as failed, so the handler
\* takes the file away again.
InDoubt(a) == uPc[a] \in {"undo", "failed"}

\* Whoever publishes at the same time and whatever fails, a product on sale has
\* one file: it passed the scan, and it is in the store unless its row was in
\* doubt (publish, the upload's compensation).
SoldIsSound ==
    \A p \in Products : product[p] = "published" =>
        \E a \in Assets :
            PublishedFor(p) = {a} /\ upload[a].clean /\ (a \in files \/ InDoubt(a))

\* Without that exception (a row in doubt can be published).
SoldIsStored == \A p \in Products : PublishedFor(p) \subseteq files

\* POST /api/purchases/:id/download looks for the file of the product's version,
\* and the link it makes is served from the store.
Deliverable(p) == \E a \in PublishedFor(p) \cap files : upload[a].version = version[p]
===============================================================================
