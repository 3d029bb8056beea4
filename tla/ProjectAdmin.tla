------------------------------- MODULE ProjectAdmin -------------------------------
(***************************************************************************)
(* The page on which an editor puts a project on sale (ProjectAdminPage)   *)
(* and what its requests set off: it makes a draft, adds a licence plan,   *)
(* uploads a file and publishes.  Only the page sees to it that a product  *)
(* has a plan before it is published, and that the file published is the   *)
(* one the editor was shown; the server's side is module Publishing, whose *)
(* steps are taken here as they are.                                       *)
(*                                                                         *)
(* A request that was sent is served; its answer may be lost, which is an  *)
(* error for the page.  What the editor is going to send is fixed from the *)
(* start (version, upload), as in Publishing.  Definitions named X_Fault   *)
(* are faulty variants of X, used by no action.                            *)
(***************************************************************************)
EXTENDS Naturals

CONSTANTS
    Products, Versions, Assets, Publishers, Faults, VersionKept,    \* of Publishing
    Nothing,
    MaxReloads      \* bound: how often the page is reloaded

AdminAssumption ==
    /\ Nothing \notin Products \cup Assets
    /\ Assets \cap Publishers = {}      \* waits holds both
    /\ MaxReloads \in Nat

VARIABLES
    product, version, upload, uPc, asset, files, tPc, tAsset,       \* of Publishing
    planned,    \* server: products with a row in license_plans
    call,       \* server: per publish request none, open, ok, error
    projectId, assetId,     \* of the page, Nothing before there is one
    form,       \* version in the form
    creating, made,         \* create mutation: idle, sent, served, refused; its product
    slugFree,   \* no product has the slug in the form
    planning,   \* createPlan mutation: idle, sent, stored
    plans,      \* plans.data: unknown, empty, some
    waits,      \* uploads and publish requests whose answer the page awaits
    told,       \* the asset of which the message says that buyers have it
    reloads

server == <<product, version, upload, uPc, asset, files, tPc, tAsset>>
draft  == <<projectId, creating, made, slugFree>>
plan   == <<planned, planning, plans>>
file   == <<assetId, call, waits, told>>
vars   == <<server, draft, plan, file, form, reloads>>

P == INSTANCE Publishing

Init ==
    /\ P!Init
    /\ planned = {}
    /\ call = [x \in Publishers |-> "none"]
    /\ projectId = Nothing /\ assetId = Nothing
    /\ form \in Versions
    /\ creating = "idle" /\ made = Nothing /\ slugFree = TRUE
    /\ planning = "idle" /\ plans = "unknown"
    /\ waits = {}
    /\ told = Nothing
    /\ reloads = 0

-------------------------------------------------------------------------------
(* The form *)

\* It stays editable when the draft is made; uploads take its version as it is
\* then.
EditVersion ==
    /\ VersionKept => projectId = Nothing /\ creating = "idle"
    /\ form' \in Versions \ {form}
    /\ UNCHANGED <<server, draft, plan, file, reloads>>

EditSlug ==
    /\ ~slugFree
    /\ slugFree' = TRUE
    /\ UNCHANGED <<server, plan, file, form, projectId, creating, made, reloads>>

\* Everything is gone but what the server has: the page cannot take up a draft.
\* A request that has not been served is as good as not sent.
Reload ==
    /\ reloads < MaxReloads
    /\ creating # "sent" /\ planning # "sent"
    /\ reloads' = reloads + 1
    /\ projectId' = Nothing /\ assetId' = Nothing /\ told' = Nothing
    /\ creating' = "idle" /\ made' = Nothing
    /\ planning' = "idle" /\ plans' = "unknown"
    /\ waits' = {}
    /\ UNCHANGED <<server, planned, call, form, slugFree>>

-------------------------------------------------------------------------------
(* POST /api/admin/products *)

Create ==
    /\ projectId = Nothing
    /\ creating = "idle"
    /\ creating' = "sent"
    /\ UNCHANGED <<server, plan, file, form, projectId, made, slugFree, reloads>>

CreateServed ==
    /\ creating = "sent"
    /\ slugFree
    /\ \E p \in Products :
        /\ version[p] = form
        /\ P!CreateProduct(p)
        /\ made' = p
    /\ creating' = "served"
    /\ slugFree' = FALSE
    /\ UNCHANGED <<plan, file, form, projectId, reloads>>

\* products.slug is unique: a draft whose answer was lost cannot be made again.
CreateRefused ==
    /\ creating = "sent"
    /\ ~slugFree
    /\ creating' = "refused"
    /\ UNCHANGED <<server, plan, file, form, projectId, made, slugFree, reloads>>

CreateAnswered ==
    /\ creating \in {"served", "refused"}
    /\ \/ creating = "served" /\ projectId' = made
       \/ UNCHANGED projectId
    /\ told' = Nothing
    /\ creating' = "idle" /\ made' = Nothing
    /\ UNCHANGED <<server, planned, planning, plans, assetId, call, waits, form, slugFree,
                   reloads>>

-------------------------------------------------------------------------------
(* /api/admin/products/:id/plans *)

SavePlan ==
    /\ projectId # Nothing
    /\ planning = "idle"
    /\ planning' = "sent"
    /\ UNCHANGED <<server, draft, file, form, planned, plans, reloads>>

PlanStored ==
    /\ planning = "sent"
    /\ planned' = planned \cup {projectId}
    /\ planning' = "stored"
    /\ UNCHANGED <<server, draft, file, form, plans, reloads>>

PlanAnswered ==
    /\ planning \in {"sent", "stored"}
    /\ planning' = "idle"
    /\ told' = Nothing
    /\ UNCHANGED <<server, draft, planned, plans, assetId, call, waits, form, reloads>>

\* The query is fetched for a new project, when a plan was saved, and when the
\* device is online again; a fetch that fails leaves what was there.
FetchPlans ==
    /\ projectId # Nothing
    /\ plans' = IF projectId \in planned THEN "some" ELSE "empty"
    /\ UNCHANGED <<server, draft, file, form, planned, planning, reloads>>

-------------------------------------------------------------------------------
(* upload() *)

Upload(a) ==
    /\ projectId # Nothing
    /\ upload[a].product = projectId
    /\ upload[a].version = form
    /\ P!UploadStart(a)
    /\ waits' = waits \cup {a}
    /\ UNCHANGED <<draft, plan, assetId, call, told, form, reloads>>

UploadServed(a) ==
    /\ uPc[a] # "none"
    /\ P!UploadStep(a)
    /\ UNCHANGED <<draft, plan, file, form, reloads>>

\* Only a 201 sets the asset; 422 and every other error is thrown by api().
Shown_Rejected(a) == IF uPc[a] = "done" THEN a ELSE assetId
Shown(a) == IF uPc[a] = "done" /\ upload[a].clean THEN a ELSE assetId

UploadAnswered(a) ==
    /\ a \in waits
    /\ uPc[a] \in {"done", "failed"}
    /\ assetId' \in {assetId, Shown(a)}
    /\ waits' = waits \ {a}
    /\ told' = Nothing
    /\ UNCHANGED <<server, draft, plan, call, form, reloads>>

-------------------------------------------------------------------------------
(* publish() *)

MayPublish_NoPlan == assetId # Nothing
MayPublish == assetId # Nothing /\ plans = "some"

\* The button stays enabled while a request runs.
Publish(x) ==
    /\ MayPublish
    /\ call[x] = "none"
    /\ \/ /\ P!PublishRead(x, assetId)
          /\ call' = [call EXCEPT ![x] = "open"]
       \/ /\ ~P!Publishable(assetId)
          /\ call' = [call EXCEPT ![x] = "error"]
          /\ UNCHANGED server
    /\ waits' = waits \cup {x}
    /\ UNCHANGED <<draft, plan, assetId, told, form, reloads>>

PublishServed(x) ==
    /\ call[x] = "open"
    /\ \/ /\ P!PublishAsset(x) \/ P!PublishProject(x) \/ P!Rollback(x)
          /\ call' = IF tPc'[x] = "idle" THEN [call EXCEPT ![x] = "error"] ELSE call
       \/ /\ P!Commit(x)
          /\ call' = [call EXCEPT ![x] = "ok"]
    /\ UNCHANGED <<draft, plan, assetId, waits, told, form, reloads>>

\* 'The file is published and available to buyers.'
PublishAnswered(x) ==
    /\ call[x] \in {"ok", "error"}
    /\ call' = [call EXCEPT ![x] = "none"]
    /\ waits' = waits \ {x}
    /\ \/ call[x] = "ok" /\ x \in waits /\ told' = tAsset[x]
       \/ x \in waits /\ told' = Nothing
       \/ x \notin waits /\ UNCHANGED told
    /\ UNCHANGED <<server, draft, plan, assetId, form, reloads>>

-------------------------------------------------------------------------------
Next ==
    \/ EditVersion \/ EditSlug \/ Reload
    \/ Create \/ CreateServed \/ CreateRefused \/ CreateAnswered
    \/ SavePlan \/ PlanStored \/ PlanAnswered \/ FetchPlans
    \/ \E a \in Assets : Upload(a) \/ UploadServed(a) \/ UploadAnswered(a)
    \/ \E x \in Publishers : Publish(x) \/ PublishServed(x) \/ PublishAnswered(x)

Spec == Init /\ [][Next]_vars

-------------------------------------------------------------------------------
(* Properties *)

\* Every variable holds a value the code can give it.
TypeOK ==
    /\ P!TypeOK
    /\ planned \subseteq {p \in Products : product[p] # "none"}
    /\ call \in [Publishers -> {"none", "open", "ok", "error"}]
    /\ \A x \in Publishers : call[x] = "open" <=> tPc[x] # "idle"
    /\ projectId \in Products \cup {Nothing} /\ made \in Products \cup {Nothing}
    /\ assetId \in Assets \cup {Nothing} /\ told \in Assets \cup {Nothing}
    /\ form \in Versions
    /\ creating \in {"idle", "sent", "served", "refused"} /\ slugFree \in BOOLEAN
    /\ planning \in {"idle", "sent", "stored"}
    /\ plans \in {"unknown", "empty", "some"}
    /\ waits \in SUBSET (Assets \cup Publishers)
    /\ reloads \in 0..MaxReloads

\* A product that went on sale through the page can be bought: it has a plan,
\* which no request to the server checks (publish, POST /api/orders).
SoldWithPlan == \A p \in Products : product[p] = "published" => p \in planned

\* Whatever answers are lost or late, 'published' is said of a sound file that
\* is on sale, of the project on the page (publish).
ToldIsPublished ==
    told # Nothing =>
        /\ asset[told] = "published" /\ upload[told].clean
        /\ upload[told].product = projectId /\ product[projectId] = "published"

\* The file shown as checked and ready to be published passed the scan, and is
\* of the project on the page (upload).
ShownIsSound ==
    assetId # Nothing => upload[assetId].clean /\ upload[assetId].product = projectId

\* And it is available to buyers, as the message says: POST .../download finds
\* it under the product's version (ProjectAdminPage.tsx:41).
ToldIsAvailable == told # Nothing => P!Deliverable(projectId)

\* A slug that is taken is that of the draft on the page, or the page is still
\* being told (it is not so: the answer to the creation may be lost, and nothing
\* on the page finds the draft again; create, ProjectAdminPage).
DraftReachable == ~slugFree => projectId # Nothing \/ creating # "idle"
===============================================================================
