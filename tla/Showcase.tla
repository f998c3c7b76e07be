------------------------------ MODULE Showcase ------------------------------
(***************************************************************************)
(* What hangs on a product: its tags and images (ProductsService), the     *)
(* tags themselves (src/modules/tags) and the wishlists that name the      *)
(* product (src/modules/wishlist).                                         *)
(*                                                                         *)
(* Tags and images are replaced in Read Committed transactions that delete *)
(* the rows they see and insert what was sent.  update() writes the        *)
(* product first, so that two of them take turns; updateTags and addImages *)
(* do not.  Wishlists are changed by statements of their own, guarded by a *)
(* unique key; the users whose lists they are stay.                        *)
(***************************************************************************)
EXTENDS Integers, FiniteSets, FiniteSetsExt, Functions

CONSTANTS
    Products,   \* ids of products; never used twice
    Tags,       \* ids of tags; never used twice
    Images,     \* ids of images; never used twice
    Users,
    Requests,   \* requests in flight together
    MaxSent,    \* bound: images sent with one request
    MaxAttempts,   \* bound: operations
    None        \* nothing sent, no row

(* What the instance assumes of the constants.                             *)
ShowcaseAssumption ==
    /\ IsFiniteSet(Tags) /\ IsFiniteSet(Images)
    /\ None \notin Products \cup Tags \cup Images \cup Users
    /\ MaxSent \in Nat \ {0} /\ MaxAttempts \in Nat

VARIABLES
    product,    \* product[p]: "none", "live" or "deleted"
    tag,        \* tag[t]: "none", "live" or "deleted"
    tags,       \* tags[p]: the tags of p
    image,      \* image[i]: its product and position, or None
    wish,       \* wish[u][p]: the number of the row, 0 when there is none
    job,        \* job[r]: the request of r in flight
    attempts,   \* operations counted against MaxAttempts
    asked,      \* history: asked[p]: the tags that the last edit of them sent
    mixed,      \* history: tags or images of p edited over an unseen edit
    lost        \* history: tags removed although a product had taken them

showcaseVars == <<product, tag, tags, image, wish, job, attempts, asked, mixed, lost>>

JobStage == {"idle", "tags", "commit", "deleteTag", "wish", "unwish", "reread", "answered"}

(* send, sent: the tags and the number of images to write, or None; seen,  *)
(* shown: the tags and images that the transaction deletes; start: the     *)
(* first position; row: of the wishlist; raced: what was read has changed. *)
Job == [pc : JobStage, product : Products \cup {None}, user : Users \cup {None},
        locked : BOOLEAN, send : (SUBSET Tags) \cup {None}, seen : SUBSET Tags,
        sent : 0 .. MaxSent \cup {None}, shown : SUBSET Images, start : Nat,
        tag : Tags \cup {None}, row : Nat,
        answer : {None, "added", "already", "removed", "missing", "failed"},
        raced : SUBSET {"tags", "images", "tag", "wish"}]

NoJob == [pc |-> "idle", product |-> None, user |-> None, locked |-> FALSE, send |-> None,
         seen |-> {}, sent |-> None, shown |-> {}, start |-> 0, tag |-> None, row |-> 0,
         answer |-> None, raced |-> {}]

Gone == [product |-> None, position |-> 0]  \* an image that was deleted

Listed(p) == product[p] = "live"
ImagesOf(p) == {i \in Images : image[i] # None /\ image[i].product = p}
Live == {t \in Tags : tag[t] = "live"}

Allowed == attempts < MaxAttempts /\ attempts' = attempts + 1

Starts(r) == job[r] = NoJob /\ Allowed
Becomes(r, q) == job' = [job EXCEPT ![r] = q]

OnProduct(p) == {s \in Requests : job[s].product = p}

-----------------------------------------------------------------------------
(* Tags: created by name, removed when no product is counted; the foreign  *)
(* key takes the tag from the products that took it meanwhile.  update()   *)
(* changes nothing but the name, on which nothing here depends.            *)
CreateTag(t) ==
    /\ tag[t] = "none" /\ Allowed
    /\ tag' = [tag EXCEPT ![t] = "live"]
    /\ UNCHANGED <<product, tags, image, wish, job, asked, mixed, lost>>

RemoveTagCount(r, t) ==
    /\ Starts(r) /\ t \in Live
    /\ \A p \in Products : t \notin tags[p]
    /\ Becomes(r, [NoJob EXCEPT !.pc = "deleteTag", !.tag = t])
    /\ UNCHANGED <<product, tag, tags, image, wish, asked, mixed, lost>>

RemoveTagDelete(r) ==
    LET t == job[r].tag
    IN  /\ job[r].pc = "deleteTag"
        /\ Becomes(r, NoJob)
        /\ tag' = [tag EXCEPT ![t] = "deleted"]
        /\ tags' = [p \in Products |-> tags[p] \ {t}]
        /\ lost' = IF "tag" \in job[r].raced THEN lost \cup {t} ELSE lost
        /\ UNCHANGED <<product, image, wish, attempts, asked, mixed>>

-----------------------------------------------------------------------------
(* The transactions on tags and images.                                    *)

(* updateTags: the tags that are there are deleted.                        *)
(* Mutant: they are left.                                                  *)
UpdateTagsOnTop(r, p, S) ==
    /\ Starts(r) /\ Listed(p)
    /\ Becomes(r, [NoJob EXCEPT !.pc = "commit", !.product = p, !.send = S \ tags[p]])
    /\ UNCHANGED <<product, tag, tags, image, wish, asked, mixed, lost>>

UpdateTags(r, p, S) ==
    /\ Starts(r) /\ Listed(p)
    /\ Becomes(r, [NoJob EXCEPT !.pc = "commit", !.product = p, !.send = S, !.seen = tags[p]])
    /\ UNCHANGED <<product, tag, tags, image, wish, asked, mixed, lost>>

(* update: the product is written, which waits for other updates of it;    *)
(* then its images are deleted, then its tags.                             *)
Update(r, p, S, n) ==
    /\ Starts(r) /\ Listed(p)
    /\ \A s \in OnProduct(p) : ~job[s].locked
    /\ Becomes(r, [NoJob EXCEPT !.pc = "tags", !.product = p, !.locked = TRUE, !.send = S,
                            !.sent = n, !.shown = IF n = None THEN {} ELSE ImagesOf(p)])
    /\ UNCHANGED <<product, tag, tags, image, wish, asked, mixed, lost>>

UpdateTagsOf(r) ==
    LET q == job[r]
    IN  /\ q.pc = "tags"
        /\ Becomes(r, [q EXCEPT !.pc = "commit",
                             !.seen = IF q.send = None THEN {} ELSE tags[q.product]])
        /\ UNCHANGED <<product, tag, tags, image, wish, attempts, asked, mixed, lost>>

(* addImages: after the highest position there is.  (The model leaves out  *)
(* positions that an administrator sends with an image.)                   *)
AddImages(r, p, n) ==
    /\ Starts(r) /\ Listed(p)
    /\ Becomes(r, [NoJob EXCEPT !.pc = "commit", !.product = p, !.sent = n,
                    !.start = IF ImagesOf(p) = {} THEN 0
                              ELSE 1 + Max({image[i].position : i \in ImagesOf(p)})])
    /\ UNCHANGED <<product, tag, tags, image, wish, asked, mixed, lost>>

(* The inserts and the commit.  A tag that the product has got meanwhile   *)
(* violates the key, a tag or product that has gone the foreign key: then  *)
(* everything is rolled back.                                              *)
Kept(q) == IF q.send = None THEN tags[q.product] ELSE tags[q.product] \ q.seen
Insertable(q) ==
    /\ Listed(q.product)
    /\ q.send # None => q.send \subseteq Live \ Kept(q)

(* What r does to the tags or images of p, or to t, without seeing what    *)
(* the commit of q does to them.                                           *)
Overtaken(q, r) ==
    LET s == job[r]
        same == s.product = q.product
    IN  (IF same /\ s.pc = "commit" /\ q.send # None /\ s.send # None THEN {"tags"} ELSE {})
        \cup (IF same /\ q.sent # None /\ s.sent # None THEN {"images"} ELSE {})
        \cup (IF s.pc = "deleteTag" /\ q.send # None /\ s.tag \in q.send THEN {"tag"} ELSE {})

(* An edit that has not seen another one leaves p mixed; one that has, and *)
(* replaces everything, puts it in order.                                  *)
Mixed(q) ==
    (mixed \ ((IF q.send # None THEN {<<q.product, "tags">>} ELSE {})
              \cup (IF q.locked /\ q.sent # None THEN {<<q.product, "images">>} ELSE {})))
    \cup {<<q.product, x>> : x \in q.raced}

Commit(r) ==
    LET q == job[r]
        p == q.product
    IN  /\ q.pc = "commit"
        /\ Insertable(q)
        /\ job' = [s \in Requests |-> IF s = r THEN NoJob
                       ELSE [job[s] EXCEPT !.raced = @ \cup Overtaken(q, s)]]
        /\ tags' = [tags EXCEPT ![p] = IF q.send = None THEN @ ELSE Kept(q) \cup q.send]
        /\ asked' = [asked EXCEPT ![p] = IF q.send = None THEN @ ELSE q.send]
        /\ \E new \in SUBSET {i \in Images : image[i] = None} :
              /\ Cardinality(new) = IF q.sent = None THEN 0 ELSE q.sent
              /\ \E at \in Bijection(new, q.start .. q.start + Cardinality(new) - 1) :
                    image' = [i \in Images |->
                        IF i \in new THEN [product |-> p, position |-> at[i]]
                        ELSE IF i \in q.shown THEN Gone ELSE image[i]]
        /\ mixed' = Mixed(q)
        /\ UNCHANGED <<product, tag, wish, attempts, lost>>

(* A statement fails, or the server stops.                                 *)
Rollback(r) ==
    /\ job[r].pc \in {"tags", "commit"}
    /\ Becomes(r, NoJob)
    /\ UNCHANGED <<product, tag, tags, image, wish, attempts, asked, mixed, lost>>

(* removeImage: one delete; an image that went meanwhile is an error.      *)
RemoveImage(i) ==
    /\ image[i] \notin {None, Gone} /\ Allowed
    /\ image' = [image EXCEPT ![i] = Gone]
    /\ UNCHANGED <<product, tag, tags, wish, job, asked, mixed, lost>>

-----------------------------------------------------------------------------
(* Wishlists.  Every answer to an addition reads the row again.            *)

(* Mutant: the row is inserted without a look.                             *)
AddToWishlistBlindly(r, u, p) ==
    /\ Starts(r) /\ Listed(p)
    /\ Becomes(r, [NoJob EXCEPT !.pc = "wish", !.product = p, !.user = u])
    /\ UNCHANGED <<product, tag, tags, image, wish, asked, mixed, lost>>

AddToWishlist(r, u, p) ==
    /\ Starts(r) /\ Listed(p)
    /\ Becomes(r, IF wish[u][p] = 0
               THEN [NoJob EXCEPT !.pc = "wish", !.product = p, !.user = u]
               ELSE [NoJob EXCEPT !.pc = "reread", !.product = p, !.user = u,
                                 !.row = wish[u][p], !.answer = "already"])
    /\ UNCHANGED <<product, tag, tags, image, wish, asked, mixed, lost>>

(* r changes the wish of u for p under the others that have read it.       *)
OverWish(r, u, p, q) ==
    job' = [s \in Requests |-> IF s = r THEN q
               ELSE IF job[s].product = p /\ job[s].user = u
                 THEN [job[s] EXCEPT !.raced = @ \cup {"wish"}]
               ELSE job[s]]

Answered(q, answer) == [q EXCEPT !.pc = "answered", !.answer = answer]

(* The keys: the product has gone ("missing"), the row is there.           *)
InsertWish(r) ==
    LET q == job[r]
        row == attempts
    IN  /\ q.pc = "wish"
        /\ IF Listed(q.product) /\ wish[q.user][q.product] = 0
             THEN /\ wish' = [wish EXCEPT ![q.user] = [wish[q.user] EXCEPT ![q.product] = row]]
                  /\ OverWish(r, q.user, q.product,
                              [q EXCEPT !.pc = "reread", !.row = row, !.answer = "added"])
             ELSE /\ Becomes(r, Answered(q, IF Listed(q.product) THEN "failed" ELSE "missing"))
                  /\ UNCHANGED wish
        /\ UNCHANGED <<product, tag, tags, image, attempts, asked, mixed, lost>>

(* getWishlistItem                                                         *)
RereadWish(r) ==
    LET q == job[r]
    IN  /\ q.pc = "reread"
        /\ Becomes(r, Answered(q, IF wish[q.user][q.product] = q.row THEN q.answer ELSE "missing"))
        /\ UNCHANGED <<product, tag, tags, image, wish, attempts, asked, mixed, lost>>

RemoveFromWishlist(r, u, p) ==
    /\ Starts(r) /\ wish[u][p] # 0
    /\ Becomes(r, [NoJob EXCEPT !.pc = "unwish", !.product = p, !.user = u, !.row = wish[u][p]])
    /\ UNCHANGED <<product, tag, tags, image, wish, asked, mixed, lost>>

DeleteWish(r) ==
    LET q == job[r]
    IN  /\ q.pc = "unwish"
        /\ IF wish[q.user][q.product] = q.row
             THEN /\ wish' = [wish EXCEPT ![q.user] = [wish[q.user] EXCEPT ![q.product] = 0]]
                  /\ OverWish(r, q.user, q.product, Answered(q, "removed"))
             ELSE /\ Becomes(r, Answered(q, "failed"))
                  /\ UNCHANGED wish
        /\ UNCHANGED <<product, tag, tags, image, attempts, asked, mixed, lost>>

Leave(r) ==
    /\ job[r].pc = "answered"
    /\ Becomes(r, NoJob)
    /\ UNCHANGED <<product, tag, tags, image, wish, attempts, asked, mixed, lost>>

-----------------------------------------------------------------------------
(* create; and remove, with all that hangs on the product, which waits for *)
(* an update of it.  Each is a transaction of its own.                     *)
CreateProduct(p, S) ==
    /\ product[p] = "none" /\ S \subseteq Live /\ Allowed
    /\ product' = [product EXCEPT ![p] = "live"]
    /\ tags' = [tags EXCEPT ![p] = S]
    /\ asked' = [asked EXCEPT ![p] = S]
    /\ job' = [r \in Requests |-> IF job[r].pc = "deleteTag" /\ job[r].tag \in S
                  THEN [job[r] EXCEPT !.raced = {"tag"}] ELSE job[r]]
    /\ UNCHANGED <<tag, image, wish, mixed, lost>>

RemoveProduct(p) ==
    /\ Listed(p) /\ Allowed
    /\ \A r \in OnProduct(p) : ~job[r].locked
    /\ product' = [product EXCEPT ![p] = "deleted"]
    /\ tags' = [tags EXCEPT ![p] = {}]
    /\ asked' = [asked EXCEPT ![p] = {}]
    /\ image' = [i \in Images |-> IF i \in ImagesOf(p) THEN Gone ELSE image[i]]
    /\ wish' = [u \in Users |-> [wish[u] EXCEPT ![p] = 0]]
    /\ job' = [r \in Requests |-> IF job[r].product = p /\ job[r].user # None
                  THEN [job[r] EXCEPT !.raced = @ \cup {"wish"}] ELSE job[r]]
    /\ UNCHANGED <<tag, mixed, lost>>

ShowcaseInit ==
    /\ product = [p \in Products |-> "none"]
    /\ tag = [t \in Tags |-> "none"]
    /\ tags = [p \in Products |-> {}]
    /\ image = [i \in Images |-> None]
    /\ wish = [u \in Users |-> [p \in Products |-> 0]]
    /\ job = [r \in Requests |-> NoJob]
    /\ attempts = 0
    /\ asked = [p \in Products |-> {}]
    /\ mixed = {} /\ lost = {}

TagsNext ==
    \/ \E t \in Tags : CreateTag(t) \/ \E r \in Requests : RemoveTagCount(r, t)
    \/ \E r \in Requests : RemoveTagDelete(r)

WishlistNext ==
    \E r \in Requests :
        \/ \E u \in Users, p \in Products : AddToWishlist(r, u, p) \/ RemoveFromWishlist(r, u, p)
        \/ InsertWish(r) \/ RereadWish(r) \/ DeleteWish(r) \/ Leave(r)

ImagesNext ==
    \/ \E i \in Images : RemoveImage(i)
    \/ \E r \in Requests, p \in Products, n \in 1 .. MaxSent : AddImages(r, p, n)

ShowcaseNext ==
    \/ TagsNext \/ WishlistNext \/ ImagesNext
    \/ \E p \in Products : RemoveProduct(p) \/ \E S \in SUBSET Tags : CreateProduct(p, S)
    \/ \E r \in Requests, p \in Products :
          \/ \E S \in SUBSET Tags : UpdateTags(r, p, S)
          \/ \E S \in (SUBSET Tags) \cup {None}, n \in 0 .. MaxSent \cup {None} : Update(r, p, S, n)
    \/ \E r \in Requests : UpdateTagsOf(r) \/ Commit(r) \/ Rollback(r)

ShowcaseSpec == ShowcaseInit /\ [][ShowcaseNext]_showcaseVars

-----------------------------------------------------------------------------
ShowcaseTypeOK ==
    /\ product \in [Products -> {"none", "live", "deleted"}]
    /\ tag \in [Tags -> {"none", "live", "deleted"}]
    /\ tags \in [Products -> SUBSET Tags] /\ asked \in [Products -> SUBSET Tags]
    /\ image \in [Images -> [product : Products, position : Nat] \cup {None, Gone}]
    /\ wish \in [Users -> [Products -> Nat]]
    /\ job \in [Requests -> Job] /\ attempts \in Nat
    /\ mixed \subseteq Products \X {"tags", "images"} /\ lost \subseteq Tags

(* A product has the tags that it was last given, and no two of its images *)
(* the same position.  A tag is missing only if it was removed while it    *)
(* was taken (tags.service.ts:261 counts, :271 deletes); one too many, or  *)
(* two images in one place, there are only if two edits of the product did  *)
(* not see each other (products.service.ts:1091 and :1449: the rows that   *)
(* another transaction inserts are neither seen nor deleted).              *)
EditsMixOnlyIfOvertaken ==
    \A p \in Products :
        /\ asked[p] \ lost \subseteq tags[p]
        /\ <<p, "tags">> \notin mixed => tags[p] \subseteq asked[p]
        /\ <<p, "images">> \notin mixed =>
              \A i, j \in ImagesOf(p) : i # j => image[i].position # image[j].position

(* Nobody is told that something went wrong with a wish unless somebody    *)
(* else changed it, or removed the product, between two statements of the  *)
(* request; and who is told that it is on the list finds it there until    *)
(* somebody removes it (wishlist.service.ts:90, :112 and :122).            *)
WishRefusedOnlyIfOvertaken ==
    \A r \in Requests :
        LET q == job[r]
            raced == "wish" \in q.raced
        IN  q.pc = "answered" =>
              /\ q.answer \in {"failed", "missing"} => raced
              /\ q.answer \in {"added", "already"} /\ ~raced => wish[q.user][q.product] = q.row
=============================================================================
