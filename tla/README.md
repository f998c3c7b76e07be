# A verification project for naarico-api

naarico-api is the back end of a multi-store shop: NestJS services over one
PostgreSQL database (through Prisma), with payment providers called over the
network, job queues in Redis and crons inside the server process. Several instances
of the server may run against the same database. Everything that is hard about it
comes from there: requests of several clients interleave between their database
statements, most operations are not transactions, a process may die between two
statements, a job may run twice, and the providers announce what happened to a
payment late, twice, out of order or never.

This directory holds TLA+ models of the parts that keep state, the TLC configurations
that check them on small instances, and proofs that TLAPS checks for instances of
every size. Paths below are relative to the root of the repository.

## The system's parts

| Part | Code (`src/modules/...`) | State it keeps | Operations that change it | Modelled by |
|---|---|---|---|---|
| Tables | `prisma/schema.prisma` | unique and foreign keys | | `ShopTables`, and each module for its own tables |
| Orders | `orders` | orders, items, timeline; inventory rows; RETURN logs | create, update, cancel | `Orders` |
| Carts | `carts` | cart items with an expiry | addToCart, updateCartItem, removeCartItem, clearCart, mergeAnonymousCart | `Carts` |
| Reservation cleanup | `scheduler` | expiry of cart items, reservedQuantity | one cron per server instance | `ReservationCleanup` |
| Inventory | `inventory` | inventory rows, logs, stockQuantity of products and variants | createLog, update, updateVariant, updateInventory, addStock | `InventoryService` |
| Payments | `payments` | payments; status and paymentStatus of orders | createPaymentIntent, verifyPayment, refundPayment, webhooks | `Payments`, `Providers` |
| Deals | `deals` | deals of products, limits, uses | create, update, remove, addProduct, removeProduct, addProductWithValidation, applyDealToProduct, setDealLimits | `Deals` |
| Coupons | `coupons` | coupons, their uses and counter | create, update, remove, applyCoupon, recordCouponUsage | `Coupons`, `UsageLedger` |
| Products | `products` | products, variants, tags, images, inventory rows | create, update, remove, addVariants, removeVariant, updateTags, addImages, removeImage; the listing and its filters | `Catalogue`, `Showcase`, `Browse` |
| Categories, brands, specification templates | `categories`, `brands`, `specifications` | the tree, what is filed under it | create, update (move), remove | `Taxonomy`, `Browse` |
| Tags and wishlists | `tags`, `wishlist` | tags, wishes | create, remove, addToWishlist, removeFromWishlist | `Showcase` |
| Accounts | `auth`, `users` | users, refresh token, lockout, addresses | register, login, refresh, logout, passwords, status, role, deletion; addresses and their default | `Sessions`, `Addresses` |
| Reviews | `reviews` | reviews, rating kept with the product | create, update, remove | `Reviews` |
| Activity | `analytics` | activities, browsing history | trackActivity, trackBatchActivities | `Activity` |
| Jobs | `notifications`, `recommendations/services/recommendation-job.service.ts` | two Bull queues, batches | the crons that fill them, the workers, retries and stalled jobs | `Jobs` |
| Recommendations | `recommendations` | the cache of the controller | eight lists, each of several reads | `Recommend` |
| Profiles and trends | `recommendations/services` | caches in the memory of the process | two crons | `Profiling`, `Trends` |
| Search | `search` | external index | switched off (`src/app.module.ts:30`, `:68`) | no |
| The rest | stores, promo banners, uploads, infrastructure | one table or none each | single statements, I/O | no |

### How they interact

All parts share the database, and there are no locks, events or callbacks
between services. What they share, and what therefore goes wrong between them:

* The same goods are counted twice: by the **row** of table `inventory`
  (`stockQuantity`, `reservedQuantity`), which carts and orders check and orders lower,
  and by the **mirror**, the column `stockQuantity` of `products` or
  `product_variants`, which cancellations raise, merges of anonymous carts check, edits
  of a product write, and from which a missing row is created.
* `orders.status` and `orders.payment_status` are written by OrdersService and by
  PaymentsService.
* A coupon is granted in one request and its use reported in another, by the client.
* Foreign keys carry a deletion from one part into another: variants out of cart
  lines and orders, categories out of products, users with their uses, addresses and
  reviews.
* Views tracked as activities feed the browsing history, which a job deletes from and
  recommendations read.

Serializable isolation is asked for by `OrdersService.create`,
`CartsService.addToCart` and the cleanup; everything else is Read Committed or
not a transaction at all, and Serializable only protects such a transaction from
other Serializable ones.

### What makes each part correct

* *Orders*: units sold are subtracted once from the row that was checked; units
  of a cancelled or returned order come back once; a finished order stays so.
* *Carts*: a line changes only as its user asked. *Cleanup*: every expired
  reservation is released.
* *Inventory*: the stock is what the logs say and never negative.
* *Payments*: PAID means that a charge sent with the verification was captured (whose
  charge it is, the code does not ask); an order says of its payment what the payment
  says; a refund follows a payment.
* *Deals, coupons*: a use is counted once, within the limits, and for the offer that
  granted it; an offer ends after it starts; a fixed amount is no more than the subtotal that was
  sent, a percentage no more than that or than the list price of the goods.
* *Products*: the stock that is shown is the stock that is kept; what was ordered stays;
  an edit keeps what it does not change; a category shows what is below it.
* *Categories*: a tree, and nothing loses its place unnoticed.
* *Accounts*: a session comes from a login and ends with a logout; guesses are counted;
  one default address. *Reviews*: the rating is that of the reviews; what is offered
  for review can be reviewed.
* *Activity, jobs*: every view is counted once, or it is known why not; what a job says it
  did was done, and as often as it says; every job ends.
* *Recommendations, profiles, trends*: only what is for sale is listed, a list is
  empty only when there is nothing; customers are profiled; a trend is made of activities.

Several of these do not hold. The modules state the strongest property that does hold,
with its exceptions spelled out, and a hazard in `PROJECT.json` says where the code
lets the exception in. Where a property excepts exactly what a race does (an absolute
write over a change not read, a call that stopped half way, a default set twice, and so
on), it characterises the race: it says that nothing else goes wrong, not that the race
does not happen.

## The modules

Each module names the class it models. An operation that is one transaction, or that
the keys of the database make as good as one, is one action; any other is one
action for each statement after which another request may come in. A refused request
changes nothing and is no step, unless the refusal is what a property is about.
`PROJECT.json` maps each definition to the lines it translates.

* **`ShopTables`** holds the tables shared by the shopping services and what the
  database enforces. `inventory[p]` is the row filed under product `p`
  (`productId` is unique, so a product has one row, which may name one of its
  variants); `mirror[k]` the stockQuantity of a sku; `lines[l]` a cart item;
  `orders[o]` an order with the units of each sku. A sku is a product or a variant.
* **`Orders`** adds the requests in flight. `create` is one Serializable transaction.
  `update` is UpdateRead, UpdateWrite, RestoreItem / LogReturn (one statement each, for
  each item) and AddTimelineEntry; `cancel` is CancelRead and CancelCommit. Abandon
  is a process that dies or a statement that fails.
* **`Carts`**: `addToCart` and the deletions are one step each; `updateCartItem`
  and `mergeAnonymousCart` are two, because what they read may change before they
  write. Expire lets half an hour pass.
* **`ReservationCleanup`**: StartCleanup takes the snapshot of the expired lines,
  ReleaseExpired is the transaction of one line, CleanupFails the update that
  finds no line or no row, CleanupStops a crash or a serialization failure.
* **`Storefront`** composes the three on one set of tables.
* **`InventoryService`**: each statement of createLog and of update / updateVariant
  is a step; updateInventory (POST /update) and addStock (POST /add) are
  transactions. **`Restocking`** composes it with `Orders`.
* **`Payments`**: the rows of `payments`, the two status columns of `orders`, and
  calls in flight that read, ask the provider, write the payment and write the
  order in separate steps, any of which may be the last. A verification asks about the
  charge that the client names (`charge`), which replaces the one in the row
  (`pid`), so that two rows may name one charge; `named` remembers them. `gateway` and `sent` are
  the provider's side: external, and as free as the code's use of them allows.
  **`Providers`** says what each provider class makes of a payment: which ids it gives,
  what it answers to a verification, which events have a case in the controller.
* **`Deals`**: the rows of `product_deals`, which form a deal when they agree on type,
  discount and times. An operation on a deal is ReadTemplate, a Find step and then one
  step for each row it writes, in any order, as `Promise.all` sends them.
* **`Coupons`**: a client's checkout is Validate, CountPerUser, Grant (validate() and
  the second reading by applyCoupon), RecordFind and Record (recordCouponUsage);
  remove is RemoveCount and RemoveWrite. **`UsageLedger`** is what the bookkeeping
  promises, and Coupons is shown to implement it.
* **`Catalogue`**: update is UpdateRead and UpdateWrite, with the form that was sent,
  the variants recreated and the row of the inventory synchronised; removals count the
  orders and delete later; shoppers add to carts, order and cancel.
* **`Taxonomy`**: a move is MoveStart, one Climb for each ancestor read by
  preventCircularReference, and Move; a removal counts products, counts children and
  deletes. **`Browse`** adds a shopper's walk through the subtree of a category, one read
  for each category (Enter, ReadChildren, ReadFails, ShowFound), and what the listing, the
  filter options, a category's page, the navigation and the breadcrumb make of it and of
  the tables, as operators.
* **`Showcase`**: the Read Committed transactions that replace tags and images, cut
  where they wait or read; wishlists statement by statement.
* **`Sessions`**, **`Addresses`**: every request reads the user and writes in later
  statements, one action each; Addresses adds the book of addresses and takes it
  along when a user is deleted.
* **`Reviews`**: create, update and remove check first; then Write, AddUp, Commit are
  the statements of the transaction. The list of products to review is two reads
  (ListOrders, ListOffers) and stays open until ClosePage; `since` is what changed after it
  was read. **`Profiling`** extends it with the cron that
  profiles its users batch by batch and the calculations of one batch in parallel.
* **`Activity`**: Track inserts the activities of a request, Find and Increment or
  Insert write the history of each view, unless the entry or its key is not as it was found
  (Miss), the product or the account is not there (Refuse) or the database fails (Fail);
  Remove takes a product or an account away, and its entries with it. **`Jobs`** composes it with the queues: a worker
  takes a job, its handler goes through the statements of its kind, Finish is Bull's
  move to completed, waiting or failed; Crash, LoseLock and Stall are the faults that
  Bull recovers from.
* **`Recommend`**: a request is up to four reads (ReadSimilar, ReadOrders, ReadActive,
  ReadBest, ReadDetails, ...) and Keep, which answers and fills the cache.
* **`Trends`**: Detect and DetectSeasons list products, AnalyzeProductTrend and
  AnalyzeSeasonalPattern classify one. Requests of one millisecond share an entry of
  the series (Stamp).
* **`StorefrontProofs`** (and Restocking), **`PaymentsProofs`**, **`DealsProofs`**,
  **`CouponsProofs`** (and Reviews, Profiling, Recommend, Trends), **`TaxonomyProofs`**
  (and Browse, Showcase), **`JobsProofs`** (and Activity), **`CatalogueProofs`** (and
  Sessions, Addresses): theorems and proofs. **`Sums`**: lemmas about sums over finite sets.
* **`MC...`**: values of the constants for TLC and symmetry sets. `MCBrowse` and
  `MCDiscovery` put modules that share nothing side by side: a variable `topic` chooses
  which of them a behaviour explores, so that their state spaces add up and do not
  multiply. `MCPayments` and `MCJobs` bound what a behaviour combines, for the same end.

Variables commented "history" or "ghost" record what happened so that a property can
speak about it. No guard of the code reads them (`voids` and `started` also bound
the models). Operators commented "Mutant", or "what ... would do", are plausible bugs:
no specification uses them; each shows that some property would notice.

### Abstractions

* Prices (but for coupons), currencies, names, texts, slugs, DTOs and most
  reading endpoints are left out. So are permissions: any request may come.
* Integers are unbounded; the 32-bit columns are far from the values of a shop.
* *Orders, carts.* The items of an order that name the same sku are put back together;
  `create` checks them one by one, as the code does. In `addToCart` an absent variant
  is `undefined` for Prisma and matches any line of the product; in
  `mergeAnonymousCart` it is `null` and matches only a line without a variant
  (`Matching`, `LinesFor`). An anonymous cart names each sku once. `update` without
  a change of status is no step of `Orders`; in `Payments`, where it matters, an edit
  may change either status column.
* *Payments.* A signature or checksum is whether both sides have the keys (`Keyed`,
  `Signed`). Each UPI application is a provider of its own. Stripe, cash on delivery and
  most UPI applications answer a verification without asking, and the model does too;
  Paytm answers under `STATUS` where the code reads `status`, so that it never
  verifies, and it and BharatPe know the order as `ORDER_` and the id, so that their
  webhooks find no payment. A webhook that finds nothing changes nothing: no step. A
  client may verify a payment with any charge, of another payment or of none: Razorpay
  answers for the charge, and neither its order nor its amount is compared with the
  payment's. A key of None stands for a client that sends no idempotency key.
* *Deals.* A type stands for deal type and discount together, two columns of the
  key of a group that behave alike. Which product a request to apply a deal names is
  left out: it need not be the deal's. Deletion of products is left out there.
* *Coupons.* Money is in hundredths. The products and categories that an offer is
  limited to are resolved to a set of products when the offer is written. Dates are
  reached by a step (Pass). The client sends a subtotal and quantities, of any sign and
  unrelated to each other; prices are those of the list. An update may send `null` for a
  limit, which passes its validation. NaN is not modelled.
* *Catalogue.* An order is of one unit. The variants of a form are compared with the old ones
  by the code that was sent, which may be none; the code that such a variant is given
  afterwards is any that is free. *Taxonomy*: a product may be filed anywhere
  that exists.
* *Browse.* In the listing of a category the condition on the categories replaces that of
  a search, in the filter options the search replaces the categories (`Hits`: the products
  it finds there); for a category that is gone the filter options count every product, and
  a read of the walk that fails leaves the category alone. Guests see open shops,
  sellers their own products. A listing without a category is one query and left out. *Showcase*: which positions an administrator sends with an image is left
  out; the transactions are Read Committed, and rows locked are waited for.
* *Sessions.* Passwords are not modelled: a comparison goes either way. The hash of the
  refresh token covers 72 bytes, which hold its header and the start of the email, so
  that it matches every token of the user; a session is a column that is null or not.
  Administrators' long absence and password age are flags that a step may set (Age).
* *Activity.* Guests have no unique key in the history (NULL). Product ids are the
  client's and only looked at by the foreign keys of the history; every error there is
  caught. What else a removal of a product or an account checks is in other modules.
  markConversion sets a flag that nothing reads and is left out.
* *Jobs.* Priorities, delays and the backoff between attempts are left out: a waiting
  job may be taken at any time. Handlers that only report progress have no effect. A
  fault is a crash, a lost lock or an answer lost after its effect. How Bull hands out
  and recovers jobs is external, modelled from the options that the code gives it.
* *Recommend.* Nothing in the repository writes `product_recommendations`, so that
  the reads of it find none. A product is bought once per order. A kept answer may expire
  at any time. The default of `includeProduct` is taken.
* *Profiling* leaves out preference vectors and next best actions; *Trends* scales
  the windows of 1, 7 and 30 entries to the bounds of the run and counts in hundredths; an
  empty series has no spike.

## The runs

| Run | Instance | Distinct states | What it shows |
|---|---|---|---|
| `orders` | 2 products and a variant, 1 order, 1 cart line, 2 requests, 2 crons | 818,838 | where the units of an order go and how often they come back |
| `reservations` | a product and its variant, 2 cart lines, 1 call, 1 cron, 1 crash | 529,586 | who moves cart lines and reserved units; release of expired lines (liveness) |
| `restocking` | 2 products and a variant, 2 orders, 2 calls of the inventory service | 846,142 | stock against the logs; who takes it below zero |
| `payments` | 1 order with 1 payment at Stripe, Razorpay, Paytm, a key, edits, 3 events; 2 orders with 2 payments at Razorpay, Paytm, 2 events of one charge; 2 calls | 3,041,940 | what payment and order may say, and on which captures it rests |
| `deals` | 2 deal rows, a product and the placeholder, 2 users, 2 calls, 3 edits | 1,540,552 | how far a limit is overshot, what is counted, when times get out of order |
| `coupons` | 2 coupons, 2 codes, 2 products, 2 orders of one buyer, 3 edits | 1,138,438 | whose use is counted, how far a limit is overshot, what a discount is; refinement |
| `catalogue` | 1 product, 3 variant ids, 2 codes, 1 order, 2 editors, 3 edits | 588,922 | column against row, which products go, variants through an edit |
| `taxonomy` | 3 categories, a brand, 2 products, 2 editors, 1 shopper, 5 edits; 1 product, 2 tags, 3 images, 1 user | 824,437 | the tree, places, what a category shows; tags, images, wishes |
| `accounts` | 1 user, 2 requests, 2 visits, 2 addresses, 6 operations | 1,314,201 | lockout, sessions, the default address |
| `reviews` | 2 users, 3 orders, 2 products, 2 requests; 1 reader, 2 orders; 2 profiling runs; 4 questions; 4 trackings | 2,031,380 | ratings, offers, segments, lists, trends |
| `background` | 1 job, 2 workers, 3 faults, a view; 2 visits of up to 2 of 3 views of 2 products by 1 user and guests, cleanup | 358,911 | mails, batches, views; every job ends (liveness) |
| `oversell` (violation) | 2 orders of one unit | 9 | selling does not lower what the check reads |

* `orders`. `StockIsOpeningLessOrdered`: a row lost exactly what was ordered from it,
  and cancelled units never come back to it. `ReturnsBracketed`,
  `MirrorExplainedByReturns`: every committed cancellation is logged in full, no
  request logs what it did not void, and the mirror holds what the logs explain,
  whatever stops half way. `AvailabilityMovesOnlyByCleanup`: stock - reserved, which
  every check reads, is moved only by the cleanup.
* `reservations`. `LineFallsOnlyByUpdateOrStaleMerge`: no cart line loses units except by
  its user's update or a merge that overwrites. `ExpiredLinesReleased`: under fairness
  of the cron every expired line is released, unless some expired line has no row.
* `restocking`. `StockMatchesLedger`: a row is its opening stock plus the logs less the
  orders, up to logs not yet applied, unless a call wrote an absolute value over a
  change it had not read. `NegativeOnlyBySaleOrIncrement`: logs never take a row
  below zero.
* `payments`. `PaidOnlyIfCaptured`: a payment that is PAID at a provider which asks its
  gateway was verified with a charge that this gateway captured; that the charge was
  made for another order is possible. `OrderPaymentBacked`: an order's payment status was
  once that of one of its own payments, or an edit's. `PaidPaymentPaidOrder`: payment and
  order agree between calls unless disturbed. `PaidLeftOnlyByRefundWebhookOrStaleVerify`.
* `deals`. `OvershootBounded`: with two requests in flight a limit of one is overshot to
  two and never further, unless it was lowered to what had been used.
  `CounterCountsUses`: every use is counted once. `BackwardsOnlyIfOvertaken`: a deal
  ends before it starts only if an update was overtaken.
* `coupons`. `CreditedAsGranted`: the coupon that gave a discount is credited, unless
  its code has belonged to more than one coupon. `OvershootBounded`: at most as many uses
  beyond the limit as clients held the coupon at once. `DiscountWithinTotal`: a
  fixed amount is not above the subtotal that the client sends, and a percentage of at
  most a hundred not above that or the list price of the goods wanted, which may be more
  than the subtotal. And
  `ImplementsLedger`: the refinement of `UsageLedger`, under the mapping stated in
  `Coupons` (status of a row, rows of `coupon_usages`, `usageCount`).
* `catalogue`. `ColumnAheadBySales`: the column differs from the row by the units sold
  and returned since the two were written together, except where an edit blurred them.
  `OrderedProductKept`: an order loses its product only if it was placed between the
  two steps of the removal. `VariantStockSurvivesEdit`: an edit that changes the stock of
  a variant is refused as a whole, unless its variants were replaced meanwhile or the form
  did not send the variant's code: then the stock is overwritten under the code that the
  variant is given again, and no row of the inventory hears of it.
* `taxonomy`. `TreeUnlessOvertaken`: two concurrent moves can close a cycle, and nothing
  else can. `PlaceLostOnlyIfSlipped`: only what was filed under a category while its
  removal was counting loses its place. `ShownUnlessMoved`: a shopper is shown
  what is below the category but for categories that were moved, created or removed
  since the walk began, unless a read failed, and nothing that is not below it or below a
  category moved since. That listing and filter options treat a search differently is in
  the model, without a property: no document says that they agree.
  `EditsMixOnlyIfOvertaken`, `WishRefusedOnlyIfOvertaken`: tags and images are those of one
  edit, and a wish is refused only to somebody who was overtaken.
* `accounts`. `AttemptsBounded`: at most as many wrong passwords beyond the limit as
  requests in flight. `SessionOnlyByLogin`: after a logout a session comes back only by a
  login, or by a refresh or login that the logout overtook. `OneDefault`.
* `reviews`. `RatingIsOfReviews`: the rating is of the reviews unless two transactions
  overlapped, and the next one puts it right. `OffersAreOpen`: what is offered for review
  can be reviewed, and what can be reviewed and is not offered was reviewed from another
  order, but for what changed after it was read. `CustomersAreNeverCounted`: profiles of buyers fail
  (`user-profiling.service.ts:532` selects placedAt, `:353` reads createdAt), so that the
  segments of customers stay empty. `ListsOpenProducts`, `EmptyOnlyIfNothingStayed`: what a
  list may hold and when it is empty. `FewActivities`: a series grouped by timestamp is
  flat whatever happens, until two activities share one, and has a spike just when it
  has one to seven entries (`Mid`).
* `background`. `MailsAsReported`, `BatchesAsReported`: a completed job did its work, and
  did it more often than reported only as often as an answer was lost or the job was
  found stalled. `ViewsAccountedFor`: every view is counted by an entry, in flight, counted
  by an entry since deleted, missed, refused or lost to an error; refused only when the
  product or the account is not there; guests' views are never missed, and of a
  signed-in user's only as many as others could get in the way of. `JobsSettle` (liveness).
* `oversell` finds a violation of the guide's "Set up proper inventory tracking to avoid
  overselling" (`docs/PRODUCT_MANAGEMENT_GUIDE.md:400`): an order lowers both
  counters whose difference `create` checks, so that any number of orders is accepted.

### Bounds

Two requests are the least with which one can overwrite the other; what a third
would do is what one of the two does again, and where the number matters
(`OvershootBounded`, `AttemptsBounded`) the property is stated with it and, for deals,
proved. `orders` has one order because orders only meet on the inventory row, which
is the subject of `restocking` and `oversell`; it needs a product, a second product and
a variant so that an order spans rows and a row serves a product and a variant.
`MaxTimeline` and `MaxVoids` leave room for an order voided twice. `reservations` has
two lines, so that a merge, an add and an update can meet on one and the cleanup has
one left when it fails; three units let a quantity rise twice. `payments` takes one
order through everything, with three events for a failure, a capture and a refund, and two
orders through charges that are taken for each other's, with a capture and a refund of
one of them (`OneOrder`, `ChargesOnly`); the applications not in its instance behave like
one that is, and the theorems cover them. `deals` allows three operations of
administrators, which is what it takes to create a deal and to have one update overtake
another. `coupons` has two codes and two coupons, so that a code can pass from one to
the other while a client holds it, and two orders, so that a limit of one is overshot.
`catalogue` has ids for two generations of variants, of which the second is replaced
again. `taxonomy` has three categories, with which a cycle takes two moves through a
third, and five operations to build them and move. `accounts` scales the wrong
passwords on record at which a login blocks, 4 for users and 2 for administrators, to 2
and 1 (`Patience`, `AdminPatience`). The windows of the trends are scaled to 1, 2 and 4
entries. `background` has one job with all its attempts: jobs meet
only at idle workers; two faults are what it takes for Bull to give a job up, and
the third is an answer lost besides. Jobs and views meet only in the cleanup job, so that
faults and the other kinds of job are explored with one view (`Lively`), and three views, of
products that may go, with a cleanup that runs without faults (`Calm`).

`CHECK_DEADLOCK FALSE` is in every configuration because the bounded systems do
stop: when every order is placed, every operation that the bounds allow is made and
nothing is in flight, no step is left, as in a shop without customers. Nothing in
the code waits for another request, other than for a row lock held by one transaction
at a time.

`SYMMETRY` is used where the runs have only safety properties, and only for values that
nothing in the model tells apart.

### Fairness

`ExpiredLinesReleased` assumes weak fairness of each instance's cleanup, as one action:
the cron fires every five minutes and a run that has begun goes on to its next line.
`JobsSettle` assumes that a free worker takes a waiting job (Bull polls its queues),
that a stalled job is found (Bull's stall check, which the code leaves on), and that
a handler that is not interrupted goes on. Crashes, lost locks, lost answers and
serialization failures are not fair and are bounded (`MaxStops`, `MaxFaults`): a server
that dies at every run releases nothing. Customers are not obliged to do anything.

## What is proved

The proof modules are checked by TLAPS to the last step, from the named assumptions on
the constants (sets of ids that do not overlap with the null values; bounds that are
numbers; finitely many requests in flight, workers or coupons where something is
counted), for every number of products, users, orders, requests, jobs and crons. The
proofs do not use fairness or the bounds' values. The theorems about `Showcase`,
`Sessions` / `Addresses`, `Reviews`, `Profiling`, `Recommend` and `Trends` have the
assumptions as hypotheses (`ShowcaseAssumption`, `AccountsAssumption` and so on), which the
instances of TLC satisfy (`MCBrowse`, `MCAddresses` and `MCDiscovery` assume them).

**`Sums`** is what the other proofs know of `SumFunctionOnSet`: its type, that it takes
one term at a time, that changing one term changes it by as much, that it is monotone
and additive. The library's rules of induction have operators as parameters, which the
provers cannot instantiate; the lemmas use instead that a non-empty set of subsets of a
finite set has a smallest member (`Smallest`), so that a sum that is wrong somewhere is
wrong at a smallest set.

**Storefront.** `TypeOK` is not inductive: RestoreItem adds the items of the order
a request is about, which must exist, and MergeCommit writes to lines found
earlier. `IInv` adds `RequestsKnowOrders` (a request in flight names an order that it
read as open; `TerminalIsLeftByStaleRequests` is then immediate), `CallsKnowLines` (a
line found by a merge is still for its sku, or gone; `LinesFallKnowingly` reads its
exceptions off lemma `LineMoves`) and `QuantitiesPositive` (so that a release raises
availability; `SalesLeaveAvailability`). `SalesAreCountedOnce` adds that a row that had
stock stays and names no variant (`StockedRows`), and sums the items of the orders.
`ReturnsAreBracketed` and `MirrorIsExplained` need what each request in flight owes: the
units it has still to log (`Owed`), those it has put back but not logged (`Unlogged`)
and those it has logged or put back neither (`Kept`). Each step has an `Effect` on these
counts and on voids, logs and mirror; logs and what is owed never exceed what the voids
of the order call for (`OrderBalances`), and the mirror lies between two sums of them
(`MirrorBalances`).

**Restocking.** `RestockingTypeCorrect` extends `IInv` to the calls of the service, whose
reads name rows that stay (`UpdatesKnowRows`). `LedgerExplainsStock` is
`StockMatchesLedger`, with the logs that calls have still to apply (`Dues`) as a sum over
the calls. `LogsLeaveNoDebt` (`NegativeOnlyBySaleOrIncrement`) needs that a log in flight
was read from a row and clamped. `StatusIgnoresSales` states `StatusWorsensOnlyByInventory`.

**Payments.** `IInv` says what a call in flight knows: its payment exists and is of its
order; an intent not yet inserted belongs to one call; every PAID or REFUNDED about to
be written has a cause among the charges that the row named or the call was sent
(`Causes`, which with the monotony of the gateway yields `NoInventedCapture`, `OrderStatusHasACause` and `RefundsFollowPayments`); an order with
one payment and no overlapping calls has at most one call, which has written the
payment before the order (`Undisturbed`, for `PaymentAndOrderAgree`).

**Deals.** The four properties are inductive together with `CallsKnow` (what a
request carries at each stage) and `TimesKnown` (the times of a row about to be
inserted are in order, or its template had been overtaken). `LimitOvershootIsBounded` is
an argument about cardinalities: uses counted and uses about to be counted stay below
limit plus requests.

**Coupons.** `Refinement` proves `Spec => ImplementsLedger`: each step maps to a step of
`UsageLedger` or leaves it alone. It needs an invariant: a coupon that has been used, or
whose removal has found it used, is on the books; a disabled coupon has been used; an
unused one counts nothing (`UsedStays`). `CreditGoesToTheGrant` needs that what a client
found by a code has held that code (`Knows`) and that codes are remembered; a code with
one holder then leads back to the coupon that granted. `DiscountsAreCapped`: every
discount granted was computed by `Discount` from the subtotal and the goods that were sent
(`Priced`), and the listed part of the goods, quantities below zero included, is at most
the sum of those wanted. `OvershootIsBounded`: uses and the grants
outstanding stay below the limit and the most clients that held the coupon at once
(`Within`); a grant checks the counter, a report moves one from the grants to the uses.

**Taxonomy.** `TreeKept`: the path that a move has climbed ends outside the category that
is moved. The invariant says so without recursion (`Climbed`): every set of categories
that holds the new parent and is closed under the parents that were read holds the
category the climb has reached; once the climb has ended there is no such set. A cycle
after the write would be one, unless a category of the path has been moved since.
`PlacesKept`: what is left under a category whose removal has counted, slipped there.
**Browse**: descendants are the least set closed under children, so that below a category
on a cycle every category has its parent there, which is a set without a root, against
`TreeKept` (`BrowsingEnds`); the categories that the navigation does not show would be
another (`NavigationShowsAll`). `SubtreesAreShown`: what a walk has read it has read
whole, but for what has moved since, and what it has still to read stays pending
(`Walking`), so that at its end nothing is below what was found and not found itself; and
what strayed in without a move above it would be a set without a root (`NothingStrays`). **Showcase** (in the same proof module): what a request knows as
long as nobody has overtaken it (`KnowsTags`: a transaction has seen every tag it does not
overwrite; `KnowsImages`: every image, or a position past the last; `KnowsWish`: a wish is
as it was read), which gives `EditsSeeEachOther` and `WishesAreHonest`.

**Jobs.** `MailsAccountedFor`: for each job of the mail queue, mails whose answers were
heard, plus runs that may still send or have failed and are not yet taken off the job,
are at most the unheard answers, the stalls and the run that Bull reports (`Paid`). A lock is
held only on an active job, and a job found stalled twice has failed (`Sound`).
`BatchesAccountedFor` counts rows that stay RUNNING, and those that lost runs will still
write, against the run in hand, failed attempts and stalls (`Explained`).
**Activity** (in the same proof module): `ViewsAreAccountedFor` has three parts. Views
tracked are those in the history, in flight, uncounted or of entries deleted (`Balanced`,
sums over the rows and the requests). A view is refused only of what is gone or never
was, which stays so (`RefusedInv`). And misses, with the requests that will miss (`Doomed`), are
bounded by the requests and the entries deleted (`Missable`), because a signed-in user
has one entry per product (`OneEntry`).

**Catalogue.** `ColumnExplained` and `OrdersKeepTheirProduct` are inductive together with
the foreign keys (`Linked`: a variant has a product on sale, an order names what is there),
the blank state of a product not yet made (`Untouched`) and what a request is about (`Armed`:
an order of a product whose removal has counted was placed since). A row that is
made or synchronized gets the stock that the column gets, which is a lemma about
`SyncedRow` for every form. `EditsKeepVariantStock` follows from the check that an edit makes
of the variants it read, by the codes that were sent: no other step deletes a variant and
inserts one.

**Accounts** (in the proof module of the catalogue, with which they share nothing).
`GuessesAreBounded`: guesses made and those about to be counted by a request that read a
count below its limit stay together below limit plus requests, unless one is about to
block (`GuessesKnown`). `SessionsComeFromLogins`: a login or refresh in flight that was not
overtaken finds the account as it read it (`RequestKnows`), and no other request writes a
session (`OthersStartNone`). `DefaultsAreSingle`: requests of one user in flight together
have marked each other (`Crowding`); one that is alone with its user's book knows what it
has cleared (`Cleared`), and, if the user was not disturbed, that the book had one default
before (`Undisturbed`); the books are compared by their ids and their defaults, with one
lemma for each of the three ways in which a book is written (`MarkedIs`, `AppendIs`,
`WithoutIs`).

**Discovery** (in the proof module of the coupons, with whose sums they share the lemmas).
`RatingsAreOfReviews`: a transaction that has added up and was not overtaken holds the
aggregate of the reviews with its own change put in (`AddedUpRight`); a commit on another
product leaves that aggregate alone (`StillAddedUp`), one on the same product overtakes it.
`OffersCanBeReviewed` says of an open page what each of its reads found and what has changed
since (`PageRight`): an order or a review that is not in `since` is as it was read.
`CustomersAreNoSegment`: only a calculation that found no purchase is stored, its value and
risk come from the activity alone (`OfNonBuyer`, `Harmless`) and match neither of the two
segments. `AnswersAreOpen` and `EmptyIsExcused`: a request in flight lies on the way of its
kind of list (`Route`), has picked products once each and not its subject, and what stayed
open since its first read is still open (`Honest`); of the filters
it matters what they return (`KeptIs`: the wanted members, each once if it came once).
`FewActivitiesTellLittle`: as long as no two activities share an instant a series is of
ones, of which every window has the same average and no
variance (`MetricsFlat`, `ChangeFlat`, `SpikeEarly`), because a sum of ones is a
cardinality (`SumOnes`); and with fewer activities than bins one bin is empty and another
is not (`FewAreCertain`), so that the amplitude is full whatever the threshold.

Five theorems state properties that no run checks: `RefundsFollowPayments`
(`NoRefundWithoutPayment`), `TerminalIsLeftByStaleRequests`
(`TerminalLeftOnlyByStaleRequest`), `NoOrphanedUse` (`UsesHaveDealAndUser`),
`StatusIgnoresSales` (`StatusWorsensOnlyByInventory`) and `NavigationShowsAll`
(`NavigationIsWhole`).

**Only model-checked**: the liveness properties `ExpiredLinesReleased` and `JobsSettle`
(fairness and ENABLED are out of the prover's reach). Every other property of a passing
run is a theorem. What the runs still add: they find that each property can be broken by a
plausible bug, and that every action is taken.

## Not modelled

* *Search*: its module is commented out of the application, no state depends on it.
* *Real-time analytics*, and the methods of the profiling and trend services that answer
  or refresh single profiles and trends: called by nothing.
* *Stores, promo banners*: one table each, single statements guarded by unique keys.
* *Uploads*: I/O with a bucket. *Infrastructure*: bootstrapping, configuration, filters,
  rate limits, health checks; framework glue without state of its own.
* Formatting, statistics and listings not named above; slugs.

## Plan

1. An abstract stock ledger that `Restocking` without overlapping calls refines; the
   counter of `Deals` against `UsageLedger` (its uses go with a deleted user while
   the counter stays, so that the ledger needs a step for it).
2. Deletion of a product across `Deals`, `Reviews` and `Catalogue`, which each module
   now sees from its own side.
3. The last timeline entry of an order at rest against its status, and lines that two
   merges insert twice (`@@unique` does not compare NULLs), both of which are in the
   models without a property of their own.
