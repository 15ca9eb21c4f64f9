# Verification of meme-mcp

meme-mcp is a small multi-user service: friends on an allowlist upload meme
templates, search them, and render memes, from a browser and from MCP clients.
This directory holds TLA+ models of its stateful parts, TLC runs that check them on
small instances and TLAPS proofs of the most important properties for every value
of the parameters.

## The system: components, state, operations

One web process (`app.py`, FastAPI, one event loop) serves browsers and MCP clients.
Operator commands (`python -m meme_mcp ...`: `allowlist`, `pat`, `pin`, `oauth-gc`,
`gc-uploads`, `gc-renders`, `reindex-embeddings`, `seed-memegen`, `translate-corpus`,
`migrate`) are separate processes, some of them daily cron jobs. All share one SQLite file,
the allowlist file and the blob stores; every store method opens its own connection and is one transaction. So the
unit of interleaving between processes is the store call, and inside the server a
handler is preempted only where it awaits.

| component | state | operations | what is hard | what makes it correct |
|---|---|---|---|---|
| OAuth server (`oauth/`) | clients, pending requests, approvals, codes, refresh and access tokens | register, authorize, consent, exchange, rotate, revoke, oauth-gc | several transactions per handler; retries of a rotation; removal from another process; stamps written late | one grant per consent; no scope beyond consent; a revoked family stays dead; the retry window is fixed; the sweep spares clients in use |
| Identity (`auth/allowlist.py`, `google_pins.py`, `session.py`, `authorization.py`, `__main__.py`) | allowlist file, pins email/subject, cookies | sign in, add, remove, pin | unlocked read-modify-write of a file; removal in several steps; sign-in racing a removal | a removed friend is not authorized; a re-invited email needs a fresh sign-in |
| Personal access tokens (`auth/pat.py`) | hashed tokens | issue, verify, revoke, status | two statements per revocation; expiry | at most one active token; a revoked one never verifies |
| Uploads (`upload/`, `db/uploads.py`, `db/templates.py`, `image_store.py`) | pending rows, templates, blobs keyed by content | analyze, approve, discard | long awaits; blobs shared by rows; crash between row and blob | a template has its image; one template per image; nothing leaks |
| gc-uploads (`cli/gc_uploads.py`) | none of its own | sweep | works from reads that age | deletes only what nothing refers to; deletes it eventually |
| Renders (`db/receipts.py`, `rendering/signing.py`, `cli/gc_renders.py`) | rendered blobs, receipts | generate, sign, verify, sweep | retention against URL lifetime; eviction by size | a URL handed out keeps working for its lifetime |
| Web session (`app.py`, `auth/session.py`, `web/csrf.py`) | one signed cookie, shared by the tabs of a browser | view, act, begin a sign-in, callback, logout | each response replaces the whole cookie, in the order responses arrive | a page's token acts for its friend only; a logout holds; a sign-in returns where it began |
| Embeddings (`db/vectors.py`, `cli/reindex_embeddings.py`, `embeddings/client.py`, `cli/migrate.py`) | vectors, meta rows, a lock on the storage | reindex, forced reindex, guard, search, migrate | every statement commits on its own; the model changes between runs | a search compares vectors of one model; a finished reindex is fresh; the lock goes |
| Template metadata (`metadata_locales.py`, `vlm/drift.py`, `upload/service.py`) | a zh-TW block per template, with who wrote each field | draft, gate, edit, stamp, merge | uploads of one image approved in any order, with any part of the block sent back | a friend's text is never replaced by a machine's; a refused text is never shown |
| Corpus (`cli/seed.py`, `corpus/`) | corpus templates, overlay file, manifest | import, plain seed, translate-corpus | files read at different times; kills; a checkout that moves | imports take no translation away; the manifest pins what is stored |
| Rate limiters (`limits.py`) | window per key, in memory | hit | window boundary | not modelled: see below |
| Rendering, validation, i18n, config, audit | none that other steps read | | | not modelled: see below |

`PROJECT.json` lists every component with its status and every hazard at its line.

## Modules

| module | models | extends / used by |
|---|---|---|
| `OAuthGrants` | the OAuth server, with as much of identity as it reads | `MCOAuthGrants` (symmetry), `OAuthGrants_proofs` |
| `Identity` | the allowlist file, pins, both sign-ins, consents, exchanges and rotations as far as they ask or outlast the allowlist, the operator's `allowlist` and `pin` commands | `MCIdentity` (names, bound, symmetry), `Identity_proofs` |
| `GrantLifecycle` | abstract: who is eligible for a grant, offered one, holds one | implemented by `OAuthGrants` and by `Identity` |
| `Uploads` | analyze, approve, discard and the gc-uploads sweep | `MCUploads` (a fixed order of ids and names), `Uploads_proofs` |
| `PersonalTokens` | issue, revoke, verify and status of personal access tokens | `MCPersonalTokens` (symmetry), `PersonalTokens_proofs` |
| `TokenSlots` | abstract: which token works for an owner, and which are spent | implemented by `PersonalTokens` |
| `Renders` | generate, receipts, signed URLs and the gc-renders sweep | `MCRenders` (the sweeps' flags), `Renders_proofs` |
| `BrowserSession` | the cookie, the tabs, both sign-in flows, the CSRF token | `MCBrowserSession` (friends, bounds, symmetry), `BrowserSession_proofs` |
| `Locales` | operators on a locale block: gate, stamps, sanitizing, merge | extended by `Templates` |
| `Templates` | approvals of metadata, corpus import, plain seed, translate-corpus | `MCTemplates` (texts, bounds, symmetry), `Templates_proofs` |
| `Writers` | abstract: who wrote each field, and how that may change | implemented by `Templates` |
| `SemanticIndex` | reindex, guard, search over vectors, `migrate` | `MCSemanticIndex` (models, configurations), `SemanticIndex_proofs` |

### OAuthGrants

A table is a function from the keys of its rows to records of the columns that
matter. `srv`, `cli` and `gc` say where the server's current handler, an `allowlist
remove` and an `oauth-gc` are; an action is one store call or file access together
with the code up to the next one. Handlers here never suspend between store calls,
so there is one `srv`. `RotateRead`/`RotateMint` split `rotate_refresh_token` where
its transaction begins (its SELECT runs before it), which is where `allowlist remove`
can slip in. `known` holds the token pairs whose response reached the client, so the
client's retries are those it can really make. The histories `grants`, `consented`,
`dead` and `evicted` record what the properties speak of and influence nothing.

`OAuthGrants` implements `GrantLifecycle` with one holder per friend, client and scope:
eligible is what was approved on a screen (`consented`), offered what a redeemable code
carries (a code being exchanged included), active what a usable token carries or a rotation
past its read is about to mint. So a grant whose last token is gone comes back by a code
only, and nothing is ever obtained for a scope nobody approved.

Abstractions. One identifier names the access and the refresh row of a mint. A
Google friend is a subject; that it is found by email is left to module Identity. Secrets,
PKCE, redirect URIs, `state` and `resource` are not told apart. A requested scope
set is a nonempty subset of what the token has (the SDK's default is all of it).
Requests the SDK rejects change nothing. One `allowlist remove` and one `oauth-gc`
run at a time. `Tick` needs an idle server: one unit of time outlasts any handler.
Sessions only grow: a signed cookie outlives a removal. `Revoke` is one step. Assumed of
the constants: positive lifetimes, but for the client lifetime, which is any integer, because
nothing validates `oauth_client_gc_ttl_days` or compares it with the refresh lifetime.

### Identity

`file` is the set of lines a reader finds, `pins` the table `google_pins`. `cmd[w]` is an
operator process inside `allowlist add` or `allowlist remove`: the read with the change
computed from it (`ReadFile`), the truncation and the write of `write_text`
(`TruncateFile`, `WriteFile`), then for a removal the lookup of the subject, the deletion
of the pin and the revocation. `srv` is the handler under way, at its points between store
and file accesses: a Google sign-in, a consent (`ConsentGithub` or `ConsentGoogle` and
`ConsentListed`, then `CreateCode`), an exchange (`RedeemCode`) or a rotation (`RotateRead`),
both of which end in `IssueTokens`. No handler suspends there, so there is one, but commands
are other processes and step in between. Every process may die at
any point, and a removal may be run again. A principal keeps the spelling its provider
returned (`Accounts`), an operator types any of `Spellings`, a line holds `Lower` of it.
The histories are `asked` (what the commands so far call for), `overlapped`, `raced`
(mailboxes whose pin a removal could not see) and `hidden` (principals whose grants
were out of a removal's reach).

`Identity` implements `GrantLifecycle` too, with one holder per friend, eligible once signed
in (theorem `GrantsImplementLifecycle` of `Identity_proofs`; no run repeats it).

Abstractions. `offers` and `grants` are the principals with an unexchanged code and with
a live family; `OAuthGrants` has the rest. When writers overlap, any part of what the
others wrote may stay behind the shorter text. Mailboxes are canonical. Comments and hand
edits of the file are left out, as is a removal of a mailbox without its prefix. Sessions
only grow. The properties say nothing once commands have overlapped or died with
the file open (`overlapped`): then any line may be gone, which is what
`InvitesLostOnlyToOverlap` says of it.

### Uploads

`analyses` are the analyze calls awaiting the vision model; they may last several
ticks. `srv` is the rest of a handler's uninterrupted stretch: the put after the row,
or the deletion after the template. `gc` carries the sweep's stale reads: candidates,
protected paths, paths reclaimed. `GcExpired`, `GcTemplates`, `GcLive` are its three
reads, `GcBlob` and `GcRow` one turn of its loop. Candidates are taken in any order
(the code orders by expiry and random id). `marks` is history: for each image, which
of the named windows it fell into.

Abstractions. An image stands for its bytes, hash and path (no collisions of the
8-digit prefix). Names are slugs. put is atomic and succeeds. Metadata, slots,
near-duplicate warnings, the upload limiter and validation are data or guards on one
request. `ApproveUpsert` reads the pending row and the stored template and writes the
template in one step; a sweep that takes the row between them is not seen. One sweep at a time. `cleanup_expired` is called by nothing but tests.

### PersonalTokens

`pats` is the table as a sequence, so that an id is a position. `proc[w]` is the server
(`Web`: no handler suspends between its statements) or a `pat` command: past the clock
reading of `issue_pat` and before its transaction (`IssueStart`, `IssueCommit`), or between
the SELECT and the UPDATE of `revoke_active` (`RevokeSelect`, `RevokeUpdate`), which are
two transactions because the SELECT opens none. `verify` and `current_status` change
nothing the properties tell apart and are the operators `Usable` and `Status`. `Init` is any
table an older version with bare logins can have left. The histories say which processes an
issue has passed (`overtaken`), whose last token came from such a process (`crossed`), and
who has been told since that nothing works (`cleared`). `TokenSlots` says what of this a
friend relies on: one working token, replaced by an issue, and none that works again
once it has failed; `PersonalTokens` implements it.

Abstractions. `issue_pat` and `issue` read the clock one after the other, here once.
Hashes, capability and `last_used_at` are left out; a command's Google argument is the
subject it resolves to. A friend's removal deletes no row: `is_authorized`, asked on every
request, is in `Identity`. The `MaxRows` bound stops issues, hence `CHECK_DEADLOCK FALSE`.

### Renders

`srv` is generate between its blob and its receipt; it does not suspend, so there is one.
`gc` is the sweep: its list by age (`GcAged`), its list by size (`GcOldest`), then for
each candidate the blob (`GcBlob`) and the receipt (`GcRow`). `Surplus(S)` says which set the
loop over `all_hashes_oldest_first` ends with, ties in any order. Either may die anywhere.
The histories hold to whom and when each render was last answered, and which renders fell
into a window: `raced` (a sweep had listed it by the time its receipt was written),
`evicted` (listed for its size since), `orphaned` (its generate died). `grown` says
that a render was put or recorded since the sweep summed up the sizes.

Abstractions. A render is its bytes, hash and path, and all have the size of one; `put` is
atomic; the receipt, the signature and the answer are of one instant. Candidates are taken
in any order. Flag `ttl` stands for `RENDER_GC_TTL_DAYS`, which the daily job uses. One
sweep at a time, on the file system store. The lifetime of a URL is assumed not above
the retention, which is what the start-up check admits (`config.py:164`).

### BrowserSession

`cookie` is the session as the browser holds it: the friend signed in, the CSRF token, the
GitHub flow's state, the set of Google states (Authlib keeps a key for each) and the return
target both share. The server keeps nothing, so a request and its handler are one action
(`View`, `Act`, `Begin`, `GithubCallback`, `GoogleCallback`, `Logout`, ...), which computes a
session from the copy that was sent; `wire[t]` is the response tab `t` waits for, and `Arrive`
puts it in place of the whole cookie. Responses may be lost, or arrive in any order.
`page[t]` is what a tab shows, with the token the page was loaded with. `Unset` is a response
without Set-Cookie: whether an unchanged session is sent again depends on the installed
version of Starlette, so both may happen. The histories hold for whom a token was minted,
what the cookie last came from (`last`, which ends when a response that was overtaken
arrives) and which flows were under way when another was begun.

Abstractions. A tab has one request under way. Signature, PKCE verifiers and nonces are the
framework's. An expiry empties the cookie at any time. `Goal` fixes the page each flow is
begun for. Which forms a page has makes no difference to its token. A token is minted only
for a friend who is signed in.

### Locales, Templates, Writers

A block gives each field a text (or `Absent`) and a mark, its entry of `_meta`: who wrote it,
and the gate's verdict on what the model wrote. Texts are model values, of the model or of a
friend; `San` is sanitizing, `Drifting` what the gate refuses. `Locales` has what the code
computes with them: the gate with its one retry (`Resolved`), `Sanitized`, `StampHumanEdits`
(which compares with the sanitized proposal) and `Merge`.

`Templates` runs them. `upload` holds analyses and pending rows of one image; `Approve` is the
handler up to the store of the row, by either door (`Payloads`: no metadata, metadata
without locales, or the block as shown with fields retyped, with or without its marks), and
may die before it deletes its upload. `translator` is `translate-corpus`: it reads the overlay,
asks, truncates the file and writes it. `seeder` is `seed-memegen`: it notes commit, listing
and overlay at its start and imports slug by slug from a checkout that `Pull` may move,
or lays the placeholders of the plain seed. Each may die at any point. `lastOverlay` and
`marks` are histories: whether a translation was killed over a torn file, whether the checkout
moved during the import that wrote the manifest, and which rows were written since. `Writers`
says who wrote the text a field shows and how that may change: a friend's stays a friend's.
`Templates` implements it under the mapping `Writer`, in which a blank text is nobody's.

Abstractions. One locale, the only one there is. The drift rules are the set `Drifting`. The
model sends no `_meta` of its own (its schema has none). A friend who types exactly what the
model wrote has typed the model's text. Slots, tags, origin and near-duplicates are left out,
as is the English enrichment of the corpus. One import and one translation at a time.

### SemanticIndex

A text is the version of a template's metadata, a vector the model and text it was made from.
`job` is the reindex: a forced one clears vectors, clears meta rows and lists; then for each
row `UpsertVector` and `RecordMeta`, each committed on its own. `Boot` is the server's start
with the guard; `SemanticHits` are the templates whose score a query's vector raises. The
operator edits `config` at any time and each process reads it at its start. `migration` is
`migrate` with its lock on the storage and the reindex it starts; its child opens the
SQLite file, because `sqlite_path` (`db/engine.py`) takes no other URL, and under the lock it
succeeds only for a user whom file modes do not bind (`root`). `mixed` and `current` are
histories.

Abstractions. The score is not computed, only which vectors enter it. One reindex at a time.
The copies that pgloader and rclone make are read by nothing here. Vectors of a fallback
without sqlite-vec and of sqlite-vec itself are one table.

## Runs

| run | checks | bounds |
|---|---|---|
| `OAuthRotation` | `TypeOK`, `RevokedFamilyStaysDead`, `GraceWindowIsFixed`, `GcSparesRecentClients` | one client and family, three token pairs, times 0..3 with grace 1, refresh lifetime 3, client lifetime 2 |
| `OAuthConsent` | `OneGrantPerConsent`, `TokensWithinConsent`, refinement `ImplementsLifecycle` | one Google friend, two scopes, two nonces, codes, families and pairs; no time; `OneCommand` |
| `OAuthRemovalRefresh` | violates `RemovedCannotRefresh` | as rotation |
| `Identity` | `TypeOK`, `InvitesLostOnlyToOverlap`, `UninvitedPinsOnlyRaced`, `GrantsOutliveRemovalOnlyHidden` | one login in two spellings, one mailbox, two subjects, two operators; `OneFrontDoor` |
| `Uploads` | `TypeOK`, `BlobsLostOnlyInWindows`, `OrphansOnlyFromDiscard`, `DuplicatesOnlyFromOverlap`, `AbandonedRowsReclaimed` under `FairSpec` | two images, two names, two uploads, times 0..3 with lifetime and grace 1; ids and names in a fixed order (`InOrder`) |
| `UploadsDiscard` | violates `DiscardedBlobsReclaimed` under `FairSpec` | the same |
| `Tokens` | `TypeOK`, `AtMostOneActive`, `RevokeLeavesNothing`, `StatusAgrees`, refinement `ImplementsSlots` | one GitHub and one Google friend, the server and one command, at most one old row and three rows in all, times 0..2, lifetimes 1 and none |
| `Renders` | `TypeOK`, `AnswersKept`, `OrphansOnlyRaced`, `BudgetMet`, `AgedReclaimed` under `FairSpec` | one friend, two renders, a budget of one, times 0..3 with retention 2 and URLs of 1 |
| `BrowserSession` | `TypeOK`, `ActsForPage`, `LastAnswerHolds`, `ReturnsToItsPage` | two friends (one per provider), two tabs, two tokens, two flows with different goals; somebody is listed |
| `BrowserResubmit` | violates `ResubmitAccepted` | the same, one request at a time, nobody removed (`InOrder`) |
| `Templates` | `TypeOK`, `ProvenanceTrue`, `ShownIsGated`, `ManifestTrue`, `LocaleKept`, refinement `ImplementsWriters` | two analyses of one image, one name, two fields, three texts of the model and one of a friend; two slugs, two versions of the checkout |
| `SemanticIndex` | `TypeOK`, `ServedByOneModel`, `FreshAfterReindex`, `LockReleased` | two templates of two versions, two models of one vector length, three configurations, one of them with the wrong length |

Why the bounds suffice. Three token pairs are a first pair, a rotation and a retry (or
a second rotation); at times 0..3 with grace 1 a token is presented inside and
outside its window and a token row reaches its expiry. Two consents with two scopes
give every inclusion between a remembered approval and a new request. With lifetime and
grace 1, time 3 is the first at which a row is a candidate; of two uploads of one image the other
is then a second candidate, an expired sibling within the grace, or live, and recorded
before or after any step of the sweep. With a client lifetime below the refresh lifetime a
sweep meets clients that still hold usable tokens.
Two subjects with one mailbox are the smallest contest for a pin; two operators the
smallest overlap, and let a friend be added again before a removal is done. The
constraint `OneFrontDoor` stops at states in which commands have overlapped, where every
property is silent, keeps the GitHub account and the Google subjects from being
signed in together (they share the file, as lines that do not affect each other), and lets
one friend at a time have codes and grants, which no two friends share. `OneCommand` keeps
a removal and an `oauth-gc` apart where consents are in breadth; `OAuthRotation` has them
together. The proofs need none of these. Two overlapping uploads are the smallest duplicate: an analysis
beside a row, or two rows. Three tokens are an old
one, its successor and the one that overtakes; two of one tick and one later give every order
of the newest. Two renders with a budget of one are the smallest choice of a victim; at
times 0..3 a render ages, is generated again beside the sweep, and ages again.
Two tabs are the least in which one response overtakes another; two tokens and two flows let
a second session or flow replace the first (a run stops at `listed = {}`, where nothing
but removals is left to see). Two approvals of one image are a stored text and one that is
merged into it; two fields are the least with a block of which a part drifts or was retyped;
`raw` is the text that sanitizing changes. An approval and the corpus write different rows,
so `OneSide` looks at behaviours of one or the other; `FewTranslations` keeps overlays in which
the first slug is missing, whole, or without a field (blank or left out), and the other
missing. Version 2 of the
checkout lacks a slug. Two models of one length are the case in which no length check tells
them apart; two templates, a reindex killed between them. The proofs need no bound. `Templates`
sets `CHECK_DEADLOCK FALSE` because once all uploads are gone, under `OneSide`, nothing happens.

Fairness. `FairSpec` of `Uploads` and of `Renders` state it; the other runs check safety
alone. In `Uploads` the clock advances; a handler's
stretch finishes or dies with the server (weak fairness of `PutBlob` and
`ApproveDelete`); each step of the sweep is strongly fair: the cron job runs daily, and
it is not killed at the same step on every one of infinitely many days. In `Renders` only the
sweep is fair, each of its steps strongly and for each candidate, for the same reason. Nobody
is assumed to upload, approve, discard or generate.

## What the runs found

* After `allowlist remove` a code that was outstanding can still be exchanged, and the
  new family refreshes (`OAuthRemovalRefresh`). Every MCP call still asks the allowlist, so
  what is lost is the promise of `_revoke_oauth_grants`, not the gate.
* `allowlist remove bob` takes out the line whatever its case and revokes the principal as
  typed: the grants of the account that GitHub spells `Bob` stay.
  `GrantsOutliveRemovalOnlyHidden` lists every way a grant survives: this one, a pin
  that was gone before the removal looked (`pin revoke`, or a removal that died and was
  run again), a sign-in between its lookup and its deletion, a code not yet exchanged, and
  a handler past its last check. Each of the handler's windows is needed: a
  consent that has asked the file and not written its code, an exchange that has used up
  the code and not minted, a rotation that has read its row and not minted, and a Google
  consent between its two reads all leave a grant that the removal has passed by.
* A first sign-in that has passed the allowlist check re-creates the pin after a removal
  has deleted it, and the next invitation of that mailbox revives the old subject without
  a new sign-in; `UninvitedPinsOnlyRaced` says that this race, or a removal that
  died, is the only way to an uninvited pin.
* The sweep's reads can be overtaken, by a re-upload or by an
  approval between two of them: a live upload or a template loses
  its image. `BlobsLostOnlyInWindows` says these, and a crash before the put, are
  the only ways.
* A discarded upload's blob has no row left by which a sweep could find it, so it stays for
  ever unless its image is uploaded again, although `docs/ARCHITECTURE.md:389` hands it to the
  sweep (`UploadsDiscard`). `OrphansOnlyFromDiscard` says nothing else leaks: it exempts
  an image only if a discard took the last row that led to its blob, and only until another
  row of it comes.
* `oauth-gc` with a client lifetime shorter than the refresh lifetime, which neither the
  configuration nor `--ttl-days` refuses, deletes clients whose refresh tokens are still good:
  `GcSparesRecentClients` says they were sent longer ago than that lifetime. A sweep
  between the mint and the stamp of a client idle that long takes the client of the pair
  that is on its way.
* A consent reads the approved scopes and writes the union in two steps: a removal between
  them is overwritten (`RecordApproval`), and the friend, invited again, is not asked again.
* The allowlist takes two spellings of a login for one friend, table `pats` does not: one
  friend can hold a token under each. Within one spelling
  there is one token, and what status shows agrees with what verifies, except after two issues
  that committed against the order of their clocks (`StatusAgrees`).
* gc-renders deletes what it listed without looking again, and a put takes no lock: a
  render generated again beside it loses its blob under a fresh URL.
  `AnswersKept` says that this and the eviction by size are the only ways.
* On a 401 the review page keeps the edits "so the friend can re-auth in a new tab and
  resubmit"; signing in replaces the CSRF token, so the resubmission is answered 403
  (`BrowserResubmit`).
* A late response can put a signed-in cookie back after a logout, or take away the state of a
  sign-in; with `last` kept only while nothing overtook, `LastAnswerHolds` says
  that this and the cookie's expiry are the only ways.
* The two providers share the return target: a sign-in during which another was begun may
  return to the other's page (`overtaken` in `ReturnsToItsPage`).
* A plain reindex to a new model that dies between a vector and its meta row leaves a vector of
  the new model recorded under the old one, which the guard cannot see; so does a reindex to
  another model beside a running server. `ServedByOneModel` says there is no third case.
* `migrate` reindexes the SQLite file, and not the new database as `docs/MIGRATION.md:39` has it:
  under the lock that fails for an ordinary user, and for root it leaves pgvector empty.
  A kill leaves the storage locked (`LockReleased`).
* A slug that has any translated field is reused as it is for ever, so a field once refused is
  never asked for again; what is translated stays, but for a torn file (theorem
  `OverlayIsStable`).
* A friend's zh-TW text can be replaced by a friend but not cleared: an emptied field comes in
  unmarked and loses to the stored one (`ImplementsWriters`). A text of the model can be cleared,
  by an approver who empties the field or by a later answer with an empty one: the page then
  shows the English text.
* After an import during which the checkout moved, the manifest names one commit and hashes of
  another; after an import that died, rows are newer than the manifest. `ManifestTrue` says
  these, and the plain seed, are the only ways, for those rows only, and that the next import
  that finishes ends both.

## Proofs

Every property of every passing run is proved for all values of the constants, but for
`AbandonedRowsReclaimed` and `AgedReclaimed`: liveness under fairness is beyond the prover. Each
proof finds the inductive strengthening, shows that one lemma per conjunct (one step per
action) preserves it, and ends in a temporal step. The assumptions are those the modules state:

* `SetsAssumption`, `TokensAssumption`: kinds of identifiers are told apart.
* `RetentionAssumption`: URLs do not live longer than renders.
* `TimesAssumption`: positive lifetimes; in `OAuthGrants` the client lifetime is any integer.
* `NamesAssumption`: in `Identity`, lower case is a function onto logins, and logins,
  mailboxes and subjects are told apart; in `BrowserSession`, each friend has a provider and
  each flow a goal. `UnsetAssumption`: no session is `Unset`.
* `TextsAssumption`: model and friend are told apart by their texts. `SanAssumption`:
  sanitizing never turns the words of the one into those of the other.
* `VersionAssumption`, `NoRowAssumption`, `IndexAssumption`: types, and values that stand for
  nothing are nothing else.

`OAuthGrants_proofs`:

* `TypeCorrect`. `TypeOK` is inductive as it stands because it contains `InFlightOK`: the
  row a handler is working on exists (neither pending requests nor codes are ever deleted).
* `RevokedFamiliesStayDead`. A rotation in flight could still mint into a family, so
  `FamilyInv` adds that the row a rotation has read belongs to an existing grant that is
  not dead, that every row belongs to a grant, and that dead families are grants. `QuietStep`,
  `RevokeFamilyStep` and `MintStep` say what the three kinds of step do to it.
* `ConsentOpensOneGrant`, by `OneGrantInv`: a grant comes from a consumed nonce, and a
  nonce or code that is held between two transactions has not been used yet.
* `NoTokenEscalates`, by `ConsentInv` and `FamilyInv`: what was approved on a screen bounds
  remembered approvals, the handler's request, codes and grants; rows are within their grant.
* `WindowIsNeverExtended`, by `GraceInv`: a row's successors were minted after the row was
  stamped, a rotation in flight has no successor out of its window, and a swept row's
  identifier is never issued again.
* `GrantsImplementLifecycle`, the refinement, from `ConsentInv` and `GraceInv`. Most steps let
  tokens lapse or leave the view alone (`Lapse`, `LapseQuiet`, `RevokeLapses`); an approval
  admits (`ApprovalAdmits`), a code offers (`CodeOffers`), a first pair takes the offer up
  (`PairActivates`), and a rotation mints only what its read already held
  (`RotationLapses`). For that `GraceInv` had to say two things more: the keys of access rows
  were issued, so a fresh pair overwrites nothing; and a rotation in flight knows whether its
  row is marked, so the token it stamps leaves the view of its successor unchanged.
* `OnlyConsentedIsUsable`: what `GrantLifecycle` promises by itself, read through the refinement.
* `SweepSparesRecentClients`, by `StampInv`: no token a client was sent is younger than its
  client's last stamp, and the handler about to stamp has just minted.
* `LongLifetimeStrandsNoClient`, from the same invariant and the hypothesis, stated in the
  theorem, that the client lifetime is not below the refresh lifetime (both default to 30
  days): then no sweep deletes a client that was sent a token still usable.

`Identity_proofs`:

* `TypeCorrect`, with the PRIMARY KEY and UNIQUE constraints of the pins.
* `InvitesAreKept`, by `FileInv`: one writer at a time, who holds what is asked for.
* `PinsFollowInvites`, by `PinsInv`: what holds of every pin holds of the mailbox that a
  sign-in past its check is about to pin.
* `GrantsFollowInvites`, by `GrantsInv`, `UnpinInv` and `RevokeInv`: what holds of grants holds
  of codes not yet exchanged and of what the handler under way is about to write; a removal past its lookup knows the subject whose pin it
  deletes, or that subject is on record; and at its last step it holds a matching pair of
  principal and name.

* `GrantsImplementLifecycle`, by `AdmittedInv`: a consent under way is a signed-in friend's, and
  sessions only grow. Every step is an offer, an activation, a withdrawal or a stutter.

`Uploads_proofs`:

* `TypeCorrect`.
* `BlobsAreSafe`, by `BlobsInv`: between its reads and after them the sweep protects what is in
  use, except for images in a named window (`ProtectedInv`).
* `OrphansAreDiscards`, by `OrphansInv`: candidates can no longer be approved; what the sweep
  spares is kept by something that is not a candidate, unless a discard has taken that
  (`LedTo`); the put in flight has its live row, and the deletion in flight its template.
* `DuplicatesAreOverlaps`, by `DuplicatesInv`: an unmarked template is the only trace of its image,
  but for the row its approval is about to delete (`SettledInv`).

`PersonalTokens_proofs`:

* `TypeCorrect`; that a newest token exists is `LeastNat`, a minimum taken from well-foundedness.
* `OneActiveToken`, by itself with types: a transaction leaves only what it inserts.
* `RevocationHolds` and `StatusIsVerdict`, by invariants that say what a process between its
  two statements knows of the table if no issue has overtaken it, and that the newest token of
  a principal is the last one committed unless it is `crossed`.
* `TableImplementsSlots`, from the same invariant: a transaction revokes every row its owner can
  name, so what works afterwards is what worked for others and the new row
  (`CommitStep`); every other step only lets tokens lapse (`LapseStep`), the clock because an
  expiry never moves.
* `TokensNeverRevive`: `TokenSlots`'s own promises, an invariant and an action property, of the
  table.

`Renders_proofs`:

* `TypeCorrect`.
* `AnswersLast` and `OrphansExplained`, by `IInv`: a generate whose render a sweep lists knows of it
  (`SweptKnown`); one that no sweep has listed keeps its blob (`UnsweptStays`); the receipt of a
  kept answer has its date and is out of the sweep's reach (`Kept`).
* `SignedLast`, from `Kept` and the assumption on the two lifetimes. With equal lifetimes there is
  one instant, the last of both, at which the URL is still good and the blob may be gone;
  the theorem names it and admits no other.
* `BudgetIsMet`, by `RestFits`: what the sweep did not list fits, and a deletion does not
  enlarge the rest.

`BrowserSession_proofs` (one invariant `IInv`, a conjunct per property):

* `TypeCorrect`.
* `PagesActForTheirFriend`: a token has one owner, and every copy of it (in the cookie, a
  response or a page) is beside that owner or beside nobody; so no order of arrival pairs a
  page with another friend's session.
* `LastAnswerStands`: a marked response sets what its mark says, and an unmarked one
  that nothing overtook differs from the cookie in its token at most (`Marked`, `Timely`).
* `SignInReturns`: a copy of the session that still has a flow's state has its goal too, unless
  the flow was overtaken.

`Templates_proofs`:

* The lemmas about `Locales` come first: what the model proposes is clean past the gate
  (`AnswersClean`, `TranslationsClean`), what comes in from a page is good (`IncomingGood`: text
  presentable and mark true), and `MergeGood`: a merge of good blocks is good. `Typed` says
  rows hold good blocks and files clean ones, and is inductive.
* `TypeCorrect`, `ProvenanceIsTrue`, `ShownWasGated` follow from `Typed`; `ImportKeepsLocales` too,
  as an attached text is blank only if sanitizing empties it (`AttachedNotBlank`).
* `ApprovalsKeepWriters`, the refinement: `MergeMoves` says a merge leaves a friend's field a
  friend's, an approval is a step of `Writers`, everything else stutters.
* `OverlayIsStable`, by `OverlayInv`: the file holds what was last written, and the running
  command what the file held. `ManifestPins`, by `PinnedInv`: what an import has
  gathered (`GatheredInv`) is the image of a row it will not write again, of its commit or
  a later one, and of its commit if the checkout still stands there at its end.

`SemanticIndex_proofs` (`IndexInv`):

* `TypeCorrect`.
* `QueriesMeetOneModel`: a vector and its meta row agree but for the row being written and
  `torn` ones (`Paired`), and every vector is of the running server's model (`Served`) but for
  `beside`; both survive kills because a kill is recorded exactly where it tears a pair.
* `ReindexRefreshes`: rows listed and not yet done are still to do (`Fresh`, `Done`), and only a
  later write makes a row newer than its listing.
* `LockIsReleased`, by itself with types.

Only model-checked: `AbandonedRowsReclaimed`, `AgedReclaimed`, and the violations.

## Not modelled, and why

* The vision model, reverse-image lookup and Google/GitHub sign-in servers are outside; the
  models have their outcomes and the time they take.
* Rendering, text layout, upload validation, sanitizing of markup, i18n and page templates are
  functions of one input with no state. Audit lines are written and never read. Configuration
  enters as assumptions.
* The rate limiter is one counter per key in one process. Its fixed window admits up to twice
  the limit across a boundary, and keys are never dropped; a model would restate the code.
* A torn blob: `write_bytes` killed half way leaves a file that later puts of the same bytes
  take for whole. In `Uploads` and `Renders` a put is atomic.
* What pgloader and rclone copy, and the idempotent creation of tables and columns.
* The pgvector backend: no command of this version opens it.
* The filters of a search, which hits found only by their vector do not obey
  (`db/templates.py:221`), and its score.
* The upload page's own steps. `discardPending` in `upload.js` forgets the pending id even when
  the discard was refused; the row then waits for the sweep, like any abandoned one.
* `allowlist remove` of a bare mailbox, hand edits of the file, the in-memory stores of tests.

## Plan

Done: all modules above with their runs, the refinements to `Writers`, `GrantLifecycle` and
`TokenSlots`, and the proofs of every safety property. Left, in order:

1. Abstract specifications of the life of one image (`Uploads`) and of one vector
   (`SemanticIndex`), each shown to be implemented and proved.
2. The safety half of the two liveness properties, as theorems: a sweep never turns an abandoned
   row or an aged receipt into one that the next sweep does not list.
3. A torn blob in `Uploads` and `Renders`, with its window in their histories.
4. The upload page's own states (`upload.js`) beside `Uploads`.
5. A two-backend model of `migrate`, should the code come to open the new database.
