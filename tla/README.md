# A TLA+ verification project for edx-enterprise

edx-enterprise is a Django application that runs inside the Open edX LMS. It
keeps, for each *enterprise customer*, which learners belong to it, which
courses they take at its expense, and it synchronises the customer's course
catalog and the learners' results with the customer's own learning management
system. This directory holds TLA+ models of its core, TLC configurations that
check them on small instances, and proofs checked by TLAPS that hold for every
instance. Paths below are relative to the repository; line numbers of every
definition are in `PROJECT.json` under `map`.

| module | what it is |
| --- | --- |
| `ContentTransmission` | one integrated channel keeping a customer's LMS in step with its catalogs |
| `ContentMirror` | what a channel promises its customer; `ContentTransmission` implements it |
| `LearnerDataTransmission` | completions and grades reported to the LMSs of a customer |
| `TaskLock` | what the lock of the batch tasks promises; `LearnerDataTransmission` implements it |
| `EnterpriseFulfillment` | subsidised enrollments, their fulfillments and the LMS signals |
| `CreditLedger` | what fulfillments promise the ledger that pays for them; `EnterpriseFulfillment` implements it |
| `DefaultEnrollments` | default enrollment intentions, on top of `EnterpriseFulfillment` |
| `LearnerLinking` | which learner belongs to which customer, the active customer, learner role, admin invites |
| `GroupMembership` | groups, pending members and pending enrollments of addresses that have not registered |
| `InviteKeys` | invite keys and their limits |
| `SsoConfiguration` | an SSO configuration and the orchestrator that carries it out |
| `CatalogSync` | catalog queries, catalogs, and the catalogs of the enterprise-catalog service |
| `DataSharingConsent` | consent to share the results of a course, the pages and API that ask for it, and its cache |
| `MC…` | the same for TLC: symmetry sets, constraints and constants that a `.cfg` cannot write |
| `…Proofs` | theorems and proofs about the module they extend; those about `DefaultEnrollments` are in `EnterpriseFulfillmentProofs`, those about `DataSharingConsent` in `LearnerLinkingProofs`, those about `TaskLock` in `LearnerDataTransmissionProofs` |

Run `tlc -config LL_links.cfg MCLearnerLinking.tla` (and so on) to check an
instance and `tlapm LearnerLinkingProofs.tla` to check the proofs.

## 1. Inventory

What the system consists of, where its state is, what changes it, where it is
hard, and what makes it correct. Only rows marked with a module are modelled.

**Content metadata transmission** (`integrated_channels/integrated_channel`:
exporter, transmitter, models, tasks) — `ContentTransmission`, partly.
State: audit rows (`ContentMetadataItemTransmission`), orphan rows, the payload
in the worker's memory, the customer's LMS. Operations: export (diff with the
catalog service, mark rows, fetch metadata, collect orphans), transmit (delete,
create, update in chunks), the orphan marking task. Interacts with: the
enterprise-catalog service, the LMS behind one of nine channel clients, the
scheduler. Hard: every call may fail after having been applied; answers are
written back item by item; a worker dies anywhere; the catalog changes during a
run; failed calls are hidden for 24 hours. Correct if no change is forgotten,
what a catalog lists arrives, what none lists goes, and orphans are resolved
only for cause.

**Learner completion transmission** (`transmitters/learner_data.py`,
`exporters/learner_data.py`, the exporters of each channel) —
`LearnerDataTransmission`. State: audit rows of each channel, the grade and
completion of each enrollment, what a task has in memory. Hard: the batch task
and the unlocked task for one learner read rows, call, and write whole rows
back; answers are lost; configurations of one channel share rows. Correct if
every completion arrives, nothing is skipped that did not, and nothing is sent
twice without cause.

**Channel task lock** (`tasks.py:30`) — `TaskLock`, and its implementation in
`LearnerDataTransmission`. State: a cache key with an expiry. Hard: the holder
outlives its lock, and then deletes another holder's. Correct if two batch runs
of one configuration never overlap while no lock has expired under its holder.

**Subsidised enrollments and fulfillments** (`enterprise/models.py:2052-2538`,
`utils.py:1860-2200`, `signals.py:360-446`, `tasks.py:174`,
`api/v1/views/enterprise_subsidy_fulfillment.py`) — `EnterpriseFulfillment`.
State: the LMS `CourseEnrollment`, `EnterpriseCourseEnrollment`,
`LearnerCredit…` and `LicensedEnterpriseCourseEnrollment` rows, revocation
events. Operations: enroll with credit or license, cancel, revoke or expire a
license, the learner's own acts in the LMS and in the portal, consent, the
enrollment task. Interacts with: the LMS by calls and, inside those calls, by
signals back into this code. Hard: rows read before the LMS call are written
back after it; set_unenrolled and revoke call each other; rows of an old
enrollment are reused. Correct if accepted credit is never lost, revocations
are reported once, leaving revokes, and an LMS enrollment is mirrored unless the
task gives it up.

**Learner linking** (`models.py:930-1660`, `signals.py:75-257`, the views and
serializers listed in `map`) — `LearnerLinking`, partly. State:
`EnterpriseCustomerUser` (soft-deleted by `linked`), pending learners, pending
and active admins, role assignments. Operations: link, unlink, login through
SSO, API, invite key, group assignment, admin invites, registration. Interacts
with fulfillment: the enrollment receiver attributes an enrollment to the
active customer. Hard: stale copies saved whole, take-over of soft-deleted
rows, saves that do not see each other, a path that skips save altogether.
Correct if one customer at most is active and the role follows the link.

**Groups and memberships** (`models.py:4739-5012`,
`api/v1/views/enterprise_group.py`) — `GroupMembership`, partly. State:
soft-deleted memberships of learners and pending learners. Hard: revival of
removed rows, hand-over at registration, late mail errors, deletions that leave
memberships of nobody. Correct if a registration delivers everything that was
pending, and what was removed stays out.

**Pending enrollments** (`models.py:1695`, `1595-1641`) — part of
`GroupMembership`, partly. Hard: carried out after the commit of a
registration, one by one.

**Invite keys** (`models.py:4163`) — `InviteKeys`. State: keys with limit,
expiry, an irrevocable `is_active`. Hard: limits checked before the write that
uses them up, whole rows saved. Correct if limits are exceeded by the requests
in progress only.

**Default enrollment intentions** (`models.py:2540-2811`,
`api/v1/views/default_enterprise_enrollments.py`) — `DefaultEnrollments`,
partly. State: intentions, realizations, what a client was last told. Hard: the
answer is acted upon later, unchecked, and reads rows that come and go with the
LMS enrollment. Correct if a learner who left is not enrolled again.

**SSO configuration** (`models.py:4343-4737`,
`api/v1/views/enterprise_customer_sso_configuration.py`) — `SsoConfiguration`,
partly. State: submitted, errored, configured and validated times. Hard: a
timeout that races a late answer, a call inside the transaction that records it.
Correct if one submission is worked on at a time and a settled record is what
the orchestrator has configured.

**Catalogs and catalog queries** (`models.py:2814-3250`, receivers in
`signals.py:260-340`, three commands) — `CatalogSync`. State: queries, the
catalogs that copy their filter, the copies of another service. Hard: the
service is told before the commit, or after it by commands; a fan-out that
lists catalogs once. Correct if the service ends with what the table says.

**Data sharing consent** (`consent/`, `views.py:323-1250`, two commands) —
`DataSharingConsent`, partly. State: a record per learner, customer and course
run or course; a cache of runs that need no consent. Operations: grant, refuse
and look up by the page and by the API, for a run, a course or a program; the
page behind the consent page; deletion; the check of a visitor of the
courseware. Interacts with: the exporters, which send nothing without a grant,
and enrollment, which the page does first. Hard: the record of a course speaks
for runs without one; a record is looked up, shared and saved later; only one
of two deletions of the cache would hit the key that is read. Correct if a
refusal stands and a learner without consent is asked in the end.

**Not to be modelled**: permission predicates (`rules.py`, pure look-ups),
pages and middleware (rendering and redirects; the rows they write are in the
models), plain REST endpoints, openedx filters (no state), reporting
configuration (rows read elsewhere), API clients and channel formats (they are
the environment of the models), Django admin, commands, migrations, assets.
`PROJECT.json` lists each of them with its reason.

The hazards, each at its line, are in `PROJECT.json`; the properties below are
there for them.

## 2. Plan

Order: what costs money or loses data first. Done: the three core components;
learner data with its lock, a refinement of `TaskLock`; groups with pending
enrollments; invite keys; SSO configuration; catalogs; consent; default
enrollments composed with fulfillment; proofs of every invariant and
action property of the runs; `ContentMirror` and `CreditLedger`, the promises of
the first two components, with proofs that the code's steps implement them. What a
continuation would take up:

1. `Registration`: `LearnerLinking` and `GroupMembership` over one registration,
   so that the active customer decides who pays for what was pending.
2. `HeldIsEnrolled` from weaker hypotheses than `Serial`: which pairs of
   requests may overlap.

The number of TLC runs is kept at about a dozen, so that the whole project is
rechecked in one go: new modules share a run among their properties, and runs
that only reproduced a known divergence are described in section 6 instead.

## 3. The models

### ContentTransmission

*State.* `catalogContent`, `version`, `live` are the catalog service and the
configuration's list of catalogs; `audit` and `orphan` the two tables; `remote`
the customer's LMS; the rest is one run of `transmit_content_metadata`: phase
`pc`, catalogs `todo`, the `batch` selected from the current one, the `payload`
of in-memory rows per action, the chunk `inflight`; `candidates` is the memory
of the orphan task. The audit table is unique per channel, configuration and
content, hence a function of content. Dates are reduced to whether they are
set, `remote_errored_at` to none, inside or outside the retry window, content
to a version number.

*Actions.* `StartRun`; per catalog `ExportDiff` (or `ExportConflict`, when an
INSERT violates the unique constraint) and `ExportMetadata` (or
`ExportMetadataMissing`, when an item left the catalog between the two
requests); `CollectOrphans`; per chunk `Send` — the LMS answers below 300, 300
to 399 or above, and a call answered by an error may have been applied to any of
its items — then `SaveResult` item by item and `FinishAction`; `Abort` loses
the memory at any point. `FetchOrphans`/`MarkOrphan` is the orphan task, which
takes no lock. Environment: `EditCatalog`, `Publish`, `SetCatalogs`,
`AgeError`.

*Abstraction.* `ContentMirror` knows the catalogs, the versions published, the
items `offered` so far and the version of each item `shown`. It offers what a
catalog lists, shows any version of an offered item from the one shown to the
one published, and withdraws at any time. The instance `Mirror` maps `offered`
to the items with an audit row and `shown` to `remote`; everything else of a
run, a crash or an orphan task is a stutter.

*Left out.* Two configurations of one customer, maintenance tasks over old
rows, payload formats. A run per configuration at a time is assumed (the lock).

### EnterpriseFulfillment

*State.* `lms[e]`, for a learner and course run, is no enrollment, one in paid
or audit mode, or an inactive one; `db[e]` the enrollment, credit and license
rows; `reports` counts LEARNER_CREDIT_COURSE_ENROLLMENT_REVOKED events per
transaction; `request[w]` is what a worker has in memory; `used` and `accepted`
are the client's side. `task[e]` is the `create_enterprise_enrollment` task of an
enrollment: none, queued, or given up. The `NULL` default of `unenrolled` is the
FALSE of the model: the code only ever asks whether it is true.

*Actions.* A request begins by reading (`BeginEnroll`, `BeginCancel`,
`BeginRevokeLicense`, `BeginExpireLicense`), calls the LMS (`EnrollInLms`,
`CancelInLms`, `TerminateInLms`) and writes (`RecordEnrollment`,
`RevokeFulfillment`), or fails at any point (`EndRequest`). The LMS call is
`SetMode`: the receivers run inside it, on fresh rows, before the call
returns; `RevokeCopy` then writes the stale copy back. `LearnerUnenroll`,
`LearnerEnroll`, `SaveForLater`, `ConsentToEnroll` are the learner;
`CreateEnterpriseEnrollment` is the task that a first enrollment in the LMS queues
if the receiver finds an active customer (`signals.py:411`), and `DropEnrollment`
its end without a row: the course is in no catalog of that customer, or a call
raises, and nothing retries it (`tasks.py:192`).

*Abstraction.* In `CreditLedger` a transaction is created, redeemed, given back
by one report and never held again. Two constants say what a deployment gives up:
`Repeats` (`cancel_enrollment` is in use: a report may come again) and
`Lossy` (redemptions may overlap: one may be accepted and pay for nothing). The
instance `Ledger` maps `held` to the transactions of live fulfillments,
`Repeats` to `"cancel" \in Operations` and `Lossy` to `Overlaps # {}`.

*Options.* `Operations` names the operations in use, `Serial` forbids requests
to overlap, `Overlaps` lets the client redeem a second transaction while one is
`"held"` or `"cancelling"`. The database statements of one call are one step;
the comment at `enterprise/views.py:314` says that requests are transactions, so
steps between the two calls over-approximate what other requests see.

### LearnerLinking

*State.* `link[l][k]` is the row of learner and customer with its `linked`,
`active` and `is_relinkable` flags; `learnerRole`, `pending`, `invited`,
`admin` the other tables; `request[w]` the copy a `link_user` or `unlink_user`
call holds. Two history variables mark rows that the code itself treats
differently: `bare`, written by `bulk_create` and not saved since (no
`user_fk`, no role), and `overtaken`, whose last save missed another new link.

*Actions.* `BeginLink` reads; `InactivateOthers` is the first statement of
`save`, which sees the links committed so far; `LinkExisting` or `LinkNew` is
the commit, which writes the whole copy back and inactivates what the save had
seen. `BeginUnlink`, `UnlinkExisting`; `LinkPending`, `UnlinkPending` for
addresses without account. The other handlers are one step each: `Activate`
(SSO login and the enrollment pages), `LinkByApi`, `LinkByApiPending`,
`JoinByKey`, `AssignToGroup`, `InviteAdmin`, `DeletePendingAdmin`,
`CreateAdmin`, `DeleteActiveAdmin`, and `Register`/`Login`, which convert the
pending rows in any order. They save like `link_user` does, so the
interleavings inside them are those of its three steps.

*Left out.* Hard deletion of rows and `should_inactivate_other_customers=False`
(settable in the Django admin only), group memberships, pending enrollments,
deactivation of the LMS account of a deleted admin. There are no row locks in
the model: under locks a commit waits or fails where here it goes ahead, which
adds behaviours and removes none.

### TaskLock and LearnerDataTransmission

`TaskLock` is the promise: the workers `inside` a key exclude each other until
the lease of the key has `slipped` under one of them.

*State.* `configs`, the configurations of the customer; `mark`, `done` and
`permitted`, what the LMS and the consent rows say of an enrollment; `queue`, the
tasks for one learner waiting at the broker; `audits[channel][e][unit]`, the
rows of a channel's table in the order of their ids; `task[w]`, what a worker
has in memory; `locks`, the keys in the cache; `received` and `latest`, what each
LMS has accepted. `history` and `slipped` are history variables.

*Actions.* `StartBatch` takes the lock and selects enrollments, `StartSingle`
takes a queued task and no lock. Per enrollment and configuration: `Collect`
reads grade and row (`RecordOf` says how a channel finds the row; a subsection
without a grade, or with a grade of 0, gives none), `Check` is
the second look of the transmitter, `Deliver` or `Fail` the call (an error may
come after the LMS has kept the report, an exception ends the task), `Save`
writes all columns of the row (a completion counts as sent below status 300, a
subsection below 400), `Collide` is the second row of an enrollment and course,
which the unique constraints of SAP, Canvas and Blackboard refuse and whose
IntegrityError ends the task, `Finish` returns and deletes the lock key, whoever
has set it. `Crash` kills a worker, `Expire` is the end of a key's twelve hours,
`LoseTask` the broker. `Grade`, `Permit` and `ClickThrough` are the learner and the staff.

*Left out.* `dry_run_mode_enabled`, `disable_learner_data_transmissions`, the
commands that mark or reset rows by hand or remove duplicates (the constraints
leave none), `unlink_inactive_learners` and `cleanup_duplicate_assignment_records`.
All configurations of a task are gone through in one handler: an exception ends
it for those that are left.

### GroupMembership

*State.* `account`, `link`, `pending` and `wish` (pending enrollments of an
address); `member[g][h]`, the row of a group for a learner or a pending address;
`orphan[g]`, rows whose pending learner was deleted; `todo[u]`, the pending
enrollments a registration has taken over and not yet carried out; `request[w]`,
an assignment that has read the accounts; `sweep`, the list of the expiry
command; `late` and the field `forced` of a row are history: `forced`
says that a request has given a pending row a status of its own choosing.

*Actions.* `BeginAssign`/`AssignLearners`/`FailAssign`; the one-step requests
`RemoveLearners`, `RemoveAll`, `UpdatePendingLearnerStatus`, `LinkPending`,
`EnrollPendingRegistration`, `ClearPendingRegistration`, `DeletePending`,
`Unlink`; `NotificationFails` (a mail task that ends any time later, an
over-approximation of what it was sent for); `Register`, `Login` and
`ChangeEmail`, which all run the `User` receiver; `CompleteUserEnrollment` and
`EnrollmentRaises` after the commit; `Age`, `BeginSweep`, `SweepOne`,
`SweepRaises` for the command that removes expired rows one by one.

*Left out.* Renaming and deleting groups, purging soft-deleted rows, the content
of mails. A request is taken to be one transaction.

### InviteKeys

*State.* `key[k]` and `link[l]`, the rows; `universal`, the flag of the
customer; `request[w]`, a request that has read and not yet written. *Actions.*
`BeginJoin`/`Join`, `BeginCreate`/`Create`, `BeginPatch`/`Patch`, `FailRequest`;
in one step `Unlink`, `Inactivate`, `LinkByAdmin`, `Expire`,
`EnableUniversalLink`, `DisableUniversalLink`. `Join` creates the row, takes over an
unlinked one, or finds the one that has appeared since it read (`AlreadyIn`, the
fallback of `get_or_create`). `readmitted` marks learners that an
administrator linked again. *Left out.* The other customers of a learner,
which `LearnerLinking` has.

### SsoConfiguration

*State.* `row`, the record: `data` stands for the locked fields, `extra` for those
that are submitted and not locked (`first_name_attribute`, `identity_provider`),
its times are reduced to what `is_pending_configuration` makes of them, and
`unsent` is history, of an update that has changed `extra` and was not submitted;
`request[w]`; `calls`, the submissions that have reached the orchestrator and what
became of them; `applied`, what it has configured. `upset` remembers which of
time-out, loss and stale save has happened. *Actions.*
`BeginCreate`/`CommitCreate`, `BeginUpdate` followed by `Update`,
`UpdateAndSubmit`/`CommitUpdate` or `RefuseUpdate`, `LoseResponse`, `Destroy`;
`Configure`, `FailToConfigure`, `NotFound`,
`BeginCallback`/`OauthOrchestrationComplete` for the orchestrator; `TimeOut`.
*Left out.* Fetching of metadata, mails, edits in the Django admin, field names
that the serializer does not know.

### CatalogSync

*State.* `query`, `catalog`, `remote` (the copies of enterprise-catalog);
`request[w]`: rows to write, written and not committed, written and not yet
sent. `recorded` is the query of a catalog in its latest history record.
`created`, `raced` and `missed` are history variables. *Actions.* `BeginCreate`,
`BeginSave`, `BeginDelete`, `BeginSaveQuery` (which lists the catalogs of the
query), `BeginMigrate`; then row by row `WriteRow` and `Send` or `FailToSend`;
`Commit` or `Rollback`. The management commands run without a transaction: each
row is committed as it is written. `BulkUpdate` is the command that bypasses
save: it moves the catalogs whose history says that they have the old query.
*Left out.* The second save of a catalog that is created with the
default filter, deletion of a query (the admin refuses it), what the service
finds. Catalog and query are read in one step.

### DefaultEnrollments

EXTENDS `EnterpriseFulfillment`: every step of it is a step here, and its rows are
what `learner-status` classifies. *State added.* `track`, the mode an inactive LMS
enrollment was left in, or was set to since (a license that is revoked or expires
moves an enrollment of a course with an audit mode to it, also one that is
inactive, `enterprise_subsidy_fulfillment.py:404`); `available`, `resolved`,
`realized`, the intentions, the run their content key advertises and the
realizations; `offered`, what the client was told; `byDefault`, the requests with
the flag. *Actions added.* `LearnerStatus`, `BeginDefault`, `RecordDefault`
(`RecordUnanswered` if the realization violates its constraint), `SetAvailable`,
`Advertise`. *Left out.* Runs that are never offered (audit mode only, closed, in
no catalog) and the validation of new intentions.

### DataSharingConsent

*State.* `consent`, the record of each run and course; `enrolled` and `covered`,
what decides whether one is required (the policy of the customer and its
catalogs in one); `cached`, the runs that need no consent; `request[w]`: an
answer with the record it has looked up, or a check with its finding. `answer`
(the last answer that was given for a run) and `undone` are history variables.
*Actions.* `GrantOne`, `GrantProgram`, `RefuseOne` and `RefuseProgram` look up
(`Found`: the discovery service may not know the course of a run just now);
`SaveAnswer` or `FailAnswer`, which may save nothing (`SavesNothing`) or some of the
courses of a program (`SavesPart`); in one step `HandleConsentEnrollment`, `CreateMissing`,
`DeleteDataSharingConsent`, `RemoveAll`, `Enroll`; `Visit`, `EndVisit`, `Expire`
for the check and its cache. *Left out.* The texts of the page, licensed
upgrades on it beyond the enrollment they make, the renaming of a retired user,
`fix_dsc_records`. Declining on the page records nothing.

## 4. The runs

Every bound is a constant of the `.cfg`. Times of each run are at most four
minutes for two workers.

| run | asks | instance | states |
| --- | --- | --- | --- |
| `CT_safety` | `TypeOK`, `UnmarkedInSync`, `ConflictOnlyAfterError`, `OrphanResolution`, `MirrorsContent` | 1 item in 3 versions, 2 catalogs, every call refusable or redirected, 2 edits, 1 change of the catalog list, 1 failure, 1 crash | 1,006,780 |
| `CT_delivery` | `WantedIsDelivered`, `UnwantedIsRemoved` | four scenarios, chosen in the initial state (below) | 362,762 |
| `EF_concurrent` | `TypeOK`, `KeepsLedger`, `LeavingRevokes`, `MirroredOrGivenUp` | 1 enrollment, 3 transactions, 1 license, 2 workers, all operations overlapping | 567,820 |
| `EF_reports` | `ReportedOnce` | 1 enrollment, 3 transactions, 1 license, 2 workers, redemptions overlapping, no `cancel` | 77,220 |
| `DE_defaults` | `HeldIsEnrolled`, `LeaverStaysOut` | 1 enrollment with an audit mode, 2 intentions, 2 transactions, 1 license, 1 worker, all operations, requests one at a time | 827,620 |
| `LL_links` | `TypeOK`, `AtMostOneActive`, `RoleMatchesLink`, `ActiveUntilReplaced` | 1 learner, 2 customers, 2 workers | 590,598 |
| `LD_reports` | `TypeOK`, `SkippedWasReceived`, `RepeatHasCause`, `RunsExclude`, `ProgressIsReported` | one configuration of each of five channels in turn, 1 enrollment, 1 subsection, grades 0 and 90, 2 workers, 1 change, 1 failure or redirect, 1 crash, 1 overrun lock | 239,249 |
| `GM_members` | `TypeOK`, `StatusFitsMember`, `LoginBlockedByLateRow`, `RegistrationDeliversAll`, `RemovedStaysOut` | 1 user, 2 addresses, a budget and a flex group, 1 course, 1 worker, any status set by request | 702,773 |
| `IK_limits` | `TypeOK`, `WithinLimits`, `InactiveUnlessOvertaken` | 3 learners, 4 keys, limits 1, 2 workers | 592,856 |
| `SC_orchestrator` | `TypeOK`, `OneAtATime`, `SettledMatchesOrchestrator`, `LockedWhileConfiguring` | 2 values of locked and 2 of other fields, 2 workers, 3 calls | 1,155,788 |
| `CS_catalogs` | `TypeOK`, `ServiceHasCatalogs`, `CatalogFollowsQuery` | 2 catalogs, 2 queries, 2 filters, 2 workers | 880,690 |
| `DC_consent` | `RefusalStands`, `AskedInTheEnd` | 2 runs of 1 course, a program of it and another course, 1 worker | 278,448 |

The scenarios of `CT_delivery` are those of `MCContentDelivery`: two items of two
catalogs with one chunk of one item per run, updates and deletes refusable; one
item that moves between two overlapping catalogs, creates and updates refusable,
and a crash; the same with deletes refusable; one item whose only catalog is
taken away, deletes refusable, and a crash. Every refusal is an answer from 300
on or one from 400 on. One liveness run over the union of all four would meet
more divergences of section 6 than the properties name.

**What they show.**

- `UnmarkedInSync`: a row without mark, recorded error or orphan row tells the
  truth about the customer's LMS. An export marks a row before it changes it and
  a transmission clears the mark only for what the LMS accepted, so neither a
  crash between the two nor an item that fails inside an accepted chunk loses a
  change.
- `ConflictOnlyAfterError`: the three lookups that precede an INSERT together
  cover every row except those hidden by a recent error.
- `OrphanResolution`: an orphan is resolved by a successful delete or because a
  catalog that lists the item has adopted it, never by a delete that was refused.
- `WantedIsDelivered`, `UnwantedIsRemoved`: once changes, failures and crashes
  stop, the LMS converges to the catalogs. The premise `RowsRecover` says that no
  row stays in the retry window, or is stranded, for ever; such a row may end
  every run. The exemptions, each one a divergence of section 6, are read off the
  row: a create that was redirected, or refused after the LMS had applied it
  (`LastCreate`); a delete that was refused and whose item returned, or was
  redirected (`LastDelete`); a call whose answer died with the worker
  (`Unrecorded`).
- `MirrorsContent`: the channel implements `ContentMirror`. The LMS never shows an
  item that no catalog has listed, a version before it is published, or an older
  version than before, although payloads outlive the exports that made them and
  one item can be in memory twice.
- `KeepsLedger`: the fulfillments implement `CreditLedger`, although rows read
  before an LMS call are written back after it and receivers write the same rows
  in between: a transaction is redeemed once, a fulfillment that stops being live
  is reported in the same step, nothing else is, and nothing that was reported
  is held again.
- `LeavingRevokes`: `set_unenrolled` and `revoke`, which call each other with
  different in-memory copies, together leave no live fulfillment.
- `HeldIsEnrolled`: unrevoked credit pays for an enrollment that is active in
  the LMS and not marked as unenrolled, also after a request that failed half way.
- `ReportedOnce`: `revoke` reports a transaction once, as long as
  `cancel_enrollment` is not used (section 6).
- `MirroredOrGivenUp`: a request that dies after its LMS call leaves no
  enrollment behind that nothing will mirror, because the receiver has queued the
  task, unless the receiver or the task has given it up for a reason of its own.
- `LeaverStaysOut`: a default enrollment takes a learner back only out of an
  audit enrollment (or a paid one that a license request has since moved to
  audit), on an answer older than the learner's leaving, or if the row that
  should have been marked was not there yet (section 6).
- `AtMostOneActive`: two active rows of a learner are always the work of
  `bulk_create` or of a save that another new link overtook.
- `RoleMatchesLink`: no order of stale saves separates the role from the link.
- `ActiveUntilReplaced`: a step about one customer never takes the active flag
  from another one without passing it on.
- `SkippedWasReceived`: what a task passes over as transmitted was accepted by
  the LMS of that configuration, although `Save` writes whole rows from copies
  and most channels look a row up without the configuration. Excepted is a
  subsection whose last answer was a redirect (section 6).
- `RepeatHasCause`: a completion is sent twice only after a lost answer, a worker
  that was killed or could not save, two tasks on one enrollment at a time, or a
  refused report that was saved over the accepted one.
- `RunsExclude`: the lock implements `TaskLock`; until a key expires under its
  holder, the finally clause never deletes another holder's key.
- `ProgressIsReported`: no crash, lost task, refused call, collision or row left
  behind by one keeps a completion or a subsection's grade back for good, but for
  a grade of 0 and one that was answered by a redirect.
- `StatusFitsMember`, `RemovedStaysOut`: rows are revived, handed on and marked by
  late mail tasks, and still a member's status fits what it is, and a removed
  one comes back only by a request that names it. Excepted is the pending row of
  an address to which a request has given another status: no removal, revival or
  registration carries that status on (`forced`).
- `RegistrationDeliversAll`: registering delivers every listed membership and
  every pending enrollment and leaves nothing pending; `LoginBlockedByLateRow`:
  a pending row that blocks logins is always the work of an assignment
  that had missed the registration.
- `WithinLimits`: limits that are read before they are
  used up are exceeded by the requests in progress and no further;
  `InactiveUnlessOvertaken`: a key comes back only through a stale copy.
- `OneAtATime`, `SettledMatchesOrchestrator`, `LockedWhileConfiguring`: without a
  time-out, a lost response or a stale save, the orchestrator has one submission
  at a time, whose locked fields nobody changes meanwhile, and what counts as
  configured is what it configured, but for fields that are not locked and were
  changed since (`unsent`).
- `ServiceHasCatalogs`, `CatalogFollowsQuery`: whatever saves overlap, the
  service ends with the table and the catalogs with the filter of their query,
  but for the cases that `missed` and `raced` record: calls that failed,
  transactions that were rolled back, commands that came late.
- `RefusalStands`: what the exporters see of a run is never a grant after a
  refusal, whichever record the two were kept in, unless an answer for another
  run went to the course's record or the run's own came up during the request
  (`undone`).
- `AskedInTheEnd`: a cached "not needed", also of a visit through another
  customer, a crashed check or a failed look-up delay the question, and never
  suppress it.

A property with such an exemption is as strong as the exemption is small: the
history variables are set in the very step that causes the trouble, and where a
later step can repair it (`late`, `missed`, `undone`) they are reset by that step,
so that a cause in the past excuses nothing else.

**Why the bounds are enough.** Audit rows of content are independent of each other
except through chunks and slices of the payload; one item with two catalogs
therefore has every conflict between rows, and the first scenario of `CT_delivery`
adds a second item with `ChunkSize = ChunkLimit = 1`, where an item is left over
in each run. Three versions allow an older and a newer copy in memory beside the
one published, which is what `MirrorsContent` could be broken by; two edits take
an item out of a catalog and into another or back, one swap withdraws a catalog or
adds one, one failure is enough for a row to say less than the LMS has, and
`MaxAborts = 1` loses a run at any point (a second loss meets the same states).
`CT_delivery` needs only an old and a new version, but two failures, so that a
retry fails, too; its first scenario has no crash, since the others have one and a
crash of two items at once is a crash of one and a chunk left over. These counters
bound the environment only. `EnterpriseFulfillment` has no counters beyond the
number of transactions, each redeemed once; a second fulfillment of an enrollment
needs two of them, and three let a third follow or, where redemptions overlap, two
overlap over an existing one. Enrollments share nothing but the license, and
`NoRun` stands for a key that resolves to another run. In `LearnerLinking`
learners never interact, a third customer would only be a second "other" one, and
two workers with all one-step handlers beside them already give three writers to a
row. Enrollments never share a row in `LearnerDataTransmission` either: two
workers, of which one may be unlocked, on one enrollment are the conflict, and the
initial states have every combination of grades, so that one change is enough to
make a copy stale. The grade of 0 and the redirect are those the code treats apart
from other grades and errors. `Overrun` names one key, as one suffices for a
second holder. In `GroupMembership` two addresses meet in a change of address and
two groups in the deletion of a pending row; the constraint `Scope` explores both
and leaves out the two at once. Statuses set by a request are explored for one
address in both groups, as they touch one row only. Three learners with one key
exceed its limit as far as two workers can; two keys are enough to mix them up,
and the number of keys does not depend on who joined, which is what `Scope` of
`MCInviteKeys` says. A third submission meets only what a second one does, except
while everything is well and no field changes that is not locked (`Scope` of
`MCSsoConfiguration`). In `CatalogSync`, once one catalog differs from the service
or its query, a second one matters only as a catalog of the same query. Consent
has one learner and one customer, as records are never shared; two runs of one
course are what shares a record, and a request in two steps beside handlers in one
step already shows most orders in which answers can be looked up and saved. The
second course is in the program only for its consent to be saved in part; `Scope`
never asks for it.

The constraints cut states, not steps into them. They are used in runs with
invariants and action properties, and in `DC_consent`, where the step they cut (the
customer asks for the second course) has no fairness.

**Symmetry** is used in runs without liveness only, over sets whose members
no definition tells apart (`MC…` modules).

**Fairness.** `ContentTransmission`: weak fairness of a run and of the orphan
task, which the scheduler starts again and again and whose steps terminate;
nothing is assumed of `AgeError`. The limit `LAST_24_HRS` is fixed when the module
is imported (`models.py:31`), so an error may stay in the window of a long-lived
worker for ever; that it leaves it is a premise of the two properties and not a
fairness of the code. None of sending, refusing or editing is fair on its own: a
refused call is bounded by `MaxFailures`, that is, the LMS is reachable in the
end. `MCContentDelivery` keeps this fairness and bounds what the environment does.
`LearnerDataTransmission`: one weak fairness of the whole of `System`, the steps
of tasks, their scheduled starts and the expiry of keys: something goes on, but
which task or worker comes first is left open, and the tasks for one learner need
not run at all. `DataSharingConsent`: requests end, cache entries expire (weak
fairness), and learners who visit a course come back to it through their customer
(strong fairness, since the cache may be full at any moment); nobody has to
answer. All other modules promise nothing that must happen and have no fairness.

`CT_delivery` leaves out two things that are known to break convergence, both
described in section 6: a catalog withdrawn a second time (or content published
after its withdrawal), and refused creates of an item whose catalog is then
withdrawn, where one row is in memory twice.

**Deadlock** is checked in every run but `SC_orchestrator`: there a removed
record, or the bound on calls, ends what can happen.

**Mutants.** For each property of a passing run `PROJECT.json` names one change
of a definition, such as a bug in its code would make, under which TLC finds the
property violated.

## 5. The proofs

Every invariant and every action property of the runs is a theorem, for every
value of the constants. TLC has checked each inductive invariant on the instances
of the runs before it was proved.

Assumptions are only the named ASSUMEs of the modules: null values differ from
rows, bounds are natural numbers, transactions are not license ids, addresses
are not users, settings are of their types. No set is assumed finite but the
workers of `InviteKeys`, where they are counted, and no bound is used other than
its type. Some theorems have a hypothesis of their own beside these; it
is stated in the theorem and named below. In each module a lemma (`StepKinds`,
`RowStep`, `KeySteps`, …) says what the steps can do to a row, a task or a key, so
that the invariants are checked against a few kinds of change and not against
every handler.

**`ContentTransmissionProofs`.** `TypeCorrect`, `NoChangeForgotten`,
`InsertsConflictAfterErrors` and `OrphansAreResolved`. `UnmarkedInSync` speaks of
the tables, but it is broken or kept by what a worker remembers, so it is not
inductive. `SyncInvariant` adds: `PhaseOK` (which parts of the memory are empty in
which phase), `CopiesAgree` (the copies in memory equal the table and carry the
mark of their action), `BatchAgrees` (what was selected for an action is marked
for it), `ExportAgrees` (the catalogs still to be exported select nothing that is
already in the payload, creates apart), `InflightAgrees` (after an accepted
answer the LMS has what the rows still to be saved say). Items that have an
orphan row are exempt (`Free`): the orphan task takes no lock. Conflicts of
INSERTs need `CreateFirst`: a row, in the table or in memory, that says it was
updated also says it was created. The resolution of orphans needs
`RemovedGone`: what a run remembers as removed has a row that says so, and
the run will not write that row again.

`ContentMirrored` is the refinement, with no hypothesis: every step of the module
is a step of `ContentMirror` or leaves it alone (`MirrorStep`). That the LMS never
goes back to an older version rests on the invariant `Mirrored`: the LMS shows at
most the version of any copy in memory, a copy at most that of its row, and a row
at most the published one (`CopiesCurrent`, `RowsCurrent`). Copies outlive one
another, so it takes two more parts: the export of the catalogs selects an item
for one action only (`SelectedOnce`), and when the calls begin, an item is in
memory for a create or an update, and beside it for a delete only with a copy
that is as recent (`CopiesOrdered`).
`MirrorPromises` derives what the LMS may show from the abstract module alone.

**`EnterpriseFulfillmentProofs`** (also about `DefaultEnrollments`).
`LeavingRevokesAll` needs nothing but types. `LedgerKept` is the refinement of
`CreditLedger`. Its one hypothesis is that no transaction is redeemed for an
enrollment while it is being cancelled (`"cancelling"` not among the `Overlaps`,
if `cancel` is among the `Operations`); without it a report could be sent for
credit that is lost (section 6). `LedgerInvariant` says that rows are of accepted
transactions, each of one alone, and of reported ones if they are revoked
(`RowsAccepted`, `RowsApart`), that what a request is about to redeem is new and
its own, and that the copy a cancellation holds is of the transaction its row has
(`CancelsCurrent`). `LedgerPromises` derives from the steps of the ledger that
nothing accepted is lost, that nothing reported is held and that nothing is
reported twice, as far as `Lossy` and `Repeats` allow; `ReportedIsFree` carries
the second over to the rows. `EnrollmentsMirrored` needs the types only: no step
takes a task away without the row or the word that it is given up.
`NoTransactionLost` is the older, direct proof of the first (`Settled`, with
`Overlaps = {}`), by `SettledInvariant`. `OneReportPerTransaction` assumes that
`cancel` is not among the operations (redemptions may overlap) and rests on
`OnceInvariant`: a transaction that is still held was never reported.
`HeldStaysEnrolled` assumes `Serial` (requests and the learner take turns; section
6 has the run without it): `TurnsInvariant` says that the rows and the LMS agree
between requests (`RowsAgree`) and that a request finds, at its second call, the
mode its first has set (`ModeIsKept`). `HeldStaysEnrolledByDefault` carries this
over to the requests made by default. `LeaversStayOut` needs no such assumption:
`StillEnrollable` says of the enrollments a client may still ask for that a row
marked since the answer is remembered in `late`, or the enrollment is in audit
mode by now.

**`LearnerLinkingProofs`** (also about `DataSharingConsent`). Every step is of one
of four kinds: `SaveStep` (a row goes through save), `GroupStep` (bulk creation),
`PostSaveStep` (roles follow) or `QuietStep` (links untouched). `TypeOK` with
`UnlinkHasRow` (a call that is going to unlink has read a row) is inductive, and
`OneActiveCustomer`, `RolesFollowLinks` and `ActiveCustomerKept` follow kind by
kind. `ConsentTypeCorrect` and `RefusalsStand` are about the instance `DSC` of
`DataSharingConsent`, whose types are proved and not part of a run; their
hypothesis `CoursesFit` is that module's `CourseAssumption` again. `RefusalStands`
is inductive with `AnswersFit`: an answer names a run or a course and has looked
up its record or that of the course, or it names courses of the program, all of
them or those that a failing request has saved.

**`LearnerDataTransmissionProofs`.** Three invariants, one on top of the other.
`KeyHeld`: the key of a running batch task is in the cache, or has expired under a
task; until it has, the task is alone. With it every step of the module is a step
of `TaskLock` or leaves it alone (`LockRefines`), hence `LockExcludes`. `RowInv`:
the records in a task's hands are of a configuration that may have the row
(`HandsFit`), an answer "ok" means that the grade has arrived (`OkArrived`), and
then a row marked as sent was accepted, or is that of a subsection that was
answered by a redirect (`SentRowsArrived`, with no hypothesis). `SkippedReceived`
and `RepeatsHaveACause` assume `OnePerReusing`: of the channels that take whatever
row there is for an enrollment the customer has one configuration each. Without it
both are false (section 6): the row of one configuration speaks for the other.
`RepeatInv` says where the records in hand belong (`HandsPlaced`), that such
channels have rows of one configuration (`TablesFit`), and of each enrollment that
is not `disturbed`: one worker at a time has its records (`OneHolder`), there is
one row to take (`OneRow`), what is about to be sent is not marked as sent
(`NotSent`), and the last report that the LMS accepted is the one in hand
(`OkIsLatest`) or the one some row marked as sent is about (`LatestIsKept`). The
last is what a refused report that is saved over the accepted one destroys: the
cause was missing from the property until the proof failed on it (section 6).

**`GroupMembershipProofs`.** `StatusFitsMember` is inductive together with
`PendingHasAll` (an address without a pending row has no memberships and no
pending enrollments) and `RegisteredHasNone` (nor has that of an account, unless
an assignment had missed the registration); the rows of learners are never
`forced`. From these three `StatusesFit`, `LateRowBlocks`, `RegistrationDelivers`
and `RemovedStay`.

**`InviteKeysProofs`.** `LimitsHold` counts: a request that has passed the check of a
limit has a place, and gives it up when its row is written, so that rows and
places together stay below limit and workers (`UsersHavePlaces`,
`KeysHavePlaces`). `InactiveKeysStay` is read off what a step does to a key.

**`SsoConfigurationProofs`.** `WorksOnOne`, `SettledMatches`, `PendingIsLocked`. What
always holds is the order of requests (`OrderInv`: a record is created once, one
transaction submits at a time and what it writes is pending). `Calm` holds as long
as nothing was `upset`: of submissions on their way and answers being written
there is one at most (`OneUnderway`), none once the record is settled, and each is
for the values the record has or will have after the commit (`CallsAreLatest`,
`AnswersAreLatest`), in its other fields as far as no update has changed them
unsent.

**`CatalogSyncProofs`.** `ServiceIsUpToDate` from `ServiceInvariant`: one worker at a
time has a row written, it sends what it has written, and the service agrees with
the row being written or with the table, unless somebody has still to send
(`AgreesOrSends`). `CatalogsFollow` from `QueryInvariant`: rows about to be written
carry the filter of their query (`WritesFollow`), a transaction that saves a query
has all its catalogs (`SavesCover`), and a catalog that differs is still to
be written by the command that saved the query (`FollowsOrOwed`). Rows in
memory are functions with a finite part of the catalogs as domain; the lemmas
about `With` and `Without` are what both need.

**Model-checked only.** Liveness: `WantedIsDelivered`, `UnwantedIsRemoved`,
`ProgressIsReported`, `AskedInTheEnd`. The prover does not
reason about fairness and ENABLED. It could not prove facts by induction over data
either, nor about RECURSIVE operators; the models need neither, they use
none. No theorem is about the `MC…` modules.

## 6. Where the code and its words disagree

The models contain the following; no run is spent on them. Where a
definition is named it states what the code does not keep: TLC shows it
violated with the constants given.

*Content transmission.*
- `NoInsertConflict` (one item, one refused create): a failed create is
  invisible to the next export for 24 hours, which inserts the row again and
  fails on the unique constraint.
- A delete that is refused for an item which then returns to the catalog stays
  marked as a delete, and the item is not created again (`LastDelete`). The same
  happens when the catalog itself is removed after the refusal.
- A worker that dies between an accepted call and the write-back leaves the row as
  it was: an item deleted so is not created again when it returns, and one
  created so is not deleted when it leaves (`Unrecorded`).
- A row that is prepared to be created again keeps `remote_errored_at`
  (`prepare_to_recreate`, `models.py:859`). If the run ends before the create is
  sent, no lookup finds it, and from then on each export of a catalog with the item
  fails on the unique constraint (`Stranded`).
- `LAST_24_HRS` is computed when its module is imported (`models.py:31` and
  `exporters/content_metadata.py:75`), not 24 hours before the query: in a worker
  that is not restarted an error is never retried unless the customer is saved.
- An orphan row is found with `get_or_create`: the second time an item is
  orphaned, the row is there and already resolved, and nothing is removed
  (three swaps).
- A create that timed out after the LMS had applied it is never deleted if the
  item leaves the catalog meanwhile (`LastCreate`).
- The transmitter counts an answer from 300 on as an error, the queries of the
  exporter one from 400 on. A redirected create therefore counts as existing and is
  not sent again until the item is published anew; a redirected delete counts as
  done and is not sent again; a redirected update keeps its mark and is.
- One row can be in memory twice, as an orphan and for its new catalog; the
  later save wins.
- `max_payload_count` is counted for each catalog, so a run may export more.

*Fulfillment and default enrollments.*
- `ReportedOnce` (one enrollment, one transaction, `Operations` with `cancel`,
  `Serial`): `cancel_enrollment` (`api/v1/views/enterprise_subsidy_fulfillment.py:286`)
  reads the fulfillment and deactivates the LMS enrollment, whose receiver revokes
  a fresh copy and emits the event; then it revokes its own copy, which still says
  that nothing was revoked, and emits it again. The docstring of `revoke`
  (`models.py:2431`) says "Idempotently unenroll/revoke".
- `LicensedIsLive` (one license, `Operations` enroll, expire and unenroll,
  `Serial`): enrolling again with the same license keeps the revoked fulfillment,
  which the expiration then skips.
- A second transaction for an enrollment whose fulfillment is live is accepted
  and recorded nowhere: `reactivate` (`models.py:2516`) returns early, although
  its docstring says that the new transaction is stored. `Settled` fails with
  `Overlaps = {"held"}`.
- A cancellation writes its old copy over a redemption that came between
  (`Overlaps = {"cancelling"}`).
- `HeldIsEnrolled` needs requests one at a time (`Serial`): a redemption between the
  LMS call and the database call of a cancellation leaves paid credit on an inactive enrollment.
- ADR 0015 wants a learner who left a default course not to be enrolled again.
  The exceptions in `LeaverStaysOut` are those the code has: the answer of
  `learner-status` is acted upon unchecked; an audit enrollment is enrollable
  (deliberately, by a comment of the view), and so is a paid one after the license
  of the learner who left it is revoked or expires, which sets the inactive
  enrollment to audit (`enterprise_subsidy_fulfillment.py:404`); a row that the
  task creates after the learner has left is not marked. A change of the advertised run, too,
  enrolls the learner in the new one.
- Two intentions that resolve to one run: the realization is one-to-one, the second
  request is answered as failed although enrollment and fulfillment are written
  (`RecordUnanswered`).

*Linking.*
- `SingularActive` (one learner, two customers, `AssignToGroup` alone): two
  active customers. The command
  `enterprise/management/commands/ensure_singular_active_enterprise_customer_user.py`
  exists to repair it.
- Two requests that each create a link overtake each other and leave two active
  rows (`overtaken`).
- A permanent unlink (`is_relinkable = FALSE`) is undone by whatever creates a row
  through `save` (SSO login, API, pending learner), which takes over the row
  without looking, and by a stale copy of `link_user`.
- Deleting a pending admin deletes the pending learner of the same address;
  unlinking an invited admin leaves an invite that is never honoured; the
  unlinking branch of `_delete_active_admin` is reached only for rows without
  `user_fk`.

*Learner data.*
- `RepeatHasCause` fails for a customer with two configurations of one channel
  (`Deployments` with two of them): they overwrite each other's row. After one
  failure the completion of the first may never be sent.
- Cornerstone has one row for an enrollment and configuration, and reports
  incomplete courses. A grade that changes after an accepted report, and whose
  report is refused, is saved over the accepted row; if it changes back, the same
  completion is sent again (two changes, one failure). It is the last of the causes in
  `RepeatHasCause`.
- `GradeChangeIsReported` (the Canvas configuration, one change): the row that is
  reused keeps the grade it was made with.
- The lock is named after keyword arguments and the command for assessments
  passes positional ones: the assessments of all configurations share one key.
- The holder of an expired lock deletes, in the end, the key of the next holder.
- An assessment counts as transmitted below status 400 (`transmitters/learner_data.py:137`
  and 258), a completion below 300 (383). A subsection's grade that was answered by
  a redirect is passed over from then on, whether or not the LMS has it (`Redirected`).
- A subsection's grade of 0 is taken for no grade (`exporters/learner_data.py:559`)
  and never sent.
- The unique constraints of the SAP, Canvas and Blackboard tables
  (`models.py:351`, 336, 382) turn a second row, made by a task that had found none,
  into an IntegrityError after the call: it ends the task, and what the LMS has
  answered is not kept (`Collide`).
- An exception on one configuration ends a task for one learner for the
  configurations that are left; the scheduled tasks report to those later.
- The docstring of `transmit_single_subsection_learner_data` speaks of the one
  sub-section; all of them are sent.

*Groups.*
- `ExpiredAreRemoved` (two groups, one address): expiring one membership deletes the
  pending row, and the membership in the other group becomes one of nobody.
  Listing it raises an AttributeError in `member_email` and in mail tasks.
- `update_pending_learner_status` (`api/v1/views/enterprise_group.py:196`) writes any
  status the request holds through `queryset.update`, which validates nothing: a
  pending membership may be shown as accepted or removed (`forced`).
- Pending enrollments are carried out after the commit of the registration that
  deleted their rows (`models.py:1641`). One that raises ends the loop, and those
  that are left are lost: nothing remembers them.
- A revived pending membership keeps its date of creation and expires at once;
  revived members get no mail.
- Deleting a pending row for the sake of one group deletes the pending enrollments
  of the address.
- Pending enrollments are looked up with their license and unique without it: a
  second license for the course is an IntegrityError.
- The handler of errors in `remove_group_membership_records` marks rows in the
  transaction that is rolled back; mail tasks are queued before the commit.

*Invite keys.*
- `UsageLimitHolds` (limit one, a learner who left and is readmitted by an
  administrator): the help text of `usage_limit` (`models.py:4187`) counts uses,
  the code counts linked rows.
- "Cannot reactivate" (`models.py:4205`) compares with what was loaded: a PATCH
  that another one overtook writes `is_active` back.

*SSO.*
- `ActiveIsEnabled` (one value, two calls): after a first configuration that failed, the
  repaired record is submitted as disabled while the callback sets `active`.
- `first_name_attribute` (`models.py:4393`) and `identity_provider` are submitted,
  and are not among the `fields_locked_while_configuring` (4353): an update of them is
  saved at any time, also while a configuration is pending, and is not submitted.
  The orchestrator learns of it with the next change of a locked field (`unsent`).
- After a time-out the record may be submitted again, and the late answer to the
  first submission counts for the second. A submission whose response is lost is
  rolled back, while the orchestrator works on it. A callback saves the row it has
  read, and an update decides on the row it has read, over what another request
  has written meanwhile. `upset` marks these three.
- The late answer to the call of a creation activates a record that was
  deactivated meanwhile; an answer before the commit is a 404.
- A SAP configuration has no `uuid` in its data, so its submission is a KeyError.
- A comment says that a configuration times out after 12 hours, the default is 1.

*Catalogs.*
- Calls inside the transaction: a rollback leaves the service with what the table
  never had. A failed call is logged and not repeated.
- `migrate_enterprise_catalogs` sends rows as they were when it began: a catalog
  deleted since is created again. A stale save inserts a deleted catalog again.
- `bulk_update_catalog_query_id` bypasses save and signals: the service is not told,
  and the filter stays that of the old query. It finds its catalogs by their latest
  history record (lines 79–85), which its own update does not write: a second run
  goes by the query that a catalog had before the first.
- The docstring of `partial_update` allows the title only, its serializer any
  field. Concurrent requests, or the admin form, make a second catalog of a query.

*Consent.*
- `delete_data_sharing_consent` says it deletes "also its cache", and so does
  `unlink_enterprise_customer_learners`; both delete a key without the customer,
  while `consent_needed_for_course` reads one with it. The learner is asked only
  when the entry expires.
- A visit through another customer or site is cached as "not needed" for the
  active customer.
- A refusal for a run without a record is saved in the record of its course and
  speaks for all other runs of it; so does a later grant (`undone`).
- The consent of a program is saved course by course (`consent/models.py:162`), and
  the page answers any exception with a redirect (`enterprise/views.py:777`): an
  error in one of the saves may leave the others.
- Deleting the refusal of a run uncovers a grant of its course: what was to be
  asked for again is taken for granted.
- `create_missing_dsc_records` also turns refusals into grants, and so does the
  page behind the consent page for whoever opens it.

## 7. Not modelled

`PROJECT.json` gives the reason for every component. In short: pages, plain REST
resources, serializers, the Django admin and predicates of permissions keep no
state of their own; the formats and clients of the nine channels, the license
and subsidy services and the LMS are the environment, modelled by what this code
sees of them. Clock time is reduced to the order of events. Isolation levels below
one commit per step are modelled only where the code is known to depend on them
(`InactivateOthers`, the requests in two steps, the locks of `CatalogSync`).
