# A verification of crossplane-provider-hana

The provider is a Kubernetes controller process. For each kind of custom resource it runs a
controller that compares a spec with what is in an SAP HANA database (or in SAP HANA Cloud)
and sends SQL statements (or HTTP requests) until they agree. This directory holds TLA+ models
of its controllers and of the connection pool they share, TLC runs that check them on small
instances, and TLAPS proofs of their safety for every value of the constants.

## Inventory

Every controller is a set of callbacks (`Connect`, `Observe`, `Create`, `Update`, `Delete`) of the
managed reconciler of crossplane-runtime. That library runs one reconcile per resource at a time
and repeats it at every event, after every error and at every poll. It is external to the
repository; the models take from it what the callbacks rely on: the finalizer and the
create-pending annotation are written before `Create`, the outcome after it, a resource whose
Create has no recorded outcome is left alone until somebody looks at it, the finalizer is removed
when `Observe` finds nothing, and a write of an out-of-date copy is refused.

| component | state it keeps | operations | interacts with | what makes it hard | what makes it correct |
|---|---|---|---|---|---|
| User controller, user client, privilege client | the User resource, `status.atProvider`; in HANA the user, its grants, parameters, usergroup, identities, password | read, create, seven kinds of update, drop | password Secret, X509Provider resources, connection pool, a DBA | many statements without a transaction, secrets read twice, managed and unmanaged grants | nothing orphaned, defaults kept, only managed privileges revoked, convergence |
| HANA connection pool (`hana.go`) | map from hashed DSN to `*sql.DB` | `Connect`, `Disconnect`, goroutines that close | all workers of all controllers, `main` | unlocked check-then-swap, shutdown against late Connects | no leak, no closed handle cached, nothing left open at a clean shutdown, a usable handle in the end |
| KymaInstanceMapping controller | the KIM resource, child Secret, child InstanceMapping | extract credentials from a Kyma cluster, create the children | InstanceMapping controller, garbage collector, Kyma cluster | two controllers and the collector concurrently, finalizers waiting for each other, credentials copied once | nothing orphaned, credentials outlive their use, provisioning ends, deletion ends |
| InstanceMapping controller, HANA Cloud client | the IM resource; the mapping in HANA Cloud | list, create, delete by HTTP | child Secret, HANA Cloud | lost answers, rotated credentials | the mapping never outlives the resource |
| PersonalSecurityEnvironment controller | the PSE resource; in HANA the PSE, its certificates and provider | create, concurrent purpose, add and drop, drop PSE | X509Provider resources, certificates | goroutines abandoned at the first error, names HANA folds to upper case | trust follows the spec, without a gap |
| AuditPolicy controller | the AuditPolicy resource; the policy in HANA | create, alter, drop and create anew, drop | a DBA | three statements without a transaction | auditing is interrupted only if necessary, and comes back |
| X509Provider controller | the X509Provider resource; in HANA the provider, its issuer and rules | two concurrent queries, create, two concurrent alterations, drop | PSEs and users that refer to the provider, a DBA | an alteration abandoned at the other's error, names HANA folds to upper case | the last word has the spec, nothing orphaned |
| Certificate controller | the Certificate resource; the certificates imported from its secret | find by name pattern, import a chain, drop what is found, each in a transaction | other Certificate resources in the same store, the secret, PSEs | transactions of several workers, a shadowed error, a pattern that matches too much | chains as a whole, only own ones dropped, nothing left behind |
| Role, Rolegroup, Usergroup, DbSchema controllers | one resource and one HANA object each | create, alter, drop | each other's objects, the privilege client, a DBA | statements without a transaction, what is read is not always what was written | HANA follows the spec, reconciles settle, nothing orphaned or dropped unasked |
| ProviderConfig controller, remote cluster client, process setup, API types, string helpers | – | – | – | – | mostly outside the models, see "Not modelled" |

The hazards, each at its line and with the properties that would show it, are listed in
`PROJECT.json`.

## Modules

| module | models | run |
|---|---|---|
| `UserController`, `MCUser` | User controller and client, privilege client | `user_strict`, `user_lax` |
| `HanaPool`, `MCPool` | connection pool and shutdown | `pool` |
| `KymaMapping`, `MCKyma` | KymaInstanceMapping and InstanceMapping controllers, composed | `kyma`, `kyma_delete` |
| `PseController`, `MCPse` | PersonalSecurityEnvironment controller | `pse` |
| `AuditPolicyController`, `MCAudit` | AuditPolicy controller | `audit` |
| `ManagedReconciler` | one resource and the reconciles of crossplane-runtime; extended by the controllers below | |
| `CatalogController`, `MCCatalog` | Role, Rolegroup, Usergroup and DbSchema controllers | `catalog`, `role_revoke` |
| `X509ProviderController`, `MCX509` | X509Provider controller | `x509` |
| `CertificateController` | Certificate controller, for one resource | |
| `CertificateStore`, `MCCert` | two of them composed | `certs`, `cert_like` |
| `ManagedResource` | abstract: what any controller promises of a resource and its object | implemented in `user_strict`, `catalog`, `x509` |
| `UserControllerProofs`, `HanaPoolProofs`, `KymaMappingProofs`, `AuditPolicyProofs` | proofs about the modules of these names | |
| `PseProofs`, `X509Proofs`, `CatalogProofs` | proofs about `PseController`, `X509ProviderController`, `CatalogController` | |
| `CertificateProofs` | proofs about `CertificateStore` | |

The lines of code behind each definition are in the `map` of `PROJECT.json`. Definitions marked
`(mutant: ...)` are plausible bugs; replacing the definition after them by the mutant makes TLC
violate a property.

### UserController

`cr` is the User resource at the API server (`prev` is the list of privileges in its saved status),
`mem` the copy a reconcile works on, `db` the HANA user, `secret` the password secret. A reconcile
goes through `pc`: `Reconcile` (read the resource, `Connect`), `Observe` (one atomic `Read`, then
`upToDate`), and then `BeginCreate`, `BeginUpdate` or `BeginDelete`, which compute a `plan`: the
statements of the operation, in the sequence `Order`, the one the code runs them in. Each statement
(`CreateUser`, `GrantPrivileges`, `RevokePrivileges`, ..., `SetPassword`) is a step of its own; it
takes effect, or fails, or takes effect and is taken for failed (`StatementFails`, and the faults of
each statement), and a failure ends the operation. `SaveStatus` writes the status back unless the
copy is stale. Between any two steps users edit the spec, rotate the secret or ask for deletion, a
DBA grants, revokes or locks, and the provider restarts.

Privileges are a name and a grant option; `Groups` says which of them share a statement. Whether
a privilege string parses is a constant. `MapsBothDiff` is modelled as it is written: both results
are empty exactly when the maps differ. An X.509 mapping names its provider (in the spelling of the
spec), refers to an X509Provider resource, or both; the subject may be absent. `ResolveUserMapping` is a
step of Create and Update and fails for a reference to nothing (`ResolveFails`). `Identity` is
what HANA then reports, with the provider in upper case; `upToDate` compares it with the mapping as it is
in the spec.

### HanaPool

Any number of workers call `Connect` for any DSN: `Load`, `PingCached`, `Open`, `PingNew`, `Swap` are
the points where other workers interleave; closing runs in goroutines (`Close`). `main` stops the
manager and, when all workers are done, runs `Disconnect`: `Range` over the map in any order, `Waited`,
`Clear`. If workers outlast the grace period of the manager, `mgr.Start` returns an error and
`FatalIfError` ends the process without the deferred `Disconnect` (`Exit`). The keys of the map are salted
hashes, taken to differ for different DSNs; that different DSNs never share a handle is this assumption,
so it is not listed as a property.

### KymaMapping

`kr` and `ir` are the running reconciles of the two controllers, which interleave freely. The garbage
collector is part of the model because the code relies on it: it deletes children of an owner that
is gone, or is being deleted in the foreground, in any order, and an object with a finalizer is only
marked. Users and others delete the IM, the Secret (`DeleteSecret`) or the remote mapping behind the
controllers. Of credentials the model keeps what the code and HANA Cloud tell apart: `ExtractKymaData` copies
those that have all keys and parse (`Valid`), though fields may be empty; HANA Cloud accepts those
that are `Complete`, and only the current ones.

### PseController

`Read` runs three queries concurrently and returns early when the first finds nothing.
`Create` and `Update` start goroutines (`job`), each with its statements still to run (`todo`) and its
channel (`ch`); `Receive` reads the channels in order up to the first error. What a goroutine has
sent when its operation returns, or the provider restarts, goes to `late` and may take effect at any
later time, or never (`LateStatement`); what it has not sent is cancelled with the context. Statements
act on the PSE called `Stored`, the name in upper case, and give it the provider's name in upper case;
queries ask for the name as it is in the spec (`Found`), and for PSEs in use only.

### AuditPolicyController

`plan` holds the statements still to be sent, one step each; `UpdatePlan` decides between altering in
place and `RecreatePolicy`. Names, actions, status and level are the upper-case forms
`buildDesiredParameters` produces. A policy a DBA created may be there from the start and may have
no retention, on which `upToDate` panics (`Panics`; the reconcile ends, controller-runtime recovers).

### ManagedReconciler and ManagedResource

`ManagedReconciler` holds what the later modules share: the resource `cr`, the copy `mem` a reconcile
works on, `stale` (the copy is out of date, its writes are refused), and the steps of the library
between the callbacks: `Start`, `NotFound`, `Claim` (finalizer and create-pending annotation), `Return`,
`RecordCreate`, `Release`, `Edit`, `Delete`, `Die`. A controller conjoins them with its own steps.

`ManagedResource` is the contract in four variables: the resource is free, held (it has the finalizer)
or gone; a deletion was requested or not; the object is absent, the provider's or somebody else's; and
`outside` counts interference from others. The object is created only while the resource is held,
dropped by the provider only after a request, and a held resource goes away only when nothing the
provider created is left. `UserImplements`, `CatalogImplements` and `X509Implements` are refinements with
the mapping written out in each module (`Managed`).

### CatalogController

The four simple controllers differ in what they compare and send, not in their course; the kind is a
field of the spec. `CreatePlan`, `UpdatePlan` and `DeletePlan` give the statements of an operation as a
sequence of sets: the grants that `groupPrivilegesByTypeAndIdentifier` groups by object come in any
order, as the code ranges over a map. `obj` keeps one object per schema, since a role is looked up
without its schema (`Rows`). `QueryPrivileges` is asked for the quoted name (`GetRoleName`) and compares
it with the plain one. A rolegroup that is created without a grant to its creator starts with role
administration disabled (`NewRolegroup`). Only desired parameters of a usergroup are compared
(`MapDiffOnlyDesired`); a schema is compared with nothing. `Altered` says what a DBA may change in an object
of each kind: privileges, LDAP groups, the rolegroup of a role, role or user administration, any parameter
of a usergroup set or cleared, the owner of a schema.

### X509ProviderController

The two queries of `Read` answer in any order; without an issuer the second is not waited for. `job`
holds the statements of the running operation. `Received` reads the channels issuer first: at its error
`Finish` returns, and a statement about the rules that is still under way goes to `late`, to take effect at
any later time or never; a restart leaves every alteration that was under way there. Statements act
on `Upper` of the name, queries on the name as written.

### CertificateController and CertificateStore

`CertificateController` is one resource. `Read` finds every certificate whose base the pattern of the
resource matches. `CreateCertificate` and `DropCertificate` are the statements of a transaction, whose
uncommitted work is in `open`; `CreateFails` leaves it open, because the error of the loop shadows the one
the deferred function tests, and it ends with the context of the reconcile (`EndCreate`). `Delete` reads
the names again, sorted (`Ordered`), before its transaction begins (`ReadBeforeDelete`). `CertificateStore` instantiates the
module twice, on shared certificates, secrets and uses: a name that a transaction has created or dropped
is held, and a statement of the other resource on it waits, or fails as a timeout would. HANA is taken to
run these statements inside the transaction, as the code and its documentation do. `Crash` ends both
reconciles; a commit that was under way may still have been carried out.

## What is checked

Passing runs. Bounds are on the environment only: `MaxEdits`, `MaxDrifts` and `MaxFaults` limit edits,
DBA changes and failures; the controllers run without bound.

| run | instance | shows |
|---|---|---|
| `user_strict` | 7 specs that differ in every kind of setting, with X.509 mappings by name, by reference, dangling, and in lower case without a subject; 2 edits, 1 drift, 1 fault | `DefaultsKept`, `UserImplements`, `Convergence` |
| `user_lax` | 4 lax specs, 2 edits, 2 drifts, 1 fault | `RevokesOnlyManaged`, `NoOrphan`, `Convergence` |
| `pool` | 2 workers, 2 DSNs, 3 handles, 1 failed ping | `CachedIsOpen`, `NoLeak`, `CleanShutdown`, `EventuallyUsable` |
| `kyma` | 2 versions of complete credentials, 1 with an empty field, 1 that does not parse, both deletion modes, 3 edits, 2 faults | `NoOrphanMapping`, `SecretOutlivesMapping`, `Provisioned` |
| `pse` | 2 certificates, 3 provider names and 2 PSE names, each one in lower case, 5 specs, 2 edits, 1 fault | `NoOrphanInUse`, `PseConvergence` |
| `audit` | 6 specs, 2 names, 3 initial databases, 3 edits, 2 faults | `NoOrphanPolicy`, `DropOnlyToChange`, `AuditConvergence` |
| `catalog` | 13 specs of the 4 kinds, 2 schemas, 3 edits, 1 drift, 1 fault | `CatalogImplements`, `CatalogConvergence`, `CatalogSettles` |
| `x509` | 7 specs (2 names, one also in lower case; issuers and rules that HANA refuses), 2 edits, 1 drift, 1 fault | `X509Implements`, `X509Convergence` |
| `certs` | 2 resources whose patterns match each other, 3 certificates, 5 chains (broken ones too), 2 edits, 1 drift, 1 fault | `WholeChains`, `ReleasedClean`, `CertConvergence` |

Each passing run also checks the type invariant of its module (`user_lax` excepted, which shares it with
`user_strict`); those of the later modules include a relation that a real step could break, such as that
no two transactions hold the same name and none stays open outside a reconcile (`CertTypeOK`), or that no
alteration starts before both queries answered (`X509TypeOK`).

Two edits and one fault already give every pairwise interference: an edit during the reconcile of
an earlier edit, a rotation between the two reads of a secret, a deletion during Create, a failure in
any statement of any operation followed by a complete retry. Two workers are enough for every race
of `Connect` with itself, and a third handle for a replaced one that is still closing. Where a bound
could be raised within reason (the PSE with 3 edits) the result was the same. The type invariants, the
safety properties and the refinements are proved without bounds; what is left to the runs is liveness.
In `certs` an edit is a new spec, a deletion, a changed secret or a changed use: two of them with a fault
let both resources be deleted at once, or one import while the other, whose pattern matches, deletes. The
chains have the certificates they share in the same order, so that the transactions never wait for each
other in a circle; HANA would break such a circle by failing one statement, which is a fault.

Deadlock is not checked: a resource that is gone, with the bounds used up, is a proper end.

Fairness. `FairSpec` asks for weak fairness of all steps of a controller together: a reconcile that
started goes on, and the reconciler comes back at every poll and after every error
(`WithPollInterval` and the rate limiter in each `Setup`), also after a restart. Nothing is assumed
of users, the DBA, failures, late statements, or of one particular step. `CertificateStore` has this
fairness for each of its two resources, which different workers reconcile. The pool assumes that each
worker, each closing goroutine and `Disconnect` run; `KymaMapping` also that the garbage collector
runs. Failures are bounded, so "once failures stop" is part of each liveness property, and what the
code cannot get past by itself is named in it:

- everywhere, a Create whose outcome was never recorded;
- users: a missing secret and a privilege that does not parse (`Blocked`); for the settings behind the
  identities, mappings that never compare equal or do not resolve (`NeverEqual`, `Unresolved`) and a locked
  user; for those behind the parameters, parameters that differ (`ParamsDiffer`). The grants are promised
  unless the user is `Blocked` or could never be created;
- Kyma mappings: incomplete credentials, an unreachable cluster, a Secret that was deleted or rotated away
  (`Unprovisionable`);
- PSEs: a name not in upper case and a PSE without purpose (`Blocked`), a provider or certificate that is
  not there (`Missing`), a certificate listed twice (`ListedTwice`);
- audit policies without retention; roles of the same name in another schema (`Misled`); X.509 providers
  whose name is not in upper case; specs that HANA refuses;
- certificates: one in use, and two resources of which one is being deleted and finds what the other
  imports (`Rivals`): the two may drop and import for ever. A resource whose pattern matches another name
  (`Overlaps`) is promised only that something it takes for its own is there.

`Matches`, `Own` and the other right-hand sides of these properties are stated in terms of the spec and of
what is in HANA, not by the comparisons the code makes.

### Where the code departs from what it says

| run | property | what TLC shows |
|---|---|---|
| `kyma_delete` | `DeletionCompletes` | a KymaInstanceMapping deleted in the background stays for ever |
| `role_revoke` | `RoleRevokes` | a privilege taken off the list of a role stays granted for ever: its privileges are looked up under the quoted name and never found |
| `cert_like` | `OnlyOwnDropped` | deleting the certificate resource `a_b` drops the certificates of `axb`, which its pattern matches |

`PROJECT.json` quotes the line of documentation for each. `kyma_delete` and `role_revoke` need the
fairness above; the violation of `cert_like` is finite.

Further departures are part of the models, and the properties make room for them, but have no run of
their own:

- A privilege taken off the list of a lax user before a status update recorded it stays granted
  (`FilterManagedPrivileges`), although users.mdx says that removing it revokes it.
- The switch of a user from strict to lax revokes the user's own default privilege. `DefaultsKept` is
  therefore checked and proved for specs that stay strict.
- Changed parameters of a user never reach HANA, and block the later steps of Update (`MapsBothDiff`);
  `Convergence` excepts them (`ParamsDiffer`).
- X.509 mappings of a user that are by reference, have no subject, or name a provider in lower case never
  equal what HANA reports (reconciler.go:482), although examples/x509user/users.yaml has such mappings.
  Every Update adds them again, HANA refuses, and the lifetime check and the password behind
  them are never brought up to date. A reference to a resource that is not there fails Create, and Update
  at the same place.
- A missing password secret or a privilege that does not parse fails Observe, also for a user that is being
  deleted: the deletion waits for an edit.
- Rotated Kyma credentials never reach the child Secret, and a deleted child Secret is never restored, as
  Observe looks at the InstanceMapping only (reconciler.go:352).
  20260218-instance-mapping-architecture.md:326-328 says that rotation is supported. Credentials with empty
  fields are copied; `KymaTypeOK` promises only that what is in the Secret parsed.
- A foreground deletion of a KymaInstanceMapping may collect the Secret before the remote mapping is
  deleted with it. `SecretOutlivesMapping` is about other deletions.
- A PSE whose name is not in upper case is created and given its purpose under the upper-case name, and
  never found again: CREATE PSE is refused for ever, and the PSE stays in use when its resource is deleted.
  `NoOrphanInUse` is therefore about names in upper case. The name of an X.509 provider has the same
  fate (x509provider_client.go:58). A PSE that refers to a provider in lower case is updated at every poll.
- A PSE whose SET PURPOSE failed is neither completed nor dropped, the deletion of a PSE waits for its
  X509Provider resource, and a certificate listed by ID and by name confuses the count that is compared.
- An audit policy that a DBA created without retention makes Observe panic at every poll.
- A role of the same name in another schema hides that the own one is missing.
- The owner of a schema is given to CREATE SCHEMA and neither compared nor altered afterwards, although
  dbschema_types.go:23 lets it be edited (dbschema reconciler.go:156-182, 215-232). `CatalogConvergence`
  promises the owner only for a schema that was never edited or touched by a DBA (`OwnerIgnored`).
- A certificate resource whose pattern matches certificates of another name is taken to be there, and its
  own chain is not imported; 20260731-certificate-crd.md:146 says that the pattern matches all certificates
  of this resource. This is the other half of `cert_like`, excepted as `Overlaps`.
- Workers that outlast the grace period take the deferred Disconnect with them (main.go:111-114); the
  connections end with the process.
- Replacing the only certificate of a PSE may leave it without any for a while (ADD and DROP run
  concurrently).
- A deletion works on names it has read before its transaction: if a DBA drops one of them and another
  resource imports under that name, part of the other chain may be dropped. `WholeChains` therefore
  speaks of histories without such a DBA.

## What is proved

TLAPS proves the following for all constants that satisfy the named assumptions of the modules:
any specs, names, credentials, numbers of workers and handles, and any number of edits and faults.

- `TypeCorrect` (`UserControllerProofs`): `TypeOK` is inductive as it stands.
- `NoOrphanCorrect` (`UserControllerProofs`, as the next three): `LifeInv` strengthens `NoOrphan`: the finalizer is there from
  before CREATE USER until after DROP USER, and a copy of a resource that is gone is recognised as
  stale. Without the second half the removal of the finalizer could be based on an old name or spec.
- `UserRefines`: `UserController` implements `ManagedResource`. Every step maps to
  one abstract step or a stutter; besides `LifeInv` this needs `DropInv`: a DROP USER is planned only for a
  resource whose deletion was requested, which nobody takes back, and such a resource keeps its
  finalizer as long as it exists.
- `LaxCorrect`: if every spec is lax, `RevokesOnlyManaged`. `LaxInv`: what the filter lets through, and
  so every privilege in a status or in a REVOKE, was in the spec at some time.
- `DefaultsCorrect`: if every spec is strict and the DBA leaves the defaults alone, `DefaultsKept`.
  `DefaultsInv`: the default privilege is held with its option only and PUBLIC without, so the
  difference of desired and observed never contains them. The first hypothesis is
  needed: see the switch from strict to lax above.
- `PoolTypeCorrect`, `CachedIsOpenCorrect`, `NoLeakCorrect`, `CleanShutdownCorrect`
  (`HanaPoolProofs`): `PoolInv`; the key is `OwnInv`: a handle that is opened and not yet stored belongs to
  one worker.
- `KymaTypeCorrect`, `NoOrphanMappingCorrect`, `SecretOutlivesMappingCorrect` (`KymaMappingProofs`):
  `MappingInv`: each object is covered by the finalizer of the one it needs, the mapping by the IM, the IM
  by the KIM, which keeps the Secret unless users delete it. The types say that whatever is in the Secret
  parsed when it was copied, not that it is complete.
- `AuditTypeCorrect`, `NoOrphanPolicyCorrect`, `DropOnlyToChangeCorrect` (`AuditPolicyProofs`):
  `AuditInv`; `LifeInv` is as for users, over all names the spec ever had, and `DropInv` says that a
  DROP still to be sent is still called for by what is in HANA, whatever the DBA did in between.

- `PseTypeCorrect`, `NoOrphanInUseCorrect` (`PseProofs`). `Typed` adds to `PseTypeOK` what the running
  reconcile has read. `JobsInv` says which goroutines run and that only the first one sends SET PURPOSE.
  `LifeInv` is what `NoOrphanInUse` (for names in upper case)
  needs: a resource without finalizer has no PSE and no SET PURPOSE
  that might still arrive (`FinalizerInv`); the copy of a reconcile is right unless it is stale
  (`CopyInv`); a purpose that was read is still there, and none appears behind a reconcile that found none
  (`PurposeInv`); and behind a resource that is gone there is nothing (`GoneInv`). Without the statements
  in `late` the invariant would be short; with them the proof has to show that no abandoned SET PURPOSE
  survives until the finalizer is removed.
- `X509TypeCorrect`, `X509Refines` (`X509Proofs`): `X509ProviderController` implements `ManagedResource`.
  `ReadInv`: an update begins only with the answers of both queries; `CopyInv` and `DropInv` are as for users; `AbsentInv`:
  from the answer that there is no such provider until the finalizer is removed there is none that the
  controller created, whatever arrives late.
- `CatalogTypeCorrect`, `CatalogRefines` (`CatalogProofs`): the same for the four simple controllers. The
  type of a plan is a sequence of sets of statements, each with the arguments of its kind; `DropInv` keeps
  DROP out of every plan but that of Delete.
- `CertTypeCorrect`, `WholeChainsCorrect`, `ReleasedCleanCorrect` (`CertificateProofs`): `CertInv`. For
  `WholeChains` one has to know what both transactions are about to do. `TxInv`: names are unique, those
  created are free, those dropped are still there. `ImportInv`: what an import has created and what it has
  still to create are together the chain that each of its entries names. `DropInv`: what a deletion has
  dropped and is going to drop includes, with a certificate, all those imported with it; this survives an
  import of the other resource only because names that the deletion has read are still taken, unless the
  other resource has dropped them itself, and then its deletion was requested and it imports nothing more
  (`Leaving`). A DBA breaks that argument, hence `drifts = 0` in `WholeChains`. `ReleasedClean` is an action
  property; it follows from `GoneInv` (a resource is released when none of its own certificates is found)
  and from `CopyInv` (what was looked up is the name in the spec unless the copy is stale). The steps
  of the two resources are symmetric, and so are the two halves of the proof; what a commit does to a set
  of certificates is proved once, as lemmas about sets (`AddWhole`, `AddClosed`, `DropWhole`).

Each strengthened invariant was model-checked on the instance of the run before it was proved.

Only model-checked: all liveness (`Convergence`, `EventuallyUsable`, `Provisioned`,
`PseConvergence`, `AuditConvergence`, `CatalogConvergence`, `CatalogSettles`, `X509Convergence`,
`CertConvergence`), which is out of the prover's reach. Each theorem has the named assumptions
about the constants as its only hypotheses; `LaxCorrect` and `DefaultsCorrect` also say for which specs they
hold.

## Abstractions

- A reconcile reads the latest version of its resource; reads of an older cached version only
  lead to writes that are refused, which `stale` covers, or to operations that would have happened
  earlier.
- The short time for which crossplane-runtime waits after a Create before it believes that the object
  does not exist is left out, which allows more behaviours.
- `Read` of a user, an audit policy, a catalog object and the certificates is one step; that of a PSE and
  of an X.509 provider is not, since the code itself runs its queries concurrently.
- What HANA, HANA Cloud and Kubernetes do with a statement or request is modelled from how the code
  uses them (marked external): they accept or refuse, and a granted option survives as documented.
- The key of the connection pool, a salted argon2 hash of the DSN, is taken to differ for different DSNs.
- The rollback of a transaction whose context is cancelled is done by a goroutine of `database/sql`; it is
  modelled as one step with the end of the reconcile (`EndCreate`). The next reconcile of the same resource
  is taken to come later than that, and one of another resource waits for the names as it does during the transaction.
- A CREATE or DROP of an X.509 provider that is under way when the provider restarts has taken effect by then
  or never does; an alteration may still arrive later.
- Names of users, mappings and catalog objects do not change, that of a PSE only in its spelling; those of
  audit policies, X.509 providers and certificates may, and the schema of a role may be added or removed, which the immutability
  rules of the CRD do not exclude. An object under an earlier name is not followed any further.
- PEM blocks, serial numbers, sanitised names and LIKE patterns are finite tables; what they keep is which
  names coincide and which patterns match which names.
- Conditions, events, logs and published connection details are left out.

## Not modelled

The text of SQL statements and the quoting helpers (but for the two places where a name is quoted or not
and it matters), the parser and formatter of privilege strings beyond whether a string parses, the
ProviderConfig controller (all of it is in crossplane-runtime), the remote cluster client (builds a client
from a kubeconfig), flags, feature gates and generated code. Published connection details, including that
they are not renewed with a rotated password, and the field `priority` of X.509 providers, which no code
reads, are left out as well.

## Plan

1. Action properties that say more about single statements: that an update of a PSE or of a catalog object
   sends nothing that the spec it has read does not ask for.
2. The composition of `PseController`, `X509ProviderController` and `CertificateStore` into the chain of
   trust that a login needs, in place of their free environments.
3. The round trip of privilege strings (parse, format, group) as operators over small inputs.
