# Formal models of the OSLC reference implementation

TLA+ models, model checks and machine-checked proofs for the OSLC reference
implementation: four servers (Architecture, Requirements, Change and Quality
Management, below AM, RM, CM and QM) built with Eclipse Lyo, a library with the
in-memory store, the JavaScript of their dialogs and UI previews, and a client that fills
the servers with data.  `PROJECT.json` lists the components, the runs, what each
definition models (file and lines), the mutants that show each property can fail, the
hazards the properties are for, the findings and the theorems.

    tlc -config MCAmServer_atomic.cfg MCAmServer.tla      # one of the runs
    tlapm AmServer_proofs.tla                             # the proofs of one module

## 1. The system

| Component | State it keeps | Operations | What makes it hard |
|---|---|---|---|
| Resource store (`lib-common`, `MemResourceRepository`) | per service provider a `HashMap` from identifier to resource; no synchronisation | add, get, has, update (look up, then put), delete, page, find, ETag | all servlet threads at once; check-then-act; overlapping calls on a `HashMap` lose or hide entries, or remove one twice |
| AM server | two static repositories, the TRS change log | create, read (RDF, HTML, compact, previews), update with `If-Match`, delete | store and log are changed in two steps; what was read is stale when it is used |
| RM server | two maps (`synchronizedMap` of `LinkedHashMap`), a Lucene index and its single-threaded executor, the TRS change log | as AM, the creation dialog, a full-text search | index fed by another thread, never told of deletions; puts without a lookup |
| CM server | one repository | as AM without a log; thirteen more dialogs and selectors | as AM; an exception that is a 404 in CM is a 500 elsewhere |
| QM server | five repositories | as AM without a log, for five types | as AM; five almost equal copies of the code, one of which is different |
| TRS handling (`ApplicationBinder`, Lyo) | base and change log in memory | base from the repositories when the handler is built, log appended to by the delegates | base and log must together tell of everything stored |
| Service provider catalog | a static catalog and map, two monitors | lazy registration, catalog, collection, one provider | monitors entered in opposite orders; plain collections read outside a monitor |
| Query capabilities | none between two pages | fifteen queries with `oslc.paging`, `oslc.pageSize`, `page` | the store changes from page to page and while a page is cut; `int` overflow |
| Delegated UI (JSP pages with `delegated-ui.js`, selectors and creators, `delegated-ui-helper.js`) | a global XMLHttpRequest, the list, messages between windows | search, select, cancel, create, listen | answers late, lost or out of order; forms posted twice; messages of other windows; labels that change the JSON they are pasted into |
| UI preview (`ui-preview-helper.js`) | timers, tips, requests and a flag per popover and setup | set up, mouse over and out of links and popovers, timers, answers | timers of several popovers run at once; a late answer or a handler goes to the first tip in the document, whosever it is |
| Authentication (`CredentialsFilter`, `AuthenticationApplication`) | session attributes, a bounded cache of token connectors | Basic login, OAuth 1.0 tokens, filter | tokens and connectors change in separate steps; the cache evicts |
| Populator (`client-toolchain`, Kotlin) | lists of created links | traverse catalogs, POST with retries, read-modify-write to link | a retry of what was done; failed and partial runs; concurrent coroutines that block their threads |
| Configuration, start-up, root services, shapes, factories, filters for CORS/CSP | constants | read configuration, answer | sequential or stateless |

How they interact.  Every HTTP request is handled by a servlet thread of its own, from
the generated web service through the server's `RestDelegate` to the store; nothing
but the static state of the delegate, the log and the catalog is shared between
threads, and no lock covers more than one call on a map.  In AM and RM the delegate
calls the TRS handler after the store.  RM's delegate also submits a task to the
indexer thread; its selector searches the index and then looks every hit up in the
store.  The dialogs talk to the selectors by XMLHttpRequest and to the page around them
by `postMessage`.  The populator is a client like any other.

What makes each component correct:

* store and handlers: a request answered with an error leaves nothing behind; what is
  stored was sent by a request that succeeded; nothing disappears without a DELETE;
  `If-Match` protects against all updates the client could have known of; a request
  fails only where a concurrent one explains it;
* TRS: the log tells of each change exactly once, after it was made; nothing is stored
  that a TRS client cannot learn of;
* index: every stored requirement is indexed or will be; a search fails only over
  requirements that were deleted;
* catalog: registration happens once, no answer is partial, readers and writers of the
  plain collections do not meet, calls return;
* paging: a walk over an unchanging store is exact; the cost of changes is bounded; the
  walk ends;
* dialogs: the list is that of the last search; the page presents what was selected, if its
  label can be pasted into a message, or created from the form posted last;
* previews: at most one popover, only for the link under the pointer, with its own content
  if it came up alone, and hidden at last, as long as handlers go to the tips they are for;
* populator: the lists of created links are exact, what has two ends is linked pair by
  pair, changes by others outside of a read-modify-write stay, `main` ends.

## 2. The modules

| Module | Models | State | Used by |
|---|---|---|---|
| `MemResourceRepository` | effects of the calls on a repository, atomic or racing | (operators) | `AmServer`, `UntrackedHandlers` |
| `RestHandlers` | what all handlers share: requests, contents, ETags, answers | `resources`, `pc`, `call`, `seen`, `overwrote`, `status` | the four servers |
| `TrackedHandlers` | handlers of a server with a change log | `log` | `AmServer`, `RmServer` |
| `TrackedStore` | abstract specification: a store and a log that tells of each change once | `store`, `owed`, `log` | refined by `AmServer`, `RmServer` |
| `AmServer` | AM: all endpoints, delegate, repositories | `raced` | `MCAmServer`, proofs |
| `RmServer` | RM: all endpoints, delegate, indexer thread, search | `toIndex`, `docs`, `hits` | `MCRmServer`, proofs |
| `UntrackedHandlers` | handlers of a server without a log | `raced` | `CmServer`, `QmServer` |
| `CmServer`, `QmServer` | CM and QM: endpoints, how the delegate looks up | – | `MCCmServer`, `MCQmServer`, proofs |
| `ServiceProviderCatalog` | the catalog with its two monitors | `catalog`, `providers`, `classLock`, `mapLock`, `pc`, `wanted`, `info`, `answer` | `MCServiceProviderCatalog`, proofs |
| `QueryPaging` | a client that walks through the pages of a query | `store`, `table`, `page`, `pc`, `snapshot`, `got`, ... | `MCQueryPaging`, proofs |
| `DelegatedUi` | script of the dialogs, selectors, creators, listeners | `dialog`, `protocol`, `table`, `xhr`, `xmlhttp`, `list`, `loading`, `left`, `sent`, `presented`, ... | `MCDelegatedUi`, proofs |
| `UiPreview` | the script of the previews, its timers and answers, what clients present | `links`, `made`, `disposed`, `isPopoverShown`, `timers`, `tips`, `content`, `config`, `listeners`, `requests`, `pointer`, ... | `MCUiPreview`, proofs |
| `Populator` | the client, with the servers as it sees them | `initList`, `step`, `providers`, `factory`, `attempt`, `done`, `response`, `list`, `reading`, `claimed`, `copies`, `value`, ... | `MCPopulator`, proofs |
| `AmServer_proofs`, `RmServer_proofs`, `UntrackedHandlers_proofs` (lemmas), `CmServer_proofs`, `QmServer_proofs`, `ServiceProviderCatalog_proofs`, `WebPages_proofs` (`DelegatedUi`, `UiPreview`), `Clients_proofs` (`Populator`, `QueryPaging`) | theorems | – | – |

The specifications of `DelegatedUi` and `QueryPaging` are `DialogSpec` and `WalkSpec`, and so
on, since a module of proofs extends two components.

### Requests and handlers

A request is a process.  `pc[r]` is the next access of its handler to shared state, one
step each: `"has"` (`hasResource`), `"get"` (`getResource`), `"update"` (the lookup in
`updateResource`), `"put"`, `"remove"`, `"insert"` and `"unlink"` (the end of a put and of a
removal where maps race), `"index"` (submit the task), `"event"` (write the log); a request
at `"reject"` is about to be refused.  Everything a handler does between two accesses is
local to its thread and part of the step before.  An endpoint is an action that lets a
request come in, with the parameters it has and the first step of its handler.  `status[r]`
is the HTTP status of the answer.

Data are abstracted to what the properties tell apart:

* a resource is a URI, a content is named by the request that sent it.  The delegates
  stamp every body with the current date before they store it, so two bodies are
  different contents;
* `calculateETag` is a one-to-one function of the content: the digest is over all
  triples, the dates included.  MD5 collisions are left aside, and so are blank nodes,
  which the resources of these servers do not have.  It is taken not to throw: what was
  parsed from RDF can be written as N-Triples;
* `input` stands for what a handler finds out about its input on the way: the body of a PUT
  has a resource with the URI of the request (`"good"`), with another one (`"bad"`, a 400), or
  none (`"none"`: the delegate dereferences null, a 500); a query is one the parser
  accepts or not;
* the identifier of a new resource comes from the body, in use or not, or is a random
  UUID: any URI, in use or not.  A POST without a resource in its body is a 500 (`Reject`;
  RM also refuses one without an identifier, and answers 400 for a missing collection);
* a representation of what was found may fail (`Present`): the providers, the page and the
  preview work on the content, which is abstracted away, and the previews turn any exception
  into a 500;
* `seen`, `overwrote`, `call[r].after`, and the `by` of a log entry are history
  variables; no guard of the code's steps depends on them except through the value the
  handler itself holds (`seen`).

### The HashMap

`MemResourceRepository` keeps plain `HashMap`s.  What overlapping calls do is not
defined by the class; the outcomes its implementation can produce are named in the
module: a lookup that overlaps an insertion or a removal can miss any key; insertions and
removals that overlap can lose entries and undo each other; two removals of one key that
overlap can both find its entry, so that both DELETEs succeed and both are logged.  To
overlap, an insertion takes two steps (`PutStarts`, `PutEnds`) if `UnsafeMaps` is TRUE, and
so does a removal, which first finds the entry (`RemoveStarts`) and then unlinks it
(`RemoveEnds`).  With `UnsafeMaps =
FALSE` each call is atomic, which a `ConcurrentHashMap` would give and which is what
happens unless two calls overlap.  RM wraps its maps into `synchronizedMap`, so each of
its calls is atomic.

### Servers

* AM asks `hasResource`, then `getResource` (404 if the first finds nothing, 500 if the
  second does not), compares the ETag, and looks the resource up again in
  `updateResource`.
* RM asks once, and puts without a further lookup; its delegate calculates no ETag, so
  an `If-Match` header is a 500.  `createRequirement` puts, submits the task
  and logs.  `Index` is the indexer thread.  A search takes all documents (the terms are optional
  beside the service provider, so every document matches) and looks each one up; the JSON answer
  dereferences one that is gone, a 500, the HTML fragment does not.  Requirements of service providers other than `sp_single` do not
  exist; they would be further URIs.
* CM asks once; its delegate turns the exception into null, which is a 404.  The dialogs
  of the types that CM does not store answer 204 or 500 and change nothing.
* QM is AM without a log, five times; `getTestExecutionRecord` lacks the `hasResource`
  of the others (`FirstStep`), so "not found" is a 500 there.  `updateX` of QM writes
  under `sp_single` whatever the service provider in the path; the lookup before it uses
  the path, and under any other provider it finds nothing, so the two cannot disagree.

### The change log and `TrackedStore`

`TrackedStore` is what a server with a TRS promises: each `Write` or `Remove` on the
store owes one entry, `Tell` moves an owed entry to the log, in any order.  `AmServer`
and `RmServer` refine it: `store` is `resources`, and the entries owed are those of the
requests that have changed the store and not yet logged (`OwedBy(Late)`; in RM the task
for the indexer comes in between).  For racing maps the abstract store may be
`Lossy`: a change may take other entries away, a removal may be undone, and a deletion may
be told of more than once, but only of what the base or the log has told of before.  What
stays is that every change answered with success owes one entry, made before it is told.  The pages that Lyo's `InmemPagedTrs` serves are not modelled; its calls are
taken to be atomic.

### Catalog

One class, equal in all four servers.  `Lookup` is `getServiceProvider` up to the call
of `initServiceProviders`, `EnterInit` to `LeaveInit` are the loop over the infos with
`register` and `registerNoSync`, `Read` is what the endpoints do with the result.
`containsServiceProvider` is read without the monitor, as in the code.
`createServiceProvider` is taken not to throw, as it does with the constants it is
given.  `deregister` has no caller, and `register` none but `initServiceProviders`, in the
repository.

### Paging

A client asks for page 0 and follows `oslc:nextPage`.  `Ask` is the begin of a query,
`Answer` its end: the page is cut out of the table as it was at the begin or is by then, or
the iterator notices a change (`Fail`, `ConcurrentModificationException`, a 500).  The order of
a `HashMap` is any order and may change with an insertion; that of RM's
`LinkedHashMap` is the order of insertion.  `Int32` is Java's `int` with `MaxInt` for
`Integer.MAX_VALUE`: `pageSize+1` overflows for the largest size, and `page*pageSize` for
pages far enough, which is a 500 both times.
The paging mode of Lyo ("imprecise": a next page if more than `pageSize` resources were
fetched) is what the servlet listeners set.

### Delegated UI

`search` and `create` are the functions of that name with their XMLHttpRequest; the handler
of every request looks at the *global* `xmlhttp`, which is the last one.
`readystatechange(s)` is one event of request `s` in the states 2, 3 and 4; that state 3
may be announced several times is modelled as once.  The selectors answer as the delegates
do: AM and RM collections filter all resources, QM fetches `SELECTOR_LIMIT + 1` resources
and *then* filters, AM's link types are not implemented and are a 500.  RM's requirement
selector uses htmx and is in `RmServer`, that of CM uses vendored code; its server side is
in `CmServer`.

The creators of RM and CM call delegates that are to be implemented and return nothing, so
they answer 204 or 500.  The script waits for a 201; what a delegate may create is the constant
`Created`, with which the handler of the script, the message and the listener can be
checked.  With `Created = {}` they never do anything.  The creation pages have no cancel
button.  `registerSelectionDUIRawResponseListener` has no caller.

`message` is the listener of the page around the dialog, for selections and creations.
`select` pastes labels into the message without escaping them.  One with a quotation mark
makes it something that is no JSON, or other JSON: `Misread` is what the listener may read
then, the empty sequence for an exception, which comes after the presentation was emptied.  The
`windowName` protocol leaves the page; the name is read by whoever opened it, which is not
in the repository.

### UI preview

Each call of `setupUiPreviewOnPopover` makes a popover for each of its links and destroys
the one the link has, but the listeners and timers of the latter stay: `made[l]` counts
them, and a popover is a link and a number.  `Move` is the pointer leaving one place and
entering another, with the mouse handlers of both; `showTimeout`, `hoverTimeout` and
`hideTimeout` are the three timers; `onload` and `onloadError` the answer to a request
for a compact representation, which may never come.  `Present` is a sample client
that replaces its links after a selection and runs the setup after each of them.  Handlers
and contents go to what `document.querySelector` finds, the first tip in the document
(`tipFound`).

Bootstrap's Popover (5.3.3, from a CDN) is external: `show()` puts a tip into the document,
`hide()` takes it out when it has faded out, `gone`.  Delays of 10, 200 and 300 ms are 1, 4
and 5 ticks, since only their order and that of their sums matter; tips fade out in 0
(reduced motion), 1 or 3 ticks.

### Populator

`Program` is what `main` does, in its order; `initList` is what `--initServers` names, and
`Following(n)` goes on from a step to the next one whose condition, `Runs`, holds.
`postResources(f)` to `addAll(f)` are the coroutine of one creation factory with its
`runBlocking`, `createResource` one attempt of a POST: created, given up (a 4xx, no
`Location`, an exception), or unavailable (a 5xx, no connection), whether stored or not.  A
thread of `Dispatchers.IO` is held while its coroutine sleeps or blocks.  `getResource` and
`updateResource` are the read-modify-write of the links, `Edit` another client.  How
long a coroutine sleeps between two attempts is left out.

## 3. The runs

All passing runs finish within a few minutes on two workers.

| Run | Instance | What it shows |
|---|---|---|
| `am_atomic` | 3 requests, 1 resource, 1 link type, atomic maps, symmetric requests | `TypeOK`, `AnswersMatchLog`, `StoredBySuccess`, `StoredIsTracked`, `KeptUntilDeleted`, `IfMatchRespectsThePast`, refinement of `TrackedStore` |
| `am_unsafe` | 3 requests, 2 resources in one map, 1 link type, racing maps | the lossy `TrackedStore` is still implemented: whatever entries the `HashMap` loses, and although two removals may find the same one, each change that is answered with success is logged once, none that failed is, and nothing untracked is stored |
| `am_order` | 3 requests, 1 resource | **violated** `LogEndsAsStored`: the last entry about a resource can be the deletion of what is stored, or the creation or modification of what is not |
| `rm` | 2 requests, 2 requirements, 1 collection, fair threads | the refinement of `TrackedStore`; `StoredIsIndexed`, `SearchFailsOverDeleted`, and with liveness `CreatedIsFound` |
| `cm` | 3 requests, 2 change requests, atomic maps, symmetric requests | `KeptUntilDeleted`, `DeletedOnce`, `IfMatchRespectsThePast`, `FailsOnlyInARace` |
| `qm` | 2 requests, all five types, one URI of a provider without resources, racing maps | `StoredBySuccess`, `FailsOnlyInARace` for racing `HashMap`s |
| `catalog` | 3 requests, 2 providers, 1 unknown identifier, fair threads | `TypeOK`, `RegisteredOnce`, `NoRacyAccess`, `AnswersComplete`; `LaterCallsReturn` |
| `catalog_first` | 2 requests | **violated** `RefreshedOnEachRequest`: two first requests enter the two monitors in opposite order and wait for ever |
| `paging` | up to 5 resources, all sizes from -4 to 3 with `MaxInt = 3`, 2 changes | `RemovalsCostOneEach` (without removals: the walk finds all), `InsertionsAreSeenLast` (RM), `WalkEnds` for every size but 0 |
| `dialog` | 3 items, stores of 2 and 3, `Limit = 1`, 3 searches, forms or messages | `ListShowsLastSearch`, `PresentedWasSelected`, `SmallStoresAreSearchedWhole`, `LastCreationIsPresented`, `AnswersAreShown` |
| `preview` | 2 links, three lengths of fading, 2 visits, four compact documents | `AtMostOneShown`, `OwnContentWhenAlone`, `NoFlicker`, `HiddenAtLast` |
| `populator` | three programs, one or two factories per server, 2 attempts, 3 threads, 1 edit | `ListsAreExact`, `LinksMatchUp`, `EditsAreKept`, `Ends` |

### Why the bounds are enough

* *Requests.*  A hazard of the handlers needs two requests that overlap, and one that
  was answered before (for an ETag or to create the resource), so three; the
  fourth adds interleavings of the same pairs.  RM has two because liveness excludes symmetry and the
  third makes it take far longer; the theorems about RM hold for any number.  QM has two
  because it has all five repositories at once, which differ only in the first step.
  The theorems about all four servers hold for any number of requests and resources.
* *Resources.*  Two in one `HashMap` for entries lost by puts of others, and one in the
  other map to see that it is not touched.
* *Catalog.*  Two providers make the loop stop half way; three requests are one of each
  kind; the theorems hold for any number.
* *Paging.*  Five resources and sizes 1 to 3 have full, partial and empty last pages;
  two changes, in any combination, between pages and while a page is cut.  With `MaxInt = 3`
  the sizes are all ints of three bits: the negative ones, 0, the largest, for which
  `pageSize + 1` overflows, and 2, for which `page * pageSize` does on the third page, which a
  store with five resources has.  `McSpec` starts from one order of the resources, which
  are alike.
* *Dialog.*  Three acts let a second search overlap the first and a selection or a
  foreign message follow, or three searches or forms overlap.  `Limit = 1` makes one
  store smaller and one larger than what a selector fetches.  One resource has a quotation
  mark in its label; a message about it is no JSON, or says that another was selected.
* *Preview.*  Two links, since every hazard is between two popovers, one of which is
  another's or was made for the same link by an earlier setup.  Two visits to a link let
  timers of two popovers run at once, or twice those of one; the run passes with three,
  too.  The fadings are none (reduced motion), the longest one that does no harm (`HideDelay +
  fadeTime < ShowDelay + AttachDelay`), and one that is longer, in which handlers reach
  the wrong tip.  The default of 150 ms is of the last kind, as 200 + 150 is not less than
  300 + 10; for it `Undisturbed` restricts the properties to the behaviours in which no
  handlers went to another tip.  In the others a popover may stay for ever (section 4).
* *Populator.*  Three programs have both kinds of links and a server without any; two
  factories in the linked servers let coroutines race; two attempts make one retry (the
  code has five); one edit can fall before, in or after the read-modify-write.  Three
  threads are the fewest that `PopulatorAssumption` admits for two factories (the
  dispatcher has 64).

`CHECK_DEADLOCK FALSE` is set for `catalog`, `catalog_first`, `paging`, `dialog`, `preview`
and `populator`: a client stops when it has all its pages, a user need not go on, `main` ends, and
the deadlock of the first requests for the catalog is reported by `catalog_first`.  The
handlers of the servers stop only when all requests are answered (`Finished`), which TLC
checks.

### Fairness

* `RmServer`: weak fairness for each step of a request that has come in (the servlet
  container runs its threads) and for the indexer (an executor with one thread runs its
  tasks).  Clients need not call.
* `ServiceProviderCatalog`: weak fairness for each step of each thread.  Monitors of
  Java are not fair, but a request enters each of them a bounded number of times, so
  with finitely many requests weak fairness is enough.
* `QueryPaging`: the client asks for the next page and the server answers; nobody has
  to change anything.
* `DelegatedUi`: servers answer searches that are not lost, the browser delivers
  events and messages; the user need not do anything.
* `UiPreview`: timers run and tips fade out.  Requests need not be answered, the pointer
  need not move.
* `Populator`: the threads of the client run, and every request is answered or fails in the
  end.  The latter is up to the servers, as the timeouts of the client are commented out
  (`Main.kt:72`); their handlers have no loops and wait for nothing but the monitors of the
  catalog.  Other clients need not edit.

## 4. Findings

* *Log order* (`am_order`).  The store is changed first, the log written later, without
  a lock around both.  A DELETE can overtake the log entry of a PUT, and a PUT that looked
  the resource up before a DELETE stores it again afterwards; then a TRS client
  that applies the log in order ends with the wrong state.  In the shortest trace a DELETE
  removes the resource, a POST creates it again and logs its Creation, and only then the
  DELETE logs its Deletion: the resource is stored, and the log ends with a deletion (the
  third request is a GET that plays no part).  `TrsTest.java:81`, a sequential test,
  expects the events in the order of the changes.
* *Catalog deadlock* (`catalog_first`).  `getServiceProvider` enters the monitor of the map and
  then, the first time, that of the class; `initServiceProviders` enters them the
  other way round.  Two first requests can wait for each other for ever, although
  `ServiceProviderCatalogSingleton.java:65` says that providers are "refreshed on each
  catalog or service provider collection request".

Behaviour that was met while modelling and has no run of its own, because no document of
the repository says otherwise or another run has the same cause:

* a racing `HashMap` may lose a stored resource, so `KeptUntilDeleted` is claimed for
  atomic maps only;
* a PUT that overlaps a DELETE brings the resource back (`TrackedStore.Write` allows it);
* RM answers a search before anything was indexed with 204 instead of an empty list
  (`RequirementsService.java:312`); a search that finds a document of a deleted requirement is a
  500 (`SearchFailsOverDeleted` says that nothing else makes it one);
* QM's `getServiceProviderInfos` exchanges name and identifier of its provider, against the
  `sp_single` of the project's README (line 206);
* with `oslc.pageSize=0` the store returns one resource, which is more than 0: an empty page
  with a next link, and so are all that follow.  A client that follows them never ends;
  `WalkEnds` is about the other sizes (without its condition TLC finds it violated);
* a label with a quotation mark is pasted into the message as it is, so that the message is
  no JSON, and the listener throws after it has emptied the presentation, or it is other
  JSON, and something else is presented than was selected.  `PresentedWasSelected` is
  stated for selections without such labels;
* at Bootstrap's default fade, and longer ones, handlers of a popover can be attached to the
  tip of another that still fades out (`misplaced`).  If the pointer goes back to that tip, the
  hide timer of the popover is cleared, the tip goes without an event, and the popover
  stays for ever.  `AtMostOneShown`, `OwnContentWhenAlone` and `HiddenAtLast` leave such
  behaviours out, and say that there are none if tips fade in less than 110 ms;
* a late answer of one link is put into the
  popover of another (`OwnContentWhenAlone` says when it is not);
* a compact document without a large or small preview, a title or hints throws in the
  script, and the error text for a failed request is never shown: the popover says "Loading
  preview..." until it is hidden;
* re-entering a link while its popover is about to be hidden does not keep it
  (`ui-preview-helper.js:99`);
* with no more threads than creation factories of a kind in a server the populator would block all of them in
  `runBlocking`: with `Threads = 2` TLC finds `Ends` violated, hence `PopulatorAssumption`;
* the populator prints "Created a link" whatever the answer to its PUT was (`refused`), a
  POST that is repeated may leave several copies (`copies`), and the assertion that two lists are
  equally long is not evaluated by default and is false when a POST fails;
* searches that overlap list the last answer several times (`Copies` in
  `ListShowsLastSearch`);
* `findResources` limits before it filters: matches beyond the first 31 resources of a
  QM store are not found (`SmallStoresAreSearchedWhole` says what is);
* an insertion between two pages of a `HashMap` may repeat or leave out resources, as
  the table may be iterated in another order then.

## 5. The proofs

Proved by TLAPS, for all values of the constants that satisfy the named assumptions
(`RestAssumption`, `AmAssumption`, `RmAssumption`, `UntrackedAssumption`, `CmAssumption`,
`QmAssumption`, `CatalogAssumption`, `DialogAssumption`, `PreviewAssumption`,
`PopulatorAssumption`, `PagingAssumption`): any number of requests and resources, providers,
links, factories, threads and attempts, pages of any size and ints of any width.  Only
`NothingDeletedTwice` assumes something beyond them, that there are finitely many
requests; the theorems that hold for atomic maps only assume `~UnsafeMaps`.

### `AmServer_proofs`

* `TypeInv == TypeOK /\ OnItsWay` is inductive: the types, and which method a request
  has at which step.  Theorem `TypeCorrect`.
* `StoreInv == TypeInv /\ Conditional /\ AnswersMatchLog /\ StoredBySuccess /\
  ChangesTracked /\ StoredIsTracked` is inductive.  `Conditional` says that a request
  past its comparison of ETags holds a resource with the tag it asked for;
  `ChangesTracked` that a PUT about to store, or a removal about to unlink an entry, has
  found its resource, so the resource is tracked although it may be gone by then.  Without the latter a
  PUT after a DELETE could store something a TRS client has never heard of.  Theorems
  `LogIsExact`, `ErrorsStoreNothing`, `NothingStoredUntracked`, all of them for racing
  maps, too.
* `NothingLost` (`KeptUntilDeleted`) and `IfMatchProtects` (`IfMatchRespectsThePast`)
  for atomic maps.  The latter needs `PastInv`: what a conditional PUT found, and what is stored when
  it stores, is either the version named or comes from a request that was not answered
  when the PUT came in; that contents are never stored twice makes "older" stable.
* `Implements`: AM implements `TrackedStore`.  Every step is a `Write`, a `Remove`, a
  `Tell` or a stutter (`StepImplements`); `NotYetTold` shows that a request owes its
  entry only once.  For racing maps a removal is the end of one that found its resource, so
  the invariant says that this is tracked (as for a PUT about to store).

### `ServiceProviderCatalog_proofs`

`IInv == TypeOK /\ LockInv /\ LoopInv /\ RegisteredOnce /\ AnswersComplete` is
inductive.  `LockInv` says which steps are inside which monitor, `LoopInv` that all
providers before the position of the loop are registered and that the one about to be
registered is not, for the one request inside `initServiceProviders`.  It follows that
the reads outside the monitor of the map do no harm, since nobody can register while they run
(`RaceFree`), that registration never throws (`NeverAlreadyRegistered`), and
`TypeCorrect`, `RegistersOnce`, `CompleteAnswers`.

### `RmServer_proofs`

* `TypeInv` as for AM, with the index tasks.
* `IndexInv`: a requirement is `Known` if it has a document, a task in the queue, or a
  request about to submit one.  What is stored is known, what a PUT may bring back is known
  (without that a PUT after a DELETE could store what the index has never heard
  of), and what is known is stored unless a deletion was told of; so are the hits a
  search still has to look up.  Theorems `NothingForgotten` (`StoredIsIndexed`) and
  `OnlyDeletionsBreakSearches` (`SearchFailsOverDeleted`).
* `TrackInv` relates the requests that owe an entry to the log; theorem `Implements`, with a
  `TrackedStore` that is not lossy.

### `UntrackedHandlers_proofs`, `CmServer_proofs`, `QmServer_proofs`

`UntrackedHandlers_proofs` holds lemmas for both servers.  Their endpoints are many but each of
them is `Comes` with other parameters, and each later step is `Works`: it looks only, puts, or
removes.  So every lemma about steps is stated once, and the two servers only show that
their endpoints are of this form.  The invariants are `TypeInv`; `RaceInv`, what must have happened
when a handler finds less than it found before; `StoreInv`, `Conditional` with
`StoredBySuccess`; `PastInv` as for AM; and for the deletions an invariant that counts them with
`Cardinality`.

* CM: `OnlyRacesFail` (`FailsOnlyInARace`) for atomic and racing maps: the failures that no
  input explains (`FailsOddly`: a read that found nothing and is a 500, a DELETE that is a
  500, a PUT of a resource that is a 500, or a 400 though it has the right URI) have a
  DELETE of the resource, or in a racing map another change, that overlaps them; `CreatedIsKept`
  (`KeptUntilDeleted`), `NothingDeletedTwice` (`DeletedOnce`) and `IfMatchProtects`
  (`IfMatchRespectsThePast`) for atomic maps.
* QM: `OnlySuccessIsStored` (`StoredBySuccess`) and `OnlyRacesFail`, for racing maps too.

### `Clients_proofs`: populator

* `EditInv == CopiesOnly /\ ReadingsAreFresh /\ EditsAreKept` is inductive: only copies are
  edited, and what has been read of the resource that is being linked has all its edits but
  those made since the reading.  Theorem `OnlyOvertakenEditsAreLost`.
* `ListInv`: coroutines exist only in the `populate()` that runs, and a factory has returned
  only if all of its resources are done (`PostsOfStep`).  While a kind is populated its list
  has the confirmed copies of the factories that returned, and a resource has only the copy
  that its response names confirmed (`GrowingList`); in all other steps the list is the
  confirmed copies, one per resource (`ExactList`), and kinds of later steps have none.
  The invariant needs the order of `Program` (`ProgramOrder`): each kind is populated once,
  before it is linked.  Theorem `ListsAreRight` (`ListsAreExact`).
* `ClaimInv`: a link joins members of the two lists of a linking step that has begun; what is
  read is a pair none of whose ends was linked in this step; no resource is linked twice, so
  that no update takes a link away again.  When no pair is left one of the two
  lists is used up, and the projections of the links to the lists are injections
  (`Counted`), hence the number of links is that of the shorter list.  Theorem
  `LinksAreComplete` (`LinksMatchUp`); `CopiesAreFinite` is where the finiteness of the
  factories is needed.

### `Clients_proofs`: query pages

* `PageInv`: the page a client asks for begins where what it has ends (`Aligned`), or the
  product has wrapped and the next query fails.  Hence all that follows is about a client
  that gets adjacent pages, for an int of any width.
* `InsertionInv` for a `LinkedHashMap`: what was got begins the snapshot that the server
  iterates, which begins the table.  Theorem `SeesInsertionsLast` (`InsertionsAreSeenLast`).
* `RemovalInv`: what is in the part of the table that the client is past and was not got
  (`Missed`) is no more than there were removals (`Behind`).  For a snapshot it is no more than
  the removals before the snapshot, and the table is the snapshot shrunk by the removals
  since then, no entry moved back and none by more than that (`Shrunk`); without it a page
  read from a snapshot could not be compared with the table.  Theorem `RemovalsCostLittle`
  (`RemovalsCostOneEach`).

### `WebPages_proofs`: dialogs

* `RequestInv`: a request has events only when it is answered, and only a success has
  results: of a search the first `Limit + 1` matches, or those of the selector without limit.
  What the loop of a selector finds (`Matching`) is shown by an induction over the length of the table,
  by means of a set of numbers that has 0 and with each the next (`Induction`).  Theorem
  `SearchesAreWhole` (`SmallStoresAreSearchedWhole`).
* `MessageInv`: what is on its way from the dialog is a selection, and read as it is if
  every selection is `Plain`.  Theorem `PresentsSelections` (`PresentedWasSelected`), whatever
  `Misread` is.
* `LastIsOnItsWay`: a message about the last creation is on its way with none of the dialog
  behind it, or has come as the last.  Theorem `PresentsLastCreation`
  (`LastCreationIsPresented`).
* `ListInv`: requests before the last one that are still under way exist only if searches
  overlapped (`OthersAreOver`), and each event since the list was emptied has added one copy
  of the last results (`ListIsCopies`, counted by the `Cardinality` of `Events`).  Theorem
  `ShowsLastSearch` (`ListShowsLastSearch`).

### `WebPages_proofs`: previews

* `PreviewInv`: besides the types, no timer has longer to run than when it was started, every
  timer that will show a popover is for the link under the pointer, and was started by
  handlers that hear it leave (`ShowIsWanted`).  Theorem `ShownUnderPointer` is the action
  property `NoFlicker`.
* `Orderly` holds as long as no handlers went to another tip (`misplaced`).  What is shown is
  under the pointer, or its handlers will hear the pointer leave, or it will be hidden
  (`ShownAreLeft`); so when the pointer has come to another link it will be hidden, and
  before the other is shown (`HiddenBefore`), since `HideDelay < ShowDelay`.  For this the tips
  need their own handlers (`OwnHandlers`), handlers come before the popover is hidden
  (`AttachedFirst`), what is not shown fades out, once (`HiddenFade`, `FadingAreHidden`), and
  a link has only one popover that was not disposed of (`LastIsOnlyOne`).
* `InOrder` adds that if hiding and fading take less time than showing and attaching (`Soon`),
  no handlers go to another tip: every other tip is gone before the handlers of the popover
  about to be shown are attached (`GoneBefore`), and before those of the one shown
  (`AttachedAlone`).  Theorem `ShowsOneAtMost` (`AtMostOneShown`); at the default fade it holds
  only as long as no handlers were misplaced.
* `OwnAnswers`: while a popover that came up alone is shown, no request for another link is
  under way: a new one would mean another popover shown.  Theorem `ShowsOwnPreview`
  (`OwnContentWhenAlone`).

### Only model-checked

Liveness (`CreatedIsFound`, `LaterCallsReturn`, `WalkEnds`,
`AnswersAreShown`, `HiddenAtLast`, `Ends`) and what needs ENABLED are out of the reach of TLAPS.
Every invariant that a run checks has a theorem.

## 6. Not modelled

* Authentication: the states of OAuth tokens, their order and the cache that bounds them belong to the
  OAuth library (`OAuthRequest`, `SimpleTokenStrategy`), whose source is not in the
  repository; `CredentialsFilter` calls it, and its login compares with two fixed users.
  Only RM asks for credentials.
* Of the populator, the contents that its generators make up, and a `Location` with
  several values; a missing response is treated as the code does, like a 5xx.
* Configuration and start-up run once and sequentially before the first request.
* Resource shapes, root services, resource factories, CORS and CSP filters: stateless.
* The adaptor clients have no caller.
* JSP views and Swagger UI are presentation: what a view shows has been decided before.
  oslc-ui is vendored.
* The Designer model, container and Kubernetes files, and the black-box tests hold no
  code of the running system; tests and comments are quoted in the findings.
* The pages of the tracked resource sets are served by Lyo.
* Failure of the indexer: a task that throws an `IOException` is logged and its document lost;
  the directory is in memory, so there is none.

## 7. Plan

Done in this order, the most important behaviour first: store and AM handlers with the
abstract `TrackedStore` and its proofs; RM with index; CM and QM; the catalog with its
proofs; paging; dialogs; UI preview and populator with the first proofs about each; the proofs
about RM, CM and QM; those about dialogs, previews, paging and the lists and links of the
populator.

Left:

1. The lemmas about log and answers that `AmServer_proofs` and `RmServer_proofs` have each for
   themselves, in one module about `TrackedHandlers`.
2. An abstract specification of an atomic resource (a register with conditional writes)
   that AM and CM implement when maps are atomic, apart from a PUT that overlaps a DELETE.
3. Authentication, if the source of the OAuth library is at hand.
