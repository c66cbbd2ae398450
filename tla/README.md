# Wristband in TLA+

Specifications, model-checking runs and proofs for `wristband`, a command-line
tool and web UI that writes, locks and configures NFC Type 2 tags (MIFARE
Ultralight, NTAG213/215/216) through a PC/SC reader. Paths below are relative
to the package, `src/src/wristband/`.

Run a check with `tlc -config <X>.cfg <module>` and a proof with
`tlapm <module>.tla` in this directory.

## The system

| Part | State it keeps | Operations | Talks to |
|---|---|---|---|
| `tags.py` | none (tables) | `parse_cc`, `identify`, `blank_cc`, lock pages | everyone |
| `apdu.py`, `reader.py` | a card connection, `write_mode` | `read_pages`, `write_page`, `read_cc`, `identify_tag`, waiting for tags | pyscard, the tag |
| `writer.py` | none but the tag's | `write_ndef`, `hard_locked`, `soft_lock`, `soft_unlock` | reader |
| `ntag.py` | the tag's configuration pages | decode, encode, `protection_locks_out` | `cli.py`, `server.py` |
| `ndef.py` | none | TLVs, records, `ndef_tlv_offset` | writer |
| `audit.py` | a JSON Lines file | `record`, `read` | `cli.py`, `server.py` |
| `cli.py` | the `seen` set of a batch | one command per process | all of them |
| `web/server.py` | snapshot, version, `io_lock`, watch state | watcher thread, poll loop, a thread per request and per event stream | reader, writer, browsers |
| `web/static/app.js` | the snapshot last received | buttons, forms | server |

What is hard here is not the code's size but what it cannot see. A write is
several APDUs, and each can fail, be acknowledged without landing or land
without being acknowledged. The capability container (CC) is both the bound
that every write trusts and a page that the tool itself writes, and on a
genuine chip it can only gain bits. Lock bits are set in three steps and never
cleared. A reader may write four pages when asked for one. The web server has
four kinds of threads around one card connection and one snapshot.

What makes each part correct:

- page write: only the page asked for changes, and the remembered form of the
  write is the reader's;
- `write_ndef`: the report is true; refusals cost nothing; the TLVs ahead of
  the message, the lock and configuration pages behind it and a soft-locked
  tag are left alone;
- commands: what `lock` promised stays true, the CC is marked before it is
  frozen, reports that rest on a read-back are true, the configuration is out
  of reach;
- monitor: one connection at a time, no snapshot older than the one before it,
  every request ends, every browser ends with the snapshot;
- configuration: no tag is locked out unasked;
- batches: each tag is written once, counts and records are true, a batch ends;
- audit log: a torn append costs as little as it can, and what the log says of
  the lock is true of the tag;
- codec: the message has one place among the TLVs, and what was put there is
  found again.

`PROJECT.json` lists the components and the hazards, each at its line.

## Modules

| Module | Models | Runs |
|---|---|---|
| `Type2Tag` | `tags.py`: CC, capacities, OTP, `last_user_page` | (used by the next three) |
| `PageWrite` | `write_page`, APDU by APDU | `PageWrite.cfg` |
| `WriteNdef` | `write_ndef` over `PageWrite` | `WriteNdef.cfg` |
| `NdefStore` | what `write_ndef` promises (abstract) | `WriteNdef.cfg` |
| `Lifecycle` | sequences of commands on one tag | `Lifecycle.cfg`, `LifecycleRetry.cfg` |
| `DataArea` | the bytes of the data area: `ndef.py`'s TLVs, and write, format and erase page by page | `DataArea.cfg`, `DataAreaErase.cfg` |
| `AuditLog` | `record` and `read` over a file that appends can tear | (used by the next) |
| `BatchWrite` | `_write_to_tags`, with people, errors and the audit log | `BatchWrite.cfg`, `AuditTorn.cfg` |
| `TagMonitor` | the web server's threads | `TagMonitor.cfg`, `TagMonitorSwap.cfg` |
| `ConfigGuard` | the mirror, counter and password commands of the CLI and the web | `ConfigGuard.cfg`, `ConfigLockout.cfg` |
| `Type2Tag_proofs`, `PageWrite_proofs`, `WriteNdef_proofs`, `Lifecycle_proofs`, `ConfigGuard_proofs`, `BatchWrite_proofs`, `TagMonitor_proofs`, `DataArea_proofs` | lemmas and theorems | |

`MC*` modules give the constants their values. An operator whose comment begins
with "Mutant:" is a plausible bug in the definition that follows it; no
specification uses it. It is there to be put in that definition's place, which
breaks the property `PROJECT.json` names under "mutants".

**PageWrite.** `mem` is the tag; `mode` is `NfcReader.write_mode`; `pc`, `page`,
`data`, `ctx` are the call in progress. One action is one APDU with its
outcome. `Begin` is the call, `PlainOk`, `PlainFails` and `PlainRefused` the three ends of
the plain form, `ReadContext` and `LoseContext` the read for the padding, `PaddedOk` and `PaddedFails`
the padded form, `Raise` an exception of pyscard anywhere, which `write_page`
does not catch, and `Reopen` a new `NfcReader`. A
reader is a record: does it take the plain form, the padded form, and does it
store all 16 bytes of it. In every case any prefix of the pages sent may land,
whatever the status. Two bytes of page contents matter: what a page held and
zeros, since zeros are what a lost context writes.

**WriteNdef** extends it: each page write of `write_ndef` is a run of
PageWrite's actions. `step` is the place in `write_ndef`, `info` the `TagInfo`,
`i` the pages begun. A page holds `Old`, `New` (what the buffer has for it) or
`Zero`. Offsets and lengths keep their arithmetic in bytes.
`ndef_tlv_offset` is what it finds on an undisturbed tag; if a padded write of
the CC has spilled zeros into the TLVs it is any offset, for the walk over
zeros may end anywhere. `chip.locked` are the pages whose lock bits are set:
static ones up to `LastStatic`, dynamic ones behind it. `hard_locked` reads the
lock page of the product that the CC names. Where that is the chip's own
(`ChipSize`) it reads the dynamic bits; where it is another one it reads a page
of data, which can look locked or not, so that `HardLocked` and `NotHardLocked`
(what it can answer) both hold then. `NdefStore` is the abstract machine behind it: the
content goes from old to new, may be torn on the way, `Confirm` only when it
is new, `Refuse` only when it is old, and some report always comes. On a reader
that `spills`, one that stores all 16 bytes, a refusal may have cost something
(the forced write of the CC did it): that is all the promise loses there.

**Lifecycle** goes the other way: many commands, less detail. A page write is
one step with an outcome (acknowledged or not, landed or not); the fill of the
data area is one step. Of the tag there are the CC, the two sets of lock bits
and whether the configuration pages have been run over. `lossy` readers may
acknowledge what never landed. The sizes are the real ones. Readers that store
16 bytes are left to PageWrite. The CC that
`identify_tag` reads may be unreadable for once, which makes the tag look
unformatted. `read_pages` past the end of memory is refused, as the chips do,
which keeps most wrong capacities harmless: a write first reads the area it
believes in. What remains is up to 32 bytes too much on an NTAG213: `format
--capacity 176` and then `erase` run zeros over its configuration pages, which
is what `ConfigSafeBehindHonestCc` allows behind a CC that is not honest.
`Area` is what a command reads and walks over: `format` takes its capacity in
whole pages, `capacity // 4`, while the CC gets `capacity // 8`, so that
`format --capacity 150` leaves an honest CC of 144 bytes and walks one page
further. Where the walk ends the empty message goes; it may stick out of the
area, and of the user memory even behind an honest CC. `Fill` lets it set
dynamic lock bits and, when `Area` is the larger one, reach the first
configuration page; `DataArea` shows when it does the former. `DecideLock` may also
refuse for want of `--yes`. `log` is what the audit log says of the lock: `Log` is part of every
step, and adds the record that a command makes as it ends (`RecordOf`). A hard
lock makes none, although `docs/WEBUI.md:74` says every lock is appended; nor do
`format`, `erase` and a command that ends in an error.

**DataArea** is one byte level down: `area` is the user memory, `behind` says
whether bits of the page behind it were set, `stored` the message that a write
which got through has left. `TlvOffset` and `Unwrap` are the two walks of
`ndef.py` as recursive functions, `Field` the length field both read, `Wrap` the
writer's side, with the length at which the long form begins (255) a constant,
so that small messages take it. A write, a format or an erase is one step that
gets as far as some page (`Land`). `Format` is the empty message of a `format`
whose capacity is that of the area; the CC that it writes first, and another
capacity, are in `Lifecycle`. `Tiled` and `Places` read the area
independently of the code, by what can be tiled with whole TLVs, as a set and
not as a walk. On an area of nothing but NULLs and skippable TLVs there is no
place, the code says 0, and the TLVs are overwritten; `ndef_tlv_offset` calls
that "the right place to start writing anyway".

**AuditLog** keeps the file as lines of pieces of records: an append lands
whole, whole but for its line end, cut between characters or inside one, or not
at all, and the next goes on behind it. `tried` is the history of the appends,
against which `DamageIsLocal` compares what `read` returns. The loop of `read`
keeps the lines that parse in the order of the file: their numbers `InOrder`.

**BatchWrite** is `_write_to_tags`, one action for each call it makes: `Connect`
(`wait_for_tag`), `Identify`, `Write` (`write_ndef`, with the outcomes that
`NdefStore` allows), `RecordWrite`, `CountWrite`, `Removed`
(`wait_for_removal`), `Raise` (a deadline, or an exception) and `Interrupt`
(Ctrl-C, anywhere). `Move` is people laying down, lifting or exchanging tags,
between any two of them; `live` says that the tag connected to has not been
lifted since, and a dead connection answers nothing or raises. `Other` is
another process that appends to the same log.

**TagMonitor.** One `pc` per thread; `io` is the owner of `io_lock`; the
condition variable's lock is held for single assignments, so `_publish`,
`snapshot` and `wait_for_change` are single steps. `link` is a thread's card
connection and knows since when it holds, so a tag that was moved in between
makes the read fail. What a tag holds is the number of its writes. The watcher
goes from `"resolve"` to `"status"` and through `_read_once` (`"list"`,
`"connect"`, `"read"`, `"publish"`), in the watch and in the poll loop alike;
the difference is that the poll loop publishes after it has released the lock.
A read that is refused in passing while the tag stays in place, and leaves a
snapshot of an unreadable or unformatted tag until the next event, is left out.

**ConfigGuard.** `conf` is what the configuration pages hold, `inForce` the
AUTH0 and PROT the chip acts on, which follow at once or from the next power-up:
both are tried, for the chips differ and the code does not ask. `want` is the `cfg` of
`_apply_config` and `_configure`, with AUTH0 and the mirror's byte still whole
numbers; `WithMirrorPage` and `WithAccessPage` are `build_config_pages` and cut
them. A command reads the pages (`ReadConfig`), and a `set` then passes the
first guard and writes PWD and PACK; every command passes the last guard, writes two
pages and reads them back. The command line asks the reader at each guard
(`Answers`, a probe may fail), the server believes `canAuth`, which `Probe`
fills the first time a tag is seen and only `RestartServer` clears. Between
commands the reader may be another one. Nothing in the repository sends
PWD_AUTH, so a protected page refuses every write. `status` only reads and is
left out. Numbers of a web request are whole numbers of any sign (`Calls`).

A page write is one step with an outcome (`Outcomes`): whether it returned, in
which form it was sent, as the `write_mode` of this connection allows, how many
of the pages sent got to the tag, and whether the pages behind could be read
before. On a reader that `stores` all 16 bytes of the padded form the pages
behind are rewritten too (`Takes`): the access page with what it held, or with
zeros when it could not be read, and PWD and PACK with zeros in any case
(`Padded`), for that is what they read as. `pwd` and `pack` are therefore those
from `"before"` the command, the ones `"asked"` for, or `"zeros"`.

## Runs

Passing runs:

| Run | Instance | What it shows |
|---|---|---|
| `page_write` | six pages, one locked, one OTP, one write-only, all eight readers | `ModeIsHonest`; `NeighbourDamage`: the exact damage a call may do |
| `write_ndef` | four user pages with lock, configuration and password pages behind; CCs of the chip's product, of another one and of an unknown one; TLV at byte 0 or 5; payloads from one page to more than fit; all readers | `VerifiedMeansStored`, `UnforcedIsCareful`, `WritesStayInside`, `SoftLockHolds`; `StoreSpec`: the refinement, with its liveness |
| `lifecycle` | Ultralight, NTAG213 and NTAG215, real sizes, OTP or clone, honest or lossy reader, capacities to format with of which one is no multiple of 8; every sequence of commands | `PromiseKept`, `CcBeforeLockBits`, `ReportsAreTrue`, `HistoryTells`, `ConfigSafeBehindHonestCc`, `NoWriteIntoPartialLock` |
| `data_area` | 8 bytes, 1620 areas to start from, messages that look like TLVs, in the short and the long form | `OffsetIsThePlace`, `StoredIsRead`, `AheadIsKept`, `PlaceIsSettled`, `BehindOnlyFromTheBrink` |
| `batch_write` | two tags, a batch of two and an endless one, two moves, one refused command, two bad appends, one record of another process | `WrittenOnce`, `CountIsTrue`, `RecordsTell`, `DamageIsLocal`, `BatchEnds` |
| `tag_monitor` | two tags, one request, one browser, three moves | `ExclusiveConnection`, `NeverGoesBack`, `SentIsCurrent`, `EveryRequestEnds`, `BrowsersCatchUp`, `PollSettles` |
| `config_guard` | an NTAG213; plain, AUTHLIM set, frozen; 29 commands, proper and improper, from both sides; a reader that is honest or lossy, stores the padding or not, and authenticates or not, exchanged at will | `LockedOutKnowingly`, `PasswordInPlace`, `OnlyWhatWasAsked`, `MirrorInside`, `ReportedIsStored`, `RefusedChangesNothing` |

Some properties say how far the code goes and no further; what they leave out
is not shown by any run:

- `LockedOutKnowingly`: the server's "yes" may be that of a reader since
  exchanged, although `web/server.py:81-82` says the probe is made once per
  reader; and a web AUTH0 of 256 passes the guard as no protection and is stored
  as 0, which the command line's range check keeps out.
- `PasswordInPlace` and `OnlyWhatWasAsked`: a reader that stores the padding can
  put zeros in place of the password, PACK and the access page. That the secrets
  are never those from before, that AUTH0, the mirror and CFGLCK stay, and that
  the access page is either as it was or blank, is what is left.
- `MirrorInside`: a web request with a byte below 0.
- `ReportedIsStored`, `PasswordInPlace`, `PromiseKept` and `CcBeforeLockBits`
  exclude lossy readers: `_apply_config`, `_configure` and `cmd_lock` compare
  nothing with what they read back, if they do.
- `RefusedChangesNothing`: a reader that answers the first probe of `password
  set` with yes and the second with no.
- `SoftLockHolds` and `NoWriteIntoPartialLock`: the dynamic lock bits of a tag
  whose CC names another product.
- `WritesStayInside`: what a CC that claims too much lets a write reach, and the
  CC of a forced write. `ConfigSafeBehindHonestCc` says which commands can make
  a CC claim too much.
- `HistoryTells`: a CC changed by a command that makes no record, or that ended
  in an error; the history is `stale` from there on.

Runs that find a disagreement between the code and what the repository says of
it (see "findings" in `PROJECT.json`):

- `lifecycle_retry`: `cli.py:277-278` says `lock` sets the hardware lock bits.
  After a soft lock, or a hard lock that failed behind the CC, it says the tag
  is already read-only and sets none.
- `data_area_erase`: `README.md:163-165` says writes are bounded by the capability
  container and cannot run into the lock pages. `_write_empty_ndef` compares
  nothing: with a terminator as the last byte of an otherwise blank area, `erase`
  writes `03 00 FE` across the end and sets dynamic lock bits.
- `audit_torn`: `audit.py:8-9` says a truncated last line is the only damage
  possible, and `tests/test_audit.py` that the rest must still be readable. The
  record after a torn one shares its line and is lost too, and one torn inside a
  character makes the whole file unreadable.
- `config_lockout`: `ntag.py:70` says protection is active when AUTH0 "points at
  a page that actually exists". The code stops at user memory, so an AUTH0 on
  the configuration pages is not refused and can never be taken back.
  `tests/test_ntag.py:172-177` takes the bound for intended and asserts that
  an AUTH0 of 40 is let pass, as one that protects nothing.
- `tag_monitor_swap`: `web/server.py:7-8` says the page reacts the moment a tag
  lands. A tag exchanged while the one before it is read is passed over.

More were met and have no run of their own:

- `apdu.py:26-28` says that a reader which stores all 16 bytes rewrites the
  neighbours with what they hold. `NeighbourDamage` states what it does: it
  zeroes them when the read before was refused, and PWD and PACK always. On such
  a reader `password set` ends with a password and PACK of zeros, spilled by the
  write of the first configuration page, while the caller is told to write down
  the ones asked for.
- The bound of every write is the CC, into which `format` writes any capacity
  (see Lifecycle above). With `--capacity 148` or `150` an NTAG213 keeps an
  honest CC, but the walk covers the dynamic lock page too, and an empty
  message that begins in its last byte goes on in page 41.
- `mirror_fits` takes a negative byte of a web request: page 60 with byte -100
  passes on an NTAG213 and is stored as page 60, byte 0, behind the chip's memory.

### Bounds

- Page memory is small because `write_page` touches at most four pages in a
  row and every page is treated alike; six pages hold a call with neighbours on
  both sides, and a write at the end of memory.
- Four user pages hold a message with an offset inside a page and one that
  fills the tag. The chip's own size byte is 2 and that of `blank_cc` 1, a
  product with a known lock layout too; OR-ed they give 3, a capacity two pages
  beyond the chip's, which is the overrun of real size bytes scaled down. Size 5
  is a product without a known layout.
- `MaxEvents` (TagMonitor) bounds how often tag or reader move: three moves are
  a swap (lift, lay) and one more move before, between or after. The tag's
  write count is bounded by the number of requests.
- `Lifecycle` needs no bound: its state is finite. `format` is given 144 bytes,
  150 (the same CC, one page more to walk), 176 (what an NTAG213's memory comes to)
  or 504. `ConfigGuard` needs none either; its commands are a chosen set: AUTH0 4 (user memory), 41 (the configuration
  itself), -1, 255 and 256; mirrors on page 3, at the last place that fits, one byte
  beyond it, at a byte that is cut, and at one below 0. An NTAG216 differs from an NTAG215
  only by its numbers.
- `Size` (DataArea) is two pages, which is enough for a message that begins
  inside a page, one that crosses into the next and one that sticks out; the
  areas hold every tag byte the walkers tell apart, each of which is a length
  too, and long forms whole and cut off. `LongFrom` is 3 instead of 255.
- `MaxMoves` (BatchWrite): two moves exchange a tag and bring it back. One
  refused command (`MaxGlitches`) is a UID that cannot be read, or a removal seen
  that was none. `MaxTears` two, so that two bad appends can be next to each other
  or apart; `MaxOthers` one. The world stands still once the batch has ended.

Deadlock is not checked where the system stops by design: `write_ndef` returns,
and the web server waits when nothing moves.

### Fairness

`write_ndef` runs in one thread whose every call on the reader answers or
raises: `WF_vars(Next)`. In the monitor each thread goes on when it can (weak
fairness of its steps). Taking `io_lock` needs strong fairness: the poll loop takes
and releases it for ever, but sleeps `POLL_INTERVAL` in between, so a waiting
request gets it. People need not move anything, browsers are served as long as
they stay, and nobody has to send a request. A batch is one process, and each of
its two waits has a deadline (`reader.py:114`, `144`): weak fairness of its steps,
of which the deadlines are some. Nobody has to move a tag or press Ctrl-C.

## Proofs

Every safety invariant and every action property that a passing run checks is
proved for all values of the constants that satisfy the named assumptions:

- `CapacityAssumption`: capacities are multiples of 8; `LockLayoutAssumption`;
  `PageAssumption`; `NdefAssumption`: three page contents, honest CCs at the start, and a chip whose own
  product has a known lock layout and the chip's user memory;
- `ConfigAssumption`: user memory ends before the configuration pages, which are
  addressed by a byte; `LifecycleAssumption`: every chip has user memory and, when
  it goes past page 15, a dynamic lock page, and an eighth of the capacity that
  format is given is a byte;
- `BatchAssumption` and `LogAssumption`: a tag has one UID, and the records are
  those of the tags; `MonitorAssumption`: the threads are the watcher and one for
  each of finitely many requests, and no thread is "nobody";
- `AreaAssumption`: a capacity that a CC can tell (up to 255 units of 8 bytes) in
  whole pages, and messages and tag bytes that are sequences of bytes.

What each proof rests on:

- `PageTypeCorrect`, `ModeCorrect`, `NeighbourDamageCorrect`: the inductive
  invariant `PageInv` adds to the types what has to be known about the call in
  progress: the context, when it was read, is what the three pages behind
  still hold, unless they are write-only. This is what makes a rewrite
  harmless, and no property says it by itself.
- `NdefTypeCorrect`, `VerifiedCorrect`, `SoftLockCorrect`, `UnforcedCorrect`,
  `StayInsideCorrect`: `NdefInv` ties `step` to the call in progress
  (`Control`), `info` to the CCs the tag can have had (`InfoInv`), and the
  pages to what the locks allowed (`LocksPassed`): in `SoftLockCorrect` the bits
  that `hard_locked` read are those of the chip only when `info` is that of the
  chip's own product, and the CC has not changed since. The step lemmas for the page
  writes come from `PageWrite_proofs`. `StayInsideCorrect` needs that pages
  behind the one being written are still old.
- `StoreCorrect`: every step of `write_ndef` is a step of `NdefStore` or changes
  nothing there, the safety half of `StoreSpec`. `StoreInv` adds that what is new
  on the tag are the pages sent so far (`NewBehind`), so that the content is torn
  exactly between the first page write and the last.
- `SecondBoundIsImplied`: the check against `last_user_page` in `write_ndef` can
  never refuse anything the capacity check has let pass. It is a second belt
  on the same hook: both bounds come from the CC.
- `LifecycleTypeCorrect`, `CcBeforeLockBitsCorrect`, `PromiseKeptCorrect`,
  `ReportsAreTrueCorrect`, `HistoryTellsCorrect`,
  `ConfigSafeBehindHonestCcCorrect`, `NoWriteIntoPartialLockCorrect`: `Course`
  says what the command in progress may rely on: at `decide` its picture is that
  of the CC or of none; at `cc` a command that marks the CC holds the one it
  read; between the CC and the lock bits the CC is marked unless the reader lied;
  at `fill`, but for `format`, whose area is its own, the capacity is that of the
  CC. It needs that a size byte OR-ed over
  itself stays what it is (`ByteOrSelf`). `Truths` adds that what was promised is
  frozen (`Frozen`): otherwise a later command could change the CC under the
  promise.
- `GuardTypeCorrect`, `KnowinglyCorrect`, `PasswordCorrect`: `GuardInv` carries
  through the page writes who let the command pass (`Cleared`), where its AUTH0
  comes from (`Origin`) and which secrets have landed (`Secrets`): up to the write
  of AUTH0 they are the ones asked for on every honest reader, since the padding of a PWD
  or PACK write comes before the PACK or behind the chip. None of them
  can be read off the chip when AUTH0 is written, which is why the properties
  alone are not inductive.
- `OnlyWhatWasAskedCorrect`, `ReportedCorrect`, `RefusedCorrect`,
  `MirrorCorrect`: `AskedInv` says that what a command will write differs from
  what the tag has only in what it is for, on each of the two pages; between them,
  on a reader that stores the padding, the access page may be blank instead.
  `LandedInv` says which of the two pages hold it by now, `RefusalInv` that a
  command which has sent a password has passed a guard that lets it pass again.
  `InsideInv` carries what `mirror_fits` found to the write: a byte not below 0
  that fits is one whose two low bits fit too, and a command that leaves the
  mirror alone writes it as it was.
- `BatchTypeCorrect`, `WrittenOnceCorrect`, `RecordsTellCorrect`, `CountCorrect`:
  `OnceInv` says that every UID recorded as written is among those seen, but for
  the one being counted, and `TellInv` that a write about to be recorded as good
  is on the tag it was made to. `SumInv` counts: what is done, with what is about
  to be, is covered by the UIDs seen, each of which is that of a tag that holds
  the message, and by the good records without a UID.
- `DamageCorrect`: `DamageInv` pairs the lines that parse with the records that
  survive, the n-th with the n-th (`Paired`), and says that the file is open
  exactly when the last record that left a trace has no line end. An append adds
  the highest number to both sides, or takes the highest from both, or changes
  neither (`PairedTop`); no induction over the file is needed.
- `MonitorTypeCorrect`, `ExclusiveConnectionCorrect`, `SentIsCurrentCorrect`,
  `NeverGoesBackCorrect`: `MonitorInv`. `Owned` says that a thread between taking
  and releasing `io_lock` owns it, which gives the exclusive connection. `Behind`
  says that what was read is never ahead of the tag, and exactly what it holds as
  long as the lock is not released: so a publish cannot go back, as long as it is
  made under the lock. The poll loop publishes after releasing it, which is why
  `NeverGoesBack` is about the watch. `Counted` bounds a tag's writes by the
  requests that are past theirs, `Sent` relates versions and snapshots.
- `OffsetCorrect`, `DataTypeCorrect`, `OffsetIsThePlaceCorrect`,
  `StoredIsReadCorrect`, `AheadIsKeptCorrect`, `PlaceIsSettledCorrect`,
  `BrinkCorrect`: about all byte sequences, where TLC tries two pages. `TlvOffset`
  and `Unwrap` are recursive, and the library's induction theorems cannot be used,
  so the induction is made of other things: `LeastNumber` (a set of numbers has a
  least one, from the well-foundedness of strict subsets) and `WalkExists` (the
  function that steps on until it stops exists: its value is that of the stop which
  every set closed under stepping contains). With these, a prefix that can be tiled
  with whole TLVs is one that both walks skip (`OffsetFromTiled`,
  `UnwrapFromTiled`), and two areas that agree on it have the same place.
  `Operation` describes what a write, format or erase that got `k` bytes far has
  left behind, for all of them at once.

Left to TLC is liveness, which is beyond the prover: the fairness of `StoreSpec`,
`BatchEnds`, `EveryRequestEnds`, `BrowsersCatchUp` and `PollSettles`. The
violations of the other runs are TLC's too.

## Plan

Done: all the modules above and the proofs above. What is left, in order:

1. A refinement between the two views of the data area: `Lifecycle`'s `Fill` and
   `DataArea`'s `Operation`, so that what is proved of the one holds of the other.
2. `app.js` composed with `TagMonitor`: the click on a stale page.

## Not modelled

The encoding and decoding of NDEF records (URI prefixes, language codes, smart
posters, icons): conversions without state, which the tests cover value by
value. The web page: it keeps one snapshot and shows it; that `force` is
computed from it matters little to the server, since `WriteNdef` has a request
arrive with `force` or without at any tag. ATR card names, static files and styling,
`detect`, `read`, `dump`, `capabilities` and `history`, which only print, and the
packaging. A PC/SC daemon that dies is seen only as a reader that is gone.
