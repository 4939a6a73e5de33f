# A TLA+ model of the HP LaserJet M1005 macOS driver

This directory holds specifications of the driver's own logic, the TLC
configurations that check them on small instances and proofs that hold for
every size. `PROJECT.json` lists the runs, the mutants that show each property
can fail, the source lines behind each definition, the hazards and the theorems.

Paths are relative to the repository root (`src/` is the driver's source
directory, `macos/` the setup application, `vendor/foo2xqx` the encoder).

## 1. The system

```
 CUPS ── IPP ──> PAPPL host ──callbacks──> m1005_printer_app.c ──spawn──> m1005-xqx-encode
 (queue)         (library)                        │  send_xqx              (vendor/foo2xqx)
                                                  v
                 m1005_pappl_usb.c (device scheme "m1005usb": open, close, write)
                                                  │
                                                  v
                 m1005_usb_io.c (chunks, retries, clear-halt, cancellation)
                                                  │ libusb
                                                  v
                                          printer (parses XQX)

 M1005SetupApp.swift ── SMAppService/launchd ──> m1005-printer-app --managed-service
        │  marker file "stopped by the user"            │
        └── lpadmin: the CUPS queue                     └── uninstall_m1005.sh removes it all
```

| component | state | operations | what makes it correct |
|---|---|---|---|
| USB write loop `src/m1005_usb_io.c` | `current`/`remaining`, `retries`, `io->last_error`, `io->reset_requested` | `m1005USBWriteAll` | bytes once and in order; bounded patience; a stall is cleared before a retry; one transfer after a cancellation at most; the three ways of reporting failure agree |
| PAPPL device scheme `src/m1005_pappl_usb.c` | libusb context, device, handle; `active_job`; `reset_requested` | `device_open`, `device_close`, `device_write`, `BeginJob`, `EndJob`, `RequestReset`, `device_list`, `device_status` | nothing leaks on a failed open; the reset owed is carried out at the close; `active_job` never dangles |
| Sending a job `send_xqx` in `src/m1005_printer_app.c` | `success`, `wrote_data`, the open file | read, write, cancel, fail | completed means printed; a torn document is followed by a reset, not by the next job's bytes |
| Raster callbacks and encoder child in `src/m1005_printer_app.c` | `m1005_job_data_t`: two temporary files, `lines_written`, `page_height`, `pages`, `failed` | `raster_start_job` … `raster_end_job`, `encode_xqx`, `cleanup_job_data` | files and child processes are gone at the end; a bad page is never sent; a cancellation is not an error |
| Managed service `run_managed_service` | the marker file, launchd's job, the listening port | start, poll for the printer, exit | waits without a printer; stopped by the user means stopped |
| Setup application `macos/M1005SetupApp.swift` | SMAppService registration, marker file, CUPS queue | setup, stop, start, disable, prepare-uninstall, refresh | the buttons' promises against launchd's restarts |
| Uninstaller `macos/uninstall_m1005.sh` | files, queue, jobs, receipts | one run as root | ends with nothing left, can be run again |
| Command-line sender `src/m1005_usb.c` | signal flag, offset, claimed interface | probe, send, reset | reset after an interrupted transfer; interface released |
| XQX encoder `vendor/foo2xqx/foo2xqx.c` | chain of encoded chunks, page and document counters | one run per job | framing: every page closed, lengths right |
| XQX decoder `vendor/foo2xqx/xqxdecode.c` | parser position | diagnostic | reads what the encoder writes |
| Discovery `find_interface`, `find_printer_interface` | none | the searches of the service and of the tool | both send to the same bulk-out endpoint of the printer class |
| Capabilities `driver_callback` | none | what clients are offered | what is offered is accepted, and only the margins offered are cut off |
| Test page generators `src/generate_test_*.c` | the page | one file | the page survives the driver whole |
| JBIG library `vendor/foo2xqx/jbig*.c` | third party | | not modelled |
| Makefile, tests, release scripts | none | | not modelled |

Three kinds of concurrency meet here. A *user* (or an IPP client) cancels a job
at any moment; the code notices only where it asks `papplJobIsCanceled`. The
*bus* loses and regains the printer, stalls an endpoint, cuts a transfer short.
And *launchd*, the setup application and the service itself start and stop the
service with nothing but a marker file between them. The service may also die at any
step: what it keeps in memory (a reset it owes, a cancellation, the job it is
at) goes with it, while the printer, the marker and the CUPS queue stay.

## 2. Plan

| | modules | state |
|---|---|---|
| 1 | `Delivery`, `UsbWrite`, `UsbWriteProofs`: the write loop, what it promises, the proof | done |
| 2 | `UsbDevice`, `PrintJobs`, `PrintJobsProofs`: device scheme, `send_xqx`, several jobs, the printer | done |
| 3 | `JobContract`, `RasterJob`, `RasterJobProofs`: raster callbacks, temporary files, encoder child | done |
| 4 | `SetupService`, `SetupServiceProofs`: setup application, CUPS queue, marker file, launchd, service process | done |
| 5 | `Uninstall`, proved in `SetupServiceProofs`: the uninstaller on top of `SetupService` | done |
| 6 | `Discovery`, `UsbCli`, `UsbCliProofs`: the command-line sender, its signals, where it and the service send to | done |
| 7 | `XqxStream`, `XqxStreamProofs` on `SequenceLemmas`: the encoder's framing and the decoder as its reader | done |
| 8 | `RasterInput`, `RasterInputProofs` on `SequenceLemmas`: how the encoder reads, crops and turns its input | done |
| 9 | `SetupService` from the button on: what is between the button, the marker and each command, and what is ignored when it fails | done |
| 10 | a crash of the service in `PrintJobs` and `RasterJob` | done |
| 11 | `PageGeometry`, proved in `RasterJobProofs`: the sizes five places of the code have to agree on | done |
| 12 | the page count of `pksm_pages` with duplex, several input files per call, the clips they share | open |
| 13 | a job of `RasterJob` sent through `PrintJobs`: today the two meet in the contract of `send_xqx` only | open |

How the modules use each other:

```
 MCUsbWrite ─> UsbWrite ──refines──> Delivery          PrintJobs ─> UsbDevice
                                                       (a write obeys Delivery)
 RasterJob ──refines──> JobContract                    MCUsbCli ─> UsbCli ─> Discovery
 MCUninstall ─> Uninstall ─> SetupService
 MCRasterInput ─> RasterInput     MCXqxStream ─> XqxStream       PageGeometry
 *Proofs EXTENDS the module of its name and TLAPS; SetupServiceProofs is about
 Uninstall too, RasterJobProofs about PageGeometry;
 XqxStreamProofs and RasterInputProofs use SequenceLemmas
```

## 3. The modules

### Delivery, UsbWrite

`UsbWrite` is one call of `m1005USBWriteAll`. A byte is its offset, so
`received` is the exact sequence the endpoint took. The program counter `pc`
has one value per place where the environment can act: `loop` (head of the
`while`, lines 46-51), `transfer` (inside `io->bulk_transfer`), `halt` (inside
`io->clear_halt`), `delay` (in `retry_delay`), `done`. A transfer ends with any
result libusb has and any number of bytes up to what was requested; when the
endpoint is halted it can only fail with `PIPE`. `Progress` is a transfer that
leaves nothing to handle, `Fault` one that goes on to the error handling, with
or without bytes. `MiscountedTransfer` is the defensive branch of lines 60-63:
libusb reports a count that makes no sense while the endpoint took what it took.
`RetryOrGiveUp` is lines 88-91 with the post-increment of `retries`.
`late`, `idle` and `transfers` are history variables.

`Delivery` is the contract without chunks, errors, retries: the buffer is taken
front to back, the call is `complete` exactly when the last byte is out, and
after the cancellation at most one more piece goes out. `UsbWrite!DeliverySpec`
states that `UsbWrite` implements it with `verdict` read off `ret`.

### UsbDevice, PrintJobs

`UsbDevice` has the actions of the device scheme without a specification of its
own: `OpenSucceeds` and `OpenFails` walk the five libusb calls of `device_open`
one by one, so that the printer can be unplugged between any two. `live` says
that the device found last is still the one on the bus. `DeviceClose(cleared)`
is `device_close`; `cleared` is whether a requested reset reached the printer.

`PrintJobs` extends it with the PAPPL host (external: open with retries, one
callback at a time, close, job states), `send_xqx`, and the printer as a parser
that is in the middle of at most one document. A write is atomic after
its first cancellation check and obeys the contract of `Delivery`: whole, or
short with a reset requested. The constant `KeepOpen` is the host's policy:
FALSE closes the device after each job, TRUE may leave it open while
another job waits, which is what PAPPL 1.4 does; both runs have TRUE, and the
proofs cover either. `taken` is what the printer got of each job, buffer by
buffer, also of a job whose bytes it took inside another document (`spliced`);
`kept` says that a job was sent into a torn document whose reset was still owed.

`Crash` is the death of the service at any step: the kernel closes the device
without a reset (`DeviceDies`), the host either gives the job up or runs it
again from its start, and forgets that it was cancelled. Nothing in the driver
makes up for the reset it owed, so `lostReset` covers it like a reset that failed,
and `ClosedMeansReset` and `NoSplice` are stated around both.

### JobContract, RasterJob

`RasterJob` is one raster job of `m1005_printer_app.c`: `MakePbm` and `MakeXqx`
(`raster_start_job`), `StartPage`, `WriteLine`, `EndPage` and its two failures,
`CloseStream`, `Spawn`, `Poll`, `StopChild`, `Reap` (`encode_xqx`),
`CheckBeforeSend`, `SendEnds`, `Cleanup`. Every call on a file may fail. The
child runs at its own pace: it may end between the poll and the check for the
cancellation, or hang. A page is the number of its rows that were written;
`Rows` stands for 7016 and `Rows - 1` for the 7015 PAPPL announces. The client
may announce a wrong height or stop in the middle of a page. A row lost in the
stream's buffer shows up only in `CloseStream`.

`OutputLoss` is a weakness of the encoder: it ends with `exit(0)` and never
looks at the last flush of its output, so a full disk can cut the document. The
run has TRUE, like the code. `JobContract` then admits that the end of a
document was lost before anything was sent (`Lose`), and the refinement says
that nothing else is hidden by a completed job.

`JobContract` is what a client is told about a job: what the printer got, and
the final state it sees. A completed job was sent whole, a cancelled one may
have been sent in part, nothing is sent after the job has ended.

`Crash` is the death of the service; the host gives the job up or starts it
anew. What counts as sent, staged and left behind is that of the attempt that
ends the job. The two files of an attempt that died stay in `/private/tmp`
(`make_temp_file`, 178-203, and nothing looks for them later).

### SetupService

The marker file `service-stopped`, SMAppService's registration (`reg`),
launchd's job, the one process it runs, the CUPS queue, and the operations of
the setup application, one place (`at[w]`) per step that somebody else can come
between. `Press` is the button: `perform` dispatches the operation on a
concurrent queue, none is disabled, and what it does first may happen any time
later, after operations that were pressed later. `LookForMarker`
and `ClearMarker` are the two halves of removing the marker, `WriteMarker`
writes it for Stop and Disable; each may throw, which ends the operation without
a report. `StartLooks`, `Remove`, `Evict`, `Register` and `Kickstart` are
`registerService` and `removeCurrentRegistration` command by command:
`unregister` and `bootout` may fail and nobody looks. `Unregister` throws for
Disable and prepare-uninstall, except when SMAppService no longer finds the
registration (`reg = "lost"`): then it is `bootout` alone, whose result is not
looked at, and neither is that of the wait for the server. `AskService`, `Add`,
`Look` and `Delete` are the commands on the queue. `lpadmin -m everywhere` needs
a service that answers; when it fails the queue may exist or not. `lpstat` may
fail, which reads as "not installed".

`CheckMarker`, `Listen` and `ShutsDown` are the start and the end of
`run_managed_service`; launchd (external) starts the process when it is
registered and at login and again after an unsuccessful exit. A bounded wait
sees what it waits for or gives up while it is not so. The menu-bar Stop may
fail to write its marker and leave the file all the same:
`mark_service_stopped_by_user` has created it before the write fails.

What the user was told is in `said`, the report of the operation whose button
was pressed last (`last`); the message of an earlier one does not count any
more. The histories name what no property can promise anything in, because the
code does not:

* `overlap = "crossed"`: a Start pressed before can still remove the marker
  that this Stop wrote;
* `sneaked`: the stop was reported with a process past the marker check
  and not yet listening;
* `said = "too late"`: a start that was reported while the server it saw had
  been told to shut down;
* `said = "supposed"`: a queue that was reported removed because `lpstat` failed;
* `overlap = "some"`, for `DisabledIsUnregistered`, `QueueAsTold` and `StartHolds`:
  two operations at once may say opposite things.

There is no property that an enabled service and its queue find each other:
it would follow from `QueueAsTold` and `StartHolds`.

### Uninstall

`uninstall_m1005.sh` command by command, with `set -e`: every command that can
fail ends it, unless the script ignores it. It extends `SetupService`, of
which one worker is the `Helper` copy that the script starts to unregister the
service; the others are the application's own buttons, which still work. Where
a failing `lpstat`, `lsof`, `ps`, `plutil` or `pkgutil` reads as "not there",
the script passes the thing over and goes on to report success: `skipped` is
what it passed over in this run. The copies of the application that may be
installed are `Copies`: one with a version in its name, the fixed names, one under
another name in an Applications folder (`renamed`), one elsewhere. They go in
the three steps of the script (lines 99-101, 102, 103-106).

`stray` is a service process that is not launchd's (lines 45-53), `calm` says
that nobody used the application since the script began, `late` that a process
wrote its files after they had been removed. `Writes` are the steps that make
the application's directories: `startService` and the marker, the service before
it looks at the marker and when it saves its state. `MCUninstall` is `Uninstall`
with a view that leaves out `last`, `said`, `overlap` and `sneaked`: no
guard reads them and none of the three properties is about them.

### Discovery, UsbCli

`Discovery` is where the two programs that talk to the printer send to. A
layout is the sequence of all alternate settings with their endpoints. The
service leaves both loops at the first setting that will do and takes the last
of its endpoints; the tool leaves the innermost loop only, so it ends with the
last setting and the first of its endpoints. `NoChoice` are the layouts
on which that makes no difference; the M1005 has one (`PHASE1_RESULTS.md:11`).
Neither program selects the alternate setting it found.

One run of `m1005_usb.c`: `Acquire` to `Close` are `main`, `OpenFile` to
`Return` are `send_file`. `Signal` may strike at any step, and ends the process
where no handler is installed. A transfer may come short, fail after bytes were taken,
or succeed without progress; a read may come short before an error.

### XqxStream

What the encoder writes, as a sequence of cells (a text, a chunk header, an
item, a run of JBIG data), and the decoder as a variable that every `Put` moves
on: `Read` takes the cells one after the other, `DecodeCell` is a turn of
`decode`'s loop. JBIG (external) hands `output_jbig` pieces of any size; the chain of
buffers is a sequence of `[from, len]`, so that a byte lost, doubled or
exchanged shows. With duplex the even pages go to a temporary file whose
pauses are patched, and come out in reverse. `tmpfile` may give NULL and nobody
looks (`foo2xqx.c:1483`): `even_pages` is then FALSE, the pages come out as they
came, and no blank page is added. `SeekRec` has `MaxSeek` entries and nobody
looks either (`foo2xqx.c:119`): a document with one even page more ends in
`overrun`, of which nothing more is said. `Documents` is the set of calls
(duplex, colour, the one plane of `-S`, pages).

### RasterInput

How the encoder reads standard input. A unit of the stream is the `P4` of a header,
the rest of a header, or a byte of pixels known by image, row and column. A
stream may be cut at every unit. Clips that do not meet a byte are moved
(`AlignClip`), rows on four sides are dropped, with duplex on the long edge
every second page is turned in place (`TurnBytes`, one pair of bytes per step).
A cmyk raster whose first byte is that of `P` is refused, or, if a `4` follows,
read as P4 images: `astray`, where the model ends.

`InputsAssumption` says what inputs there may be: any number of images of any sizes of
which the clips leave something, a cmyk raster with pages of one size (the
encoder is told it once). There are no pixels: which planes of a page have ink,
and so are written, is left open in `XqxStream` (`colored`).

### PageGeometry

Operators without variables: the sizes a page has in `driver_callback`
(`Offer`), in `raster_start_page` (`Accepted`) and `raster_end_page`
(`RowsWritten`), in the arguments of the encoder (`Kept`) and in the two
generators of test pages (`Black`, `Lines`). CUPS and PAPPL (external) turn hundredths of
a millimetre into dots, rounding down (`Dots`, `Header`, `Printable`).
What is drawn on a test page is known by the rectangles around it; the proofs
are about every subset of the dots in them. There is nothing to explore, so no run
has this module; everything said of it is proved.

## 4. The runs

| run | module | question | bounds |
|---|---|---|---|
| `usb_write_faults` | MCUsbWrite | verdict, no byte skipped and retry budget under every fault, impossible counts included | buffers of 0, 1, 3 bytes, chunk 2, budget 2 |
| `usb_write_delivery` | MCUsbWrite | refinement of `Delivery`, termination, stalls, one transfer after a cancellation | buffers of 0 to 5 bytes, chunk 2, budget 2 |
| `print_jobs` | PrintJobs | nothing leaks, completed means taken, no splice but those named, jobs end, the service crashing at any step | two jobs of two buffers, a host that may keep the device |
| `raster_job` | RasterJob | nothing left behind, nothing torn is sent, refinement of `JobContract`, the service crashing at any step | two pages of up to three rows, an encoder that may lose its output |
| `setup_service` | SetupService | the promises of Start, Stop, Disable and of the queue's two buttons | two overlapping operations, one disturbance |
| `uninstall` | MCUninstall | what a run of the script leaves behind | one button besides the helper, one disturbance, an application under a fixed name |
| `usb_cli` | MCUsbCli | no success over a torn document, no signal lost, sent where the service would | files of 0, 1, 3, 4 bytes, limits 1, 3, 4, 5, chunk 2; the printer's layout, its reverse and one without an endpoint |
| `xqx_stream` | MCXqxStream | framing, chain of buffers, duplex order | header of one byte, buffers of two, up to three bytes of data; one and two colour pages, one with one plane chosen, one to five duplex pages, room for two even pages |
| `raster_input` | MCRasterInput | cropping, turning, cut streams | one to three pages of two to four rows, rows padded to two bytes |
| `print_jobs_keep_open` | PrintJobs | expected violation, see 7 | two jobs of two buffers |
| `uninstall_remains` | Uninstall | expected violation, see 7 | the helper only, an application elsewhere |
| `xqx_odd` | MCXqxStream | expected violation, see 7 | one and three duplex pages |

Why these bounds are enough to meet the interesting cases:

* A buffer of three bytes in chunks of two has a full and a partial last
  transfer; five bytes have two full ones before it. A budget of two tells "one too many"
  from "one too few".
* Two buffers per document are one that starts the printer's parser and one
  that ends it; the second job meets what the first left behind.
* Three rows are a first, a middle and a last; with `Rows - 1` announced the
  page that is padded is met, and two pages let a good one follow or precede a
  refused one.
* Two operations are what it takes to overlap, and to have one come to the
  marker after the other. One disturbance is a crash, a login, a lost
  registration or a menu-bar Stop at any place of both; with two of them
  `setup_service` passes too (632,801 states). The proofs have no bound on either.
* One copy of the application meets every step of the script that removes one
  or passes it over. Runs with several kinds of copies at once take longer
  than they tell; `DoneIsClean` is proved for any set of `Copies`.
* Room for two even pages is filled by four duplex pages and overrun by five,
  whose last one gets a blank back.
* A crash in `print_jobs` and `raster_job` is not bounded: it may hit the same
  job again.
* File sizes and limits lie below, at and above multiples of the chunk and of
  each other.
* With buffers of two, three bytes of data leave the last buffer full, half
  full and empty. Duplex pages in odd and even number need the blank page or
  not; what the data is makes no difference to `xqx_odd`.
* Widths and clips meet the bytes or do not; the stream is cut at every unit
  of every one of those inputs.

Named bounds: `MaxDisturbances` (crashes, logins and menu-bar stops),
`MaxPages` and `MaxData`. Everything else is bounded by the code.
`CHECK_DEADLOCK FALSE` is in every cfg: a call returns, a queue runs dry, a
document ends.

## 5. Fairness

`UsbWrite`: weak fairness of the call's own steps. A bulk transfer has a timeout
(`io->timeout_ms`), a control request has libusb's, `nanosleep` ends. Nothing is
assumed about what the transfers return, nor that anyone cancels.

`PrintJobs`: weak fairness of the service's steps for the same reason, and
strong fairness of each libusb call of `device_open` *succeeding*: a printer
that stays on the bus is eventually opened by a host that tries every few
seconds. Without it a job could wait for ever in front of a present printer.
`JobsEnd` assumes that the printer eventually stays and that the service
eventually stops crashing; `CancelEnds` assumes neither, and lets a crash forget the
cancellation.

`RasterJob`: weak fairness of the callbacks, which wait for the child with a
poll only. The child itself has none: an encoder that hangs must not keep a cancelled
job from ending.

`SetupService`: weak fairness of the service process and of each operation
whose button was pressed, `lpadmin` included; launchd acts in the same step as
the exit it reacts to. Nobody has to press a button, approve a registration,
crash or log in.

`UsbCli`: weak fairness of the tool, since every libusb call has a timeout.
`Uninstall`, `XqxStream`, `RasterInput` have safety properties only.

## 6. The proofs

Eight modules hold theorems, all for every value of the constants that the
assumptions in the modules allow. `SequenceLemmas` is about
sequences only. Elsewhere the invariants of the runs are not inductive alone;
`IInv` (`ReadInv` in `RasterInputProofs`) strengthens them, and every action is shown to keep it.

`UsbWriteProofs`: `TypeOK`, `NothingSkipped`, `OutcomeAgrees`,
`RetriesAreBounded`, `CancelIsPrompt` and, in no run, that a call gives up
only after the whole budget (`BudgetIsSpent`); with trusted counts (`~Miscount`) also `NoBlindRetry` and
the refinement `DeliverySpec`. `IInv` adds what each `pc` implies
(`ControlInv`); that the history `idle` follows `retries` at a distance of at
most one (`BudgetInv`: an error together with progress counts as a retry but not as an idle
transfer); that every counted byte pays for at most `MaxRetries + 1` transfers
(`AccountInv`, a product, by the lemma `ByteBuysBudget`); that a transfer after the
cancellation was under way before it (`LateInv`). The refinement needs
`HonestInv`: with trusted counts `received` is exactly the offsets `1..sent`.

`PrintJobsProofs`: `TypeOK` is part of `IInv`; proved are `NothingLeaks`,
`ActiveJobIsCurrent`, `CompletedIsPrinted`, `ClosedMeansReset` and `NoSplice`,
all under either policy of the host, and that no write starts for a cancelled
job (`CancelStopsWrites`). That a host which closes its device never gets to
`kept` is a part of `NoSplice` that only the proof covers: the run has a host
that keeps it. `HeldInv` ties each
stage of `device_open` to the objects it holds. `TornInv` is the heart: when
the parser is inside a document, that document's job is being sent, or a reset
is owed, or one failed. `SpliceInv` adds that a job starts on a printer that is
at rest, unless the reset is lost or the device was kept.

`RasterJobProofs`: `TypeOK`, `NothingLeftBehind`, `EncoderReadsFlushed`,
`SentIsWhole`, and the refinement of `JobContract` for either encoder.
`raster_end_page` refuses a short page without setting `failed`, so `failed`
alone says nothing about the pages. `PagesInv` therefore relates the pages
counted to the pages staged: without a failure and with whole pages only, they
are as many. `EncoderInv` closes the gap: the encoder ends with an error on a
file that stops inside a page, so its exit status 0 implies whole pages.

The proofs of these two modules cover a crash at any step: it empties what
`IInv` relates, and what it does not empty (`lostReset`, the files of a dead
attempt) only weakens what the invariants promise.

`SetupServiceProofs`: `TypeOK`, `StopHolds`, `StaysDown`,
`DisabledIsUnregistered` and `QueueAsTold`, for any number of overlapping
operations, crashes, logins and lost registrations. `MarkInv` says when the
marker must be there: after a stop or disable that was reported, or is past its
`WriteMarker`, as long as it is the last one pressed and nobody who came before
can still remove the marker, because nothing but a Start removes it. `StopInv`
follows the process: once a stop was reported there is none between the check
and the port, but for the one of `sneaked`. `AloneInv` is about operations that
met no other one: while its button is the last one pressed and `overlap` is
`none`, all others are idle, so that what it saw of the registration and of the
queue is still so when it reports.

About `Uninstall` the same module proves `UTypeOK`, `DoneIsClean`,
`FailureIsRepeatable`, and that a reported stop holds next to the script. Every
step of `Uninstall` is one of `SetupService` or leaves its state alone, but for
`Bootout`, `RemoveQueue` and `KillStray`, which act on it from outside; the
marker and the stop invariant are kept by these too (`SInv`).
`HelperInv` says that while nobody uses the application only the helper is
under way, and only during the script's first step. `CleanInv` says of each command that what it
removed, or passed over, stays that way afterwards: without a registration, and with all
operations at rest, nothing can start a process.

`UsbCliProofs`: `SendsPrefix`, `SuccessIsClean`, `SignalResets` for every file,
limit, chunk and layout that leaves no choice; `SameEndpoint`, that the two
searches agree on such a layout; `PrinterClassOnly`, that on any layout they
find a bulk-out endpoint of the printer class.

`XqxStreamProofs`: `TypeOK` and `ChainIsWhole` for every size of header and buffer.
`LinkedInv` says that the buffers follow each other, `SumInv` that they hold what JBIG gave,
`TurnInv` that `limit`, the local `size` of `output_jbig`, is right for the
last buffer: `size` is 20 only in the call that makes the chain, which is
right only because the header fills the first buffer exactly.

Two theorems follow the cells of the stream on top of that. `StreamFramed` is
`LengthsAgree`: a chunk that came out is followed by all of its items and has
their length. The difficulty is that even pages are patched in the temporary
file after they were written, and come out from the places of `seek`.
`StreamInv` adds to `IInv` that every stretch of `even` that `seek` knows is
made of whole chunks (`Framed`, `InFile`), and that what a patch may meet is a
pause or the type of the first chunk, on neither of which the frame depends. It
holds with the blank page too, whose pause was never noted.

`DocumentRead` is `DocumentDecodes`: the decoder ends with the pages that went
in, in the order that the temporary file, or its absence, makes.
`ReadInv` adds three parts that hold until there is a blank page.
`CountInv` relates the pages counted, encoded and noted to each other and to
`pc`, which also gives the bound on `SeekRec`; `DecoderInv` says that the decoder is at a chunk with exactly the odd
pages and the even ones copied so far (`Delivered`); `SeekInv` that what lies
between the two places of a record is, but for its pause, what the decoder
reads as that page of `doc` (`StoredAs`), for all records not copied yet,
which is why no patch may meet another page. Under it lie lemmas on `Read`, from one
cell (`DecodeItem`) to a piece, a plane (`ReadPlane`) and a page (`ReadAPage`).

The library's induction rule is about an operator, which no prover here
instantiates. For a *set* of numbers that holds 0 and the successor of each of
its members it is first-order (`SetInduction` in `SequenceLemmas`): every
induction of these proofs names the set of places up to which its claim holds.
`SequenceLemmas` also says what `FlattenSeq` joins (`FlattenIs`,
`FlattenAppend`) and keeps (`FlattenKeeps`), and where the bytes of a row lie
when all rows are as long (`FlattenRows`).

`RasterInputProofs`: `PagesAreCropped` and `WholeOrError`, for
every stream cut at every unit, and no bound on pages, rows or clips.
Beneath the invariant lies the layout of the stream. `LayoutIs` says that its
units are those of the images, one after the other, so that image and offset tell the
unit; `RowsLie` where a row of an image begins, `RowRead` that the part of
it that `fread` and the clips leave is the row of the page that is wanted.
`TurnedIs` gives the half turn of the bytes in terms of that of the rows.

`ReadInv` is the inductive invariant. `PlaceInv` ties `pc` to the place in
the stream: between two images the encoder stands exactly at the end of one, and a
`P4` was looked at ahead of time only before the first. `BufferInv` says for
each of the five places inside an image which row comes next and what the
buffer holds of it; while the page is turned, the bytes outside `sp` from both ends
have changed places (`HalfTurned`). `PagesInv` is `PagesAreCropped` with
the planes of the page under way. `FitInv` says that the planes of a page are as
large as its first, which `pksm_pages` checks against `saved`. `WholeOrError`
is a part of its own: each place where the encoder stops (a
cut header, a cut row above, inside or below the page, a size that does not fit, the
end) contradicts `Sound` or agrees with it (`Stops`, `CutOpen`, `CutSkipped`).

About `PageGeometry`, whose numbers need no state, `RasterJobProofs` has: what the driver offers it accepts (`OfferIsAccepted`),
and nothing else (`OnlyA4IsAccepted`); every accepted page has the rows that its header
in the file announces (`FileHasItsRows`); the encoder cuts off the margins and
nothing else, to within one row of dots (`OnlyMarginsAreCut`); no test page
loses a dot to it (`TestPageIsKept`); and the raster that
`generate_test_raster` makes of a test page comes out as that page, the
row the generator drops being the one the service adds (`TestRasterArrives`).

Only model-checked: all liveness (`Returns`, `CancelEnds`, `JobsEnd`,
`StopSettles`, `StartHolds`, `Ends`), which is beyond the
prover. Every invariant and every refinement that a passing run checks is also a theorem.
`UsbWrite`'s, `UsbCli`'s and `SetupService`'s type invariants are proved and in no
run of their own. `RetriesAreBounded` is the proved part of the write loop's
termination.

## 7. Findings

Each is a run that TLC is expected to refute.

* `print_jobs_keep_open`: **a reset can come after the next job.** A cancelled
  or failed transmission sets `usb->reset_requested`, but only `device_close`
  acts on it (`src/m1005_pappl_usb.c:213`). The recovery diagram of
  `Developer Article.md` has the reset and the discovery before anything
  else is sent. With a host that leaves the device open for a waiting job, that
  job's data follows the torn document.
* `uninstall_remains`: **an application that stays is a success.**
  `remove_app_if_expected` passes over an application in another place
  (`macos/uninstall_m1005.sh:65`); `PHASE5_RESULTS.md:15` says the helper
  reports a failure if the running application remains.
* `xqx_odd`: **the blank back page spoils the stream.** It is written before
  its page number is counted (`foo2xqx.c:1518`), so the pause is patched over
  the first chunk of the temporary file. The driver never asks for duplex.

Met while modelling, without a run of their own:

* A stop that meets a service between its marker check and the port finds
  nothing to stop, and the service comes up (`sneaked`); `PHASE5_RESULTS.md:31`
  knows no such exception. "It will remain stopped until you start it from this
  app." (`M1005SetupApp.swift:282`) is wrong then. It is also wrong when a Start that
  was pressed before the Stop comes to its files after it (`crossed`): it
  removes the marker and starts the service.
* "HP_LaserJet_M1005 removed from macOS." (`M1005SetupApp.swift:364`) is said
  of a queue that exists when `lpstat` fails (168-170). The uninstaller passes
  over the queue in the same way (`uninstall_m1005.sh:41`).
* Disable reports success with launchd's job, and perhaps a process, still
  there when SMAppService no longer finds the registration and the `bootout` fails
  (`M1005SetupApp.swift:347-350`); so does the uninstaller
  (`M1005SetupApp.swift:423`, `uninstall_m1005.sh:38`).
* A copy of the application in an Applications folder is passed over with success when
  `plutil` fails or finds another identifier (`uninstall_m1005.sh:68-76`).
* Without a temporary file duplex pages go out in the order of the input and
  the encoder exits with 0 (`foo2xqx.c:1483`); the driver never asks for
  duplex. The 2001st even page is noted behind the end of `SeekRec`
  (`foo2xqx.c:119`).
* `run` of `M1005SetupApp.swift` (108) waits for the end of a command before
  it reads the output: more than a pipe holds would block both.
* A cmyk raster that is cut in its first row, or in the rows `-u` drops, ends the
  document without the error that `foo2xqx.c:920` has for it; one whose first byte is
  that of `P` is refused, or read as P4 images if a `4` follows. `WholeOrError` is
  stated around both.
* `pksm_pages` counts a page before it knows that there is one, so its page
  number is one too high at the end of the input.
* The tool's `break` leaves one loop of three, the service's `goto` all of
  them (`m1005_usb.c:111`, `m1005_pappl_usb.c:85`): on a printer with two
  settings or two endpoints that will do they would send to different places.
* A crash of the service between a cancellation and the close of the device
  loses the reset: the next job's data follows the torn document.
* With a second input file the logical offset is taken from clips that the first
  one has already moved.

## 8. Not modelled

* Pixel values, and with them which inks a page has and what `cmyk_planes` makes
  of them; wording of messages, durations, the values of items
  that frame nothing, options that only change those values.
* `device_list`, `device_status`, `device_read`, `device_id`: they change no
  state.
* The rest of PAPPL's records: names of the driver and the media, the printer's
  speed, `auto_add`, the dithering self test. They are filled in once and
  nothing decides on them. `set_encoder_path` picks a path.
* `--usb-status`, the status texts, the window and the legacy labels of the setup
  application, and `removeManagedData`, which nothing calls.
* A URF client's grey pixels: PAPPL dithers them before the callbacks.
* A whole raster job through `PrintJobs`: `RasterJob` and `PrintJobs` each have
  `send_xqx`, the one as an outcome, the other step by step.
* The JBIG library: third party and unchanged. It appears as pieces of any size.
* What becomes of a document whose even pages overrun `SeekRec`, or of a cmyk
  raster that is read as P4 images; errors of reading the temporary file back
  (`putc(getc())` at `foo2xqx.c:1545`).
* PJL, the decoder's options and its reassembly of bitmaps.
* Of the generators of test pages the glyphs, the noise and the handling of
  arguments and files; the Makefile, the tests and the release script:
  sequential, without state of their own.
