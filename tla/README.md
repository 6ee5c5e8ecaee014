# Verification of fluke-testing

TLA+ models of the power measurement tools in this repository, with TLC
configurations that check them on small instances and TLAPS proofs of the main
invariants. Source paths are relative to the repository (`src/`).

Of the repository's 717 C sources, 711 are in `pm-tests/busybox-src`, a copy of
busybox that `pm-tests` compiles as a workload. The program itself is six C
files, one SystemTap and one Python program, an awk script and 78 shell
scripts; the share of "all C lines" that any model of it covers is therefore
tiny.

## 1. The system

A laptop under test (the *client*) runs test scripts. A *log host* reads a Fluke
multimeter once a second and writes the readings to a log. So that the log can
be cut into tests and runs, the client announces what it is doing with *tags*:

    test.sh --sendtag--> UDP 9999 --> udp-relay --> UDP 127.0.0.1:3500 --> logmeter
                                                                             |
    statstool  <----------------- samples.log (TAG and SAMPLE lines) <-------+

No tag is acknowledged or repeated. A script never learns whether a tag was
logged, and `statstool` has nothing but the log.

### Inventory

| component | state | operations | interacts with |
|---|---|---|---|
| `udp-relay/udp-relay.c` | descriptors, kernel receive queue | `socket`/`bind`, receive loop, `sendit()` | datagrams in from clients, out to port 3500 |
| `statstool/statstool.c`, parser | `state` bits, `index`, `data[]`, `hostname`, `kernel`, `arch`, `test`, `start_secs`, options | one turn of the loop of `data_parse()` per line; `test_run_begin/end()`, `data_free()`; `main()` over the files | reads the log, writes reports or files |
| `statstool.c`, statistics | a `data_t` per run: extrema and a list of points | `data_append_point()`, `data_analyse()`, `calc_average_stddev()` | called at `TEST_END` |
| test scripts (19: `idle`, `mouse`, `msr-energy-perf-bias`, `hdd-*`, `backlight-dimming`, `powertop-tweaks`, `generic-apps`, six `generic-apps-x32`, `generic-tests`, `pm-tests`) | place in the script, applications left in the background, settings of the machine | send a tag, wait to settle, work, start or kill an application, change settings | `sendtag`, `pm-powersave`, `hdparm`, `powertop` |
| `logdata.sh` | configuration of the logger | starts `logmeter` | port numbers shared with `udp-relay` |
| `logmeter`, `sendtag` (instrument-lib, external) | the log file | write tags and samples; send a datagram | |
| inner scripts of `pm-tests` | power.d settings of the machine | set, measure, take back | the run tags of `pm-tests` |
| wake-on-lan tests | mode of each interface, one saved mode | set, sleep, restore | started by `generic-tests/test.sh` |
| `msr-test.c` | child processes | fork eight, sleep, signal | started in the background by the msr script |
| `hdd-monitor-io` | two countdowns, I/O counters, a pipe | count, report; pass lines on | none |
| `powerstat-measuring` | files of figures, `stress-ng` processes | start, measure, print, remove | none |
| `pm-tests/busybox-src`, `pm-tests/assets` | none | third-party workload and data | none |

### What is hard

* **Unreliable delivery.** A lost `TEST_RUN_END` leaves a run open when its test
  ends; `data_parse()` then resets `index` to -1 and the next sample is written
  to `data[-1]`. Other losses change what is reported, and to which test.
* **Interleaving.** The meter samples while tags are on their way, so a sample
  can fall on the wrong side of a run's boundary.
* **Interruption.** A script stopped half way leaves an open test and run in the
  log and applications on the client; the next script inherits both.
* **Limits.** `sendit()` leaks a descriptor per message; `data[]` has 128 slots;
  the extrema start at 1E6 and -1E6.
* **Ownership.** Lists of points are freed at each `TEST_END` and slots reused.
* **Numerics.** Trapezium integral over unevenly spaced samples, two standard
  deviations, a calendar read with its months off by one and a daylight saving
  flag that nothing sets.
* **Settings.** A test is named after a setting that was made some steps before;
  an earlier script, or one that was interrupted, leaves its own behind, and a
  setting may not be there to be made.
* **Processes nobody waits for.** The msr load, `stress-ng` and the children of
  both run on timers of their own beside the script that measures them, and
  drift.

`PROJECT.json` lists each hazard at its line with the properties that would
catch it.

### What makes the components correct

* relay: what is forwarded is what was received, in order, once, as long as
  descriptors last; the queue is always read again.
* parser: stays within `data[]`; owns exactly `data[0..index]`; reports exactly
  the samples the log places in each run, under the names its test announced.
* statistics: the average lies between the extremes, the integral is exact for a
  linear drift, the deviations are population deviations.
* scripts: tags in an order the parser can follow, a settling wait before the
  first run, nothing left running, and every test measured under the setting it
  is named after.
* tools: the load is there through a run, up to a bounded drift, and gone before
  the next; the window of I/O counted is a fixed one; figures belong to the test they are
  printed with; an interface is left as it was found.
* together: what a script did is what is reported, and damage done by a lost or
  reordered tag ends with the test it hits.

## 2. Modules

| module | models | extends / composes |
|---|---|---|
| `UdpRelay` | `udp-relay.c` | |
| `RunStats` | `data_t` and the statistics of `statstool.c`, as operators | |
| `Timestamp` | `parse_timestamp()` and the part of `mktime()` it uses | |
| `RunLog` | what the parser promises about runs and samples: the abstract specification | |
| `Statstool` | `main()` and `data_parse()` | `RunStats`; an instance of `RunLog` for the refinement |
| `ClientScripts` | each test script as the sequence of its steps | |
| `TestClient` | a client running scripts, which may be interrupted | `ClientScripts` |
| `TagPipeline` | client, network, relay, logger and statstool together | `TestClient`, instances of `UdpRelay` and `Statstool` |
| `WakeOnLan` | `generic-tests/wake-on-lan-test` | |
| `MsrLoad` | `msr-test.c` and the loop of `msr-energy-perf-bias/test.sh` around it | |
| `BusyIo` | `hdd-monitor-io/busyio.stp` and `busyio.py` | |
| `PowerstatTest` | `run_test()` of `powerstat-measuring/test.sh` | |
| `UdpRelay_proofs`, `Statstool_proofs`, `Statstool_reports`, `TestClient_proofs`, `TagPipeline_proofs`, `MsrLoad_proofs`, `BusyIo_proofs`, `ClientTools_proofs` (wake-on-lan and powerstat) | theorems | |
| `MC*` | values of the constants; `MCRunStats` also drives `RunStats` and `Timestamp` with every short sequence of samples, `MCClientTools` runs one of the last four components at a time | |

Definitions introduced by a comment `Mutant:` are plausible slips in the code
that follows them; no specification uses them. Put in place of the definition
they precede, each makes TLC find a property violated, which shows that the
property would notice such a slip.

### UdpRelay

`pc` is the place in `main()`, `fds` the descriptors open, `inherited` those open
at the start, `rxq` the kernel's queue on port 9999, `tx` what was sent to port
3500; `rx` is history. `SocketFails`, `BindFails` and `Bind` are the start-up,
`Relay` one turn of the loop with the whole of `sendit()`, `Arrive` the kernel
(external). A datagram is a sequence of bytes so that truncation at 1000 bytes
(`Received`) and at the first NUL (`Relayed`) are what the code makes them; the
properties say what a C string is in terms of their own (`CStringOf`, `CStrings`).

### RunStats and Statstool

`Statstool` reads one line per step, as the loop does, with one action per kind
of line and outcome: `TestEndPrints`, `TestEndExtracts`, `TestEndCannotCreate`,
`SampleRecorded`, `SampleSkipped`, `SampleNoMemory`, and so on. A line is a time
stamp and a kind with its client, test name or reading; positions of characters
are abstracted. `hostname` stands for host and kernel, which are always set and
cleared together. `arch` starts as `"?"`, the uninitialised pointer.
`data_analyse()` prints no names. Without `-x` they are printed when their tags
are read, and `heading` is what stdout showed last: a report stands under it,
which is that of an earlier test if the `TEST_CLIENT` or `TEST_BEGIN` of its own
was lost. With `-x` the names are in the first line of the test's own file.
`pc = "undefined"` is entered where C gives the program no meaning: a sample
recorded in `data[-1]` (`SampleOutOfBounds`) or a file name made from an unset
`arch` (`TestEndNoArch`); nothing happens afterwards. `log` is history.
Options `-t`, `-T` and `-X` change layout and scale only and are left out.

In `RunStats` numbers are integers and quotients are pairs, so that the checks
are exact; rounding of doubles is not modelled.

`RunLog` has no slots, no memory and no state bits: `runs` is the sequence of the
runs of the test being read, each the sequence of its samples, `open` says
whether the latest takes samples, `written` is what was reported. `Statstool`
implements it with `runs` read off `data[0..index]`, `open` the run bit and
`written` the points of the reports (`ImplementsRunLog`).

`Timestamp` puts the fields of a stamp into `struct tm` as the code does, and
`mktime()` reads them as C says. Seconds are counted from 3900, where the year
2000 ends up (`tm_year` counts from 1900); the cast to `unsigned int` subtracts a
constant for all stamps from 1976 to 2110 and is left out. `tm_isdst`, which
nothing sets, is what the stack holds: `MCRunStats` chooses it anew for each
line, the first included.

### ClientScripts and TestClient

A script is a sequence of steps: `send` a tag, `settle`, `work`, `start` or
`kill` an application, `set` some settings to a value. `TestClient` executes
one: `StartScript`, `Refuse` (the checks at the top of the msr and powertop
scripts), `LocalStep`, `SendTag`, `Finish`, and `Interrupt`, which leaves
background applications running and settings as they are. A power.d hook is
taken to do what its name says when called with `true` or `false`, and
`pm-powersave` to call all of them; both are external. `Stuck` are powertop
tunables that stay bad whatever is asked for; `backlight_none` is
`backlight-dimming` on a machine without `max_brightness`, where `get_levels()`
answers 0 and `set_level()` does nothing. `killall` goes by the name of a process:
`Thunderbird` is the one `thunderbird` runs under, `thunderbird` or
`thunderbird-bin`. `generic-apps` and `test-lots-apps.sh` kill both names, the
run-apps tests of `pm-tests` only the second. The last section of `TestClient` says
what makes the text of one script sound on its own. A background `msr-test` is one
application here; `MsrLoad` shows that it has ended when its `kill` step says so.

### WakeOnLan, MsrLoad, BusyIo, PowerstatTest

* `WakeOnLan`: `support_g[]` and `state[]` of the scripts are one cell each (bash
  takes a name for index 0) and only `eth1` is asked; `ethtool` may refuse a mode.
* `MsrLoad`: `Tick` is time. A process whose sleep is over runs before the clock
  moves on. Loads and script have no clock in common: the script's two `sendtag`s
  take up to `SendTime` each (`"beginning"` and `"ending"` are the script waiting
  for them), the forks of a load up to `ForkTime`, and a child told to stop up to
  `Slack`. Forks and slack together are assumed to be less than the script rests
  between runs (a turn of a child's loop is well under a second of computing, the
  rest 23 seconds); nothing is assumed of `sendtag`. `consumeFails` is a failing
  `fork()`.
* `BusyIo`: `InodeIo` are the probes, `TimerReports` and `TimerCounts` the timer
  probe. `busyio.py` is Python 2, whose `Popen` opens pipes unbuffered: `readline()`
  takes one line and what `select()` sees is all there is. The wrapper reads two
  streams and must not stop at the end of the first.
* `PowerstatTest`: `stress` are the `stress-ng` processes, `yaml` whose figures
  each file holds; `StressEnds` may come at any time after the start.

### TagPipeline

A datagram is `<<session, step>>`. `ClientSends` puts it in `net`; `Deliver`
hands it to the relay's queue; `Mishap` loses, duplicates or reorders one;
`RelayStep` is the relay's own action; `LogTag`, `LogSample` and `StopLogging`
are the logger; `Analyse` runs statstool's own actions over the finished log.
A sample's reading is its number, so that the properties can tell which samples
a report counted. The initial state is the one README.txt prescribes before a
script is run: relay and logger up. The model does not follow the client once
logging has stopped, since nothing it does then can be seen.

## 3. Runs

| run | instance | shows |
|---|---|---|
| `relay` | 5 datagrams (empty, short, too long, NUL first, NUL later), up to 6 descriptors, queue of 2, 4 arrivals | only C strings are sent, forwarding until exhaustion, queue drained |
| `run_stats` | readings -1, 0, 2, uneven gaps, `tm_isdst` either way at each line, logs that start at noon or two seconds before the end of December, January, February 28 and 29 and April | elapsed time right but for what the month and `tm_isdst` of two lines put in; the four statistics against reference definitions |
| `stats_logs` | a first log of up to 6 lines of run tags, ends and samples, by a clock that also steps back; a second of up to 5 lines of 2 clients, 2 tests, ends and samples; 2 slots; no option, `-x`, `-a -S` | types, ownership, reports equal to a declarative reading of the log, names of reports, extrema exact within the values they start from, no undefined behaviour on bracketed logs, refinement of `RunLog` |
| `scripts` | all 19 scripts (the backlight one with and without `max_brightness`) with 2 iterations, thunderbird under its newer name, one interrupted anywhere, any other run after it | order of tags and waits, nothing left running, `MeasuredAsNamed`, `HooksDisabledAfterwards` |
| `pipeline_whole` | all 19 scripts (`pm-tests` with two of its tests), 2 iterations, 1 sample anywhere, logging stopped anywhere, 46 messages until the relay is exhausted | `HarmlessLosses`, `TestReportedAsRun`, `MeasuredExactly` |
| `pipeline_damaged` | three scripts, `-x`; one tag lost, duplicated or overtaken, or one script interrupted and another run after it | the three, with damage |
| `pipeline_live` | as many descriptors as the idle script sends tags | every tag is logged until descriptors run out |
| `client_tools` | 2 interfaces in every mode and with any support; 2 loads of 2 children, 2 rounds of 5 units with rests of 3, and 1 unit each for `sendtag`, forks and slack; durations 0, 1 and 3 after a delay of 2; 3 tests of 2 iterations | the properties of the four tools, two of them liveness |

Why these bounds suffice. Nothing in the relay depends on more than the head of
the queue and the number of descriptors left; four arrivals pass every limit.
The parser's control depends on the two state bits, on whether `index` is -1, in
range or at its last value, and on whether names are set; two slots and six
lines reach every combination and leave it again, across two tests. The pipeline
properties speak of one sample at a time, so one sample at every position is
enough; two tests show what damage in one does to the other. Scripts are
sequences without branches, so two iterations show what one leaves for the next,
and two sessions what a script leaves for another. Every constant that shortens
a tool (children, seconds, rounds) is at least two where the property is about
the next one; with a run of 5 units and 1 of drift at each end, some of every run
is left in which all the load must be there. Each cfg bounds files, lines, datagrams, samples, sessions and
mishaps by named constants (`MaxArrivals` and `MaxLines` of the pipeline runs are
larger than anything the other bounds allow). Two runs have a constraint besides:
`RunsThenNames` (`stats_logs`) keeps run tags out of the second log and names out
of the first; `OneFault` (`pipeline_damaged`) lets one thing go wrong, in the
network or on the client, and runs a second script only after an interrupted
one. What both leave out, run tags and names mixed in one log and two faults in
one measurement, is not checked; for the parser the theorems of section 4 have
no such bound.

Deadlock is not checked: all these programs end, or run out of the bounded
input.

**Fairness.** `FairSpec` and `PipelineFairSpec` assume that the relay and the
logger, which sit in endless loops on a blocking receive, run again whenever
something is queued, and that the network delivers what it does not lose. The
client is not assumed to do anything. In `client_tools` the processes of the msr
script and time itself go on (`WF` of `MsrStep`, which leaves out the failing
`fork()`), the SystemTap timer fires whatever the I/O, and the wrapper gets to
run when `select()` has something for it (`BusyFairness`).

**The end-to-end properties.**

* `HarmlessLosses`: with no script interrupted and tags in order, losses lead to
  undefined behaviour only if a `TEST_RUN_END` (or, with `-x`, a `TEST_CLIENT`)
  is lost. Without `-a` only: that option opens a run at any sample outside one, so
  that two samples, one after the last run of a test and one after its
  `TEST_END`, are enough to record into `data[-1]` with nothing lost at all. Both exceptions are real: the model reaches `pc = "undefined"` in
  `pipeline_damaged`, without any loss too, by a script interrupted within a run followed by a `pm-tests` test that does not measure
  (`disable-wol` without `ethtool`).
* `TestReportedAsRun`: a test all of whose tags are logged is reported under its
  own name with its own runs, whatever happened before it.
* `MeasuredExactly`: such a report counts exactly the samples taken while the
  client was within a run, but for those taken while a tag was on its way, which
  is to say while the last tag in the log was not the last one sent. (To look at the
  number of tags in the log instead would not do: after one loss and one
  duplication the numbers agree while a tag is still under way.)

**Settings and time.**

* `MeasuredAsNamed`: from the first moment of a run to the last, the setting a
  test is named after is in force, whatever ran before. Three exceptions are built
  into the property, all of them things the code does wrong: a tunable that cannot
  be set is measured as "(Good)" (`Stuck`), the hook of
  `disable-wol-test` is called when the measured sleep is over, and
  `backlight-dimming` measures "Brightness Level 0" with nothing set where there is
  no `max_brightness` (`Unset`).
* `AppsGone`: when a test ends, nothing runs that its script started, whatever was
  interrupted before, and nothing of other scripts unless one was interrupted.
  `Leaves` excepts thunderbird, which `pm-tests` starts and kills by its older name
  only (`journal-commit-test/run-test.sh:38`, `readahead-test/run-test.sh:38`); it
  then runs on under whatever is measured next.
* `HooksDisabledAfterwards`: in `pm-tests` no hook turned on for one test is on
  during another; what `pm-powersave true` turned on (`all-test`,
  `laptop-mode-test`) is never taken back, and the property excepts it, as it does
  hooks that an earlier session left on.
* `ElapsedKept`: within a month time is right, if `tm_isdst` says the same of both
  lines; if not, an hour is lost or added. Over the end of a month it is wrong by
  whole days as well, exactly the difference in length of the two months that follow.
* `LoadedThroughout`: in a run all children are at work, but for `ForkTime` at its
  start and `SendTime` at its end: the loads sleep as long as the script but do not
  wait for `sendtag`, so they end before the run does.
* `WindowCounted`: `busyio` counts `duration + 2` seconds, which is not what it
  announces (see below).
* `LinesInOrder`: what `busyio.py` has written and what is in the pipe are the lines
  the SystemTap script printed, none lost or out of order, and none is left when
  the wrapper exits.
* `ReportAttribution`: a report carries the names its own test announced; with `-x`
  what was not announced is empty, on stdout it is the heading of an earlier test.
* `FiguresOwnOrLate`: a row of `powerstat-measuring` shows figures of another test
  only if both their `stress-ng` processes outlasted `powerstat`. That does
  happen in the model: `wait $pid` waits for nothing.

### Disagreements with the documentation

Four runs state what a document, a comment or a usage text says and end in a
counterexample:

* `relay_leak`: a relay that starts with descriptors to spare stops relaying when
  `sendit()` has leaked them (README.txt: "relays this to port 3500");
* `stats_extract`: with `-x` two tests whose names share their first word, as in
  `mouse/test.sh`, write the same file ("each to a file");
* `stats_stamps`: a run that goes over the end of a month has the wrong duration
  ("test_duration_seconds");
* `wol_restore`: every interface is put into the mode `eth1` was in ("Restore
  original state").

Others were met and have no run of their own. Four of them are built into a
property of a passing run, which holds because it says what the code does:

* `busyio.stp:75` prints "Now recording %d seconds of samples" with the duration asked
  for, and `busyio.py:17` says "Default to run for 60 seconds"; the I/O of two seconds
  more is counted (`WindowCounted`);
* `powertop-tweaks/test.sh:131` prints "Ignoring, cannot set to Good" for a tunable, and
  goes on to measure it under the name "(Good)" (`Stuck` in `MeasuredAsNamed`);
* the comment on `data_t` says "Data set min/max" (`statstool.c:58`), but `x_min` of a
  run that starts more than 1E6 seconds into the log is the 1E6 it was set up with,
  and duration and average are made from it (`InRange` in `ExtremaExact`);
* "Time stamp in format: 2011-12-02T01:03:41.720551" (`statstool.c:81`) names a moment,
  but a run on one day has a duration that is an hour too long or too short when
  `tm_isdst` differs between two of its lines (`Lost` in `ElapsedKept`).

And outside what the properties speak of: with `-a` tags are still acted on ("ignore
any TAGs"); `-S` selects the per-run part, not the "summary for all test runs" of the
usage text; the default `TAGPORT` of `logdata.sh` is 9999, not the 3500 the relay
sends to ("waits for messages from the client via udp-relay"). The pipeline runs
assume the logger listens on 3500.

## 4. Proofs

Proved with TLAPS for all values of the constants.

* `UdpRelay_proofs`: `RelayTypeCorrect` and `RelayForwards`, from `RelayConstants`.
  The inductive invariant `RelayInv` joins the two properties, the count of
  descriptors (each one beyond those inherited and the listening socket belongs to
  a message sent, which is why forwarding ends exactly at `Capacity`) and the fact
  that before `bind` nothing was received or sent and `fds = inherited` (without
  which `Bind` could not establish them). `UpToNul` shows that `strlen()`, which
  counts bytes with no NUL up to them, stops at the first NUL, and `RelayedCString`
  that what is sent is therefore the C string of what was received.
* `Statstool_proofs`: from `StatsConstants` and `BigConstant`,
  * `StatsTypeCorrect` and `StatsSlotsOwned` by `StatsInv`, their conjunction:
    a report is well typed because `index` is within `data[]`, and ownership
    needs the types;
  * `StatsDefined`, by `DefinedInv`, which adds `RunTracked`: the run bit implies
    that the log has an open run; the bit together with `index = -1` implies
    that some `TEST_END` came while a run was open; `arch` is unset only while
    no `TEST_CLIENT` was read. A bracketed log excludes the second, so a sample
    is never recorded in `data[-1]`.

  * `StatsImplementsRunLog`, that `Statstool` implements `RunLog`. `StatsInv` gives
    the types and `index` within `data[]`; lemmas say what each operation on the
    slots is for the sequence of runs read off them (`test_run_begin()` appends a
    run, `AddPoint` a sample to the last, `data_free()` and the reset of `index` drop
    all), and `LogStep` takes the actions one by one. Undefined steps (`pc =
    "undefined"`) leave the state alone and stutter.

  Lemmas say what `test_run_begin()`, `data_free()`, `AddPoint` and
  `data_analyse()` return, and how the history grows by a line.
* `Statstool_reports`: what a report says of the log it was made from, for logs of
  any length and any tags, lost, repeated or reordered.
  * `StatsReportsMatch` (`ReportsMatchLog`). The property compares the report with
    a declarative reading of the whole log, so the invariant has to say at every
    line what the property says at a `TEST_END`: `RunsTracked`, by which
    `data[0..index]` are the runs begun since the last `TEST_END`, each with the
    samples of its stretch so far, the last one open unless a `TEST_RUN_END` has
    followed, and `start_secs` is the first stamp. `Matches` states it of plain
    sets of positions; `MatchesKept`, `MatchesBegin` and `MatchesSample` are the
    three things a line can do to it. The k-th position of a set (`Nth`) is shown
    to be unique and unmoved by later positions (`OneNth`, `ListedMore`).
  * `StatsAttribution` (`ReportAttribution`, a property of the step that writes the
    report), by `NamesTracked`: `hostname`, `arch` and `test` are those announced last
    since the last `TEST_END`, and `heading` shows them if anything was announced. A
    test whose file cannot be created leaves nothing behind.
  * `StatsExtremaClamped`: the extrema of every run are those of its samples *and
    of the values they start from*, 1E6 and -1E6. `StatsExtremaExact` draws the
    conclusion (`ExtremaExact`): they are exact for every run whose samples are within
    that range (`InRange`). The condition is needed: with `Big = 3` in `StatsLogs.cfg` a sample at second 4
    already breaks `MinMaxOf` without it.
  * `StatsLastReport`, of a log read from one file: there are never more reports than
    ended tests, and while there are as many, the last report is that of the test
    that has just ended (`LastReport`). The other theorems speak of the report
    being written; this one lets the measurement speak of the latest. It leans on
    the two before it (`LastInv`).
  * `SamplesCounted` reads the report backwards: a reading is in it if and only if
    some run began before its sample and none has ended since (`WindowsCover`).
    That a set of positions has a least and a greatest element
    (`LeastExists`, `GreatestExists`) comes from the well-foundedness of `<` on the naturals.
* `TestClient_proofs`: from one script to any number of sessions. The theorems
  take as hypotheses what the text of each script says on its own (`WellFormed`,
  `KillsItsApps`, `SetsWhatItNames`, `TakesHooksBack`, in `TestClient`) and show
  that no sequence of sessions, of any length and interrupted anywhere any number
  of times, can break `AppsGone`, `MeasuredAsNamed` or `HooksDisabledAfterwards`
  (`ClientAppsGone`, `ClientMeasuredAsNamed`, `ClientHooksDisabled`;
  `ClientTypeCorrect`). `KillsItsApps` and `SetsWhatItNames` name what a script is known
  not to kill (`Leaves`) or set (`Unset`), and the exceptions of the properties are
  these. `AppsTracked`: whatever runs that this session's script has started (`Held`),
  it has not come to killing; and until a script is interrupted nothing else runs
  but what scripts are known to leave.
  `SettingsTracked`: what this session's script set last is in force; nothing is
  said of what earlier sessions left, and nothing needs to be. The hypotheses are
  not taken on trust: TLC evaluates them for all scripts, with 1 and 2 iterations,
  as the assumption `SoundScripts` of `MCTagPipeline`, with those of
  `TagPipeline_proofs` (under both names of thunderbird). Scripts are built with
  folds over sequences, so that they hold for every number of iterations would
  need induction over data.
* `TagPipeline_proofs`: the whole measurement, for any number of sessions, samples
  and lines and any losses, duplicates and reorderings. The theorems take
  `ScriptsWellFormed` as a hypothesis.
  * `PipelineRunsTool`: every step of the measurement is a step of statstool's own
    specification or leaves statstool alone, on lines of the types that
    specification is about. All theorems about statstool so hold of the logs that
    measurements produce.
  * `LossesHarmless` (`HarmlessLosses`), when the text of every script ends its runs
    before its tests and names its client first (`EndsItsRuns`,
    `NamesItsClient`). `PipelineInv` follows a tag from the script to the tool:
    `HistoryInv` (what was sent is, session by session, the tags of the script in
    their order, up to the step it is at), `PathInv` (everything in the network,
    the relay and the log is a datagram that was sent, and the relay passes on
    what it got as it was), `FileInv` (the tags of the log are the first `taken`
    of those relayed; `Placed` says at which line each stands) and `ReadInv` (the
    lines read so far are what statstool makes of the first lines of the file).
    `OrderInv` adds that what was sent is nowhere repeated and that in a log in the
    order of sending, later lines hold tags sent later. With it `LossesBracketed`
    turns "no `TEST_RUN_END` was lost" into "the log read is bracketed", which is
    the condition of `StatsDefined`: between two tags of one session in the log, what the
    script sent between them was sent, and not lost, so it is in the log between
    them.
  * `WholeTestsReported` (`TestReportedAsRun`), when every script begins a test before
    its runs and ends it before the next (`BracketsItsTests`). `StatsLastReport`
    says what the report has of the section of the log between two `TEST_END`s,
    `SectionLaid` which of the relayed tags stand in that section, and `WholeSent`
    that they were sent one after the other, and nothing between them. Each run of the section so has a `TEST_BEGIN` of its session before
    it (`BeginInSection`), and unless a script was interrupted there is only one
    (`OneBegin`).
  * `SamplesAsTaken` (`MeasuredExactly`), of any well-formed scripts. `SampleInv` adds to
    `PipelineInv` that samples are numbered uniquely and that a sample marked
    `current` was logged after the last tag sent. `SamplesCounted` says when a
    sample is in the report; `OpenWithin` and `CountedAsTaken` turn the run tags before it
    in the log into those the client had sent when it was taken.
* `MsrLoad_proofs`: `MsrNotCarriedOver` and `MsrLoadedThroughout`, for any number of
  loads, children and rounds and all durations that satisfy `MsrConstants`. The
  clocks of processes that never wait for each other are all read against the time
  `e` since the loads were started (`InStepAt`): where the script can be after `e`,
  with `sendtag` taking anything up to `SendTime`, how much of its forks or its sleep a
  load has left, and how much slack a child that was told to stop. `InStep` says
  that there is such an `e`; it grows by one with each `Tick` and is 0 again when the
  next loads start. Both properties follow by comparing two of these.
* `BusyIo_proofs`: `BusyWindow` (`WindowCounted`), by `Countdowns`, which says how
  many turns the two countdowns have made, and `Counted`; `BusyLines`
  (`LinesInOrder`), by `LinesKept`, that after the line that is acted on what is shown
  and what is left in the pipe make up, in this order, what was printed, and
  `EndSeen`, that the end of `stdout` is only seen when the script has ended and the
  pipe is empty.
* `ClientTools_proofs`: `WolLeavesBehind` (`WolLeftBehind`) for any interfaces in any
  order, by what the two loops have done so far (`LoopsSoFar`, `AskedRestored`);
  `PowerstatFigures` (`FiguresOwnOrLate`), by whose figures each file can hold while
  `stress-ng` processes of earlier tests still run (`FilesLate`, `FilesOwn`).

The inductive invariants were checked with TLC on the instances of section 3
before they were proved.

Only model-checked: liveness (`QueueDrains`, `TagsLogged`, `MsrLoadStops`,
`BusyLinesPassedOn`), which is out of the prover's reach; the statistics and time
stamps of `MCRunStats`, whose sums over sequences need induction over data;
`TagOrder` and `SettledFirst`, which are about the text of the scripts alone and
need it for the same reason.

## 5. Not modelled, and why

* Layout and scale of statstool's output; rounding of doubles; lines shorter than
  a stamp, which the logger does not write.
* What a statistic of fewer than two samples should be: the code divides by zero
  and nothing says what is wanted.
* `powerstat-measuring/parse-log.awk`: rewrites text columns as spreadsheet
  formulas. `setup()` of `test.sh`, `on_ac_power`, `logdata.sh` beyond the port:
  start-up of programs.
* `generic-tests/memset-test`, `gzip-test`, `gunzip-test` and the other loads:
  straight-line programs without state.
* `pm-tests/busybox-src`: third-party, compiled as a workload, never run.
  `pm-tests/assets`: data.
* `run_test_set()` and `run_test_unset()` of `pm-tests/all-test`: never called.

## 6. Plan

1. Done: all modules and runs above, and the proofs of section 4.
2. Done: the safety of `TagPipeline`, under hypotheses about the text of each script
   alone, which TLC evaluates for the scripts of the repository.
3. Left to TLC for good: what the last paragraph of section 4 lists.
