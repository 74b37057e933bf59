----------------------------- MODULE MetaXChecks -----------------------------
(***************************************************************************)
(* The daily check of a node with MetaX GPUs: the timer of the detector    *)
(* (detector_metax.go) and the outputs of four tools, read line by line    *)
(* (check_metax.go).                                                       *)
(*                                                                         *)
(* The output of a tool is a sequence of lines, or NoOutput if the tool    *)
(* failed.  A line is a record with fields kind and what:                  *)
(*   "device"   what is the GPU or HCA that the lines below it are about,  *)
(*              NoDevice if the line leaves the name blank                 *)
(*   "reading"  what is the temperature, the ECC count or the port's state *)
(*              (a number, Active for a state that begins with PORT_ACTIVE)*)
(*              and Unreadable if there is none; NaN is a temperature      *)
(*   "other"    any line else                                              *)
(* The listing of GPUs has a "device" line per GPU, with the further field *)
(* status.                                                                 *)
(***************************************************************************)
EXTENDS Integers, FiniteSets, Sequences

CONSTANTS
    Outputs,         \* what the tools may print in a check: records of the Tools
    Configurations,  \* [gpus, temperature, ecc, hcas, schedule]
    NoDevice, NoOutput, Unreadable, NaN, Active,
    Day,             \* the length of a day, in the unit of the schedule
    MaxTime,         \* bound: no check begins later
    MaxDuration      \* bound: how long a check takes

Tools == {"listing", "temperature", "ecc", "ports"}

ASSUME MetaXAssumption ==
    /\ Day \in Nat \ {0} /\ MaxTime \in Nat /\ MaxDuration \in Nat
    /\ \A o \in Outputs, tool \in Tools :
        \/ o[tool] = NoOutput
        \/ Len(o[tool]) \in Nat /\ DOMAIN o[tool] = 1 .. Len(o[tool])
    /\ \A c \in Configurations : c.schedule \in 0 .. Day - 1

VARIABLES
    config,
    now,      \* when the detector last looked at the clock
    due,      \* when its timer fires
    outputs,  \* what the tools print in the check under way, or the last one
    tool,     \* the one whose output is being read, "none" while the timer runs
    at,       \* how many of its lines have been read
    parsed,   \* and what was made of them
    result    \* of the last check: "passed" or "failed", "none" before it ends

checkVars == <<config, now, due, outputs, tool, at, parsed, result>>

------------------------------------------------------------------------------
(* The parsers: parseHotspotTemperatures, parseGPUIntegerMetric and          *)
(* parseHCAStates are one loop.                                              *)

Unread == [ok |-> TRUE, device |-> NoDevice, readings |-> <<>>]

SetReadingFirstCounts(readings, device, what) ==                     \* mutant
    [d \in DOMAIN readings \cup {device} |-> IF d \in DOMAIN readings THEN readings[d] ELSE what]

\* The last reading of a device is the one that stays.
SetReading(readings, device, what) ==
    [d \in DOMAIN readings \cup {device} |-> IF d = device THEN what ELSE readings[d]]

\* A reading counts for the device named last.
ReadLine(p, line) ==
    CASE line.kind = "device" ->
            [ok |-> TRUE, device |-> line.what, readings |-> p.readings]
      [] line.kind = "reading" /\ (p.device = NoDevice \/ line.what = Unreadable) ->
            [ok |-> FALSE, device |-> p.device, readings |-> p.readings]
      [] line.kind = "reading" /\ ~(p.device = NoDevice \/ line.what = Unreadable) ->
            [ok |-> TRUE, device |-> p.device,
             readings |-> SetReading(p.readings, p.device, line.what)]
      [] OTHER -> p

\* parseGPUStatuses.
ReadStatus(p, line) ==
    IF line.kind = "device"
    THEN [ok |-> TRUE, device |-> NoDevice, readings |-> SetReading(p.readings, line.what, line.status)]
    ELSE p

------------------------------------------------------------------------------
(* The checks on what was parsed. *)

EnoughGPUs(readings, required) ==
    Cardinality({gpu \in DOMAIN readings : readings[gpu] = "Available"}) >= required

TooHot(temperature, limit) == temperature # NaN /\ temperature >= limit
TooManyErrors(count, limit) == count > limit

Passes(t, readings) ==
    CASE t = "listing"     -> EnoughGPUs(readings, config.gpus)
      [] t = "temperature" -> \A gpu \in DOMAIN readings : ~TooHot(readings[gpu], config.temperature)
      [] t = "ecc"         -> \A gpu \in DOMAIN readings : ~TooManyErrors(readings[gpu], config.ecc)
      [] t = "ports"       -> \A hca \in config.hcas : hca \in DOMAIN readings /\ readings[hca] = Active

\* Without required HCAs the last tool is not run.
NotRequired(t) == t = "ports" /\ config.hcas = {}

------------------------------------------------------------------------------
(* The schedule. *)

NextCheckTimeToday(time, schedule) ==                                \* mutant
    LET next == (time \div Day) * Day + schedule
    IN IF next >= time THEN next ELSE next + Day

\* At the time of the check the next one is tomorrow's.
NextCheckTime(time, schedule) ==
    LET next == (time \div Day) * Day + schedule
    IN IF next > time THEN next ELSE next + Day

------------------------------------------------------------------------------
(* The detector's goroutine. *)

CheckInit ==
    /\ config \in Configurations
    /\ now \in 0 .. Day - 1
    /\ due = NextCheckTime(now, config.schedule)
    /\ outputs = [t \in Tools |-> NoOutput]
    /\ tool = "none" /\ at = 0 /\ parsed = Unread /\ result = "none"

\* The tool t is run next, or need not be.
Run(t) == tool' = t /\ at' = 0 /\ parsed' = Unread

\* The check is over and the timer set anew.
CheckEnds(r) ==
    /\ result' = r
    /\ tool' = "none" /\ at' = 0 /\ parsed' = Unread
    /\ now' \in due .. due + MaxDuration
    /\ due' = NextCheckTime(now', config.schedule)
    /\ UNCHANGED <<config, outputs>>

\* The timer fires on a node that has GPUs.
CheckBegins ==
    /\ tool = "none" /\ due <= MaxTime
    /\ outputs' \in Outputs
    /\ result' = "none"
    /\ Run("listing")
    /\ UNCHANGED <<config, now, due>>

\* It has none, or the API server does not say.
CheckSkipped ==
    /\ tool = "none" /\ due <= MaxTime
    /\ CheckEnds("none")

Printed == outputs[tool]
AllRead == at = Len(Printed)

LineRead ==
    /\ tool \in Tools /\ ~NotRequired(tool) /\ Printed # NoOutput
    /\ parsed.ok /\ ~AllRead
    /\ at' = at + 1
    /\ parsed' = IF tool = "listing" THEN ReadStatus(parsed, Printed[at + 1])
                                     ELSE ReadLine(parsed, Printed[at + 1])
    /\ UNCHANGED <<config, now, due, outputs, tool, result>>

\* The tool or its parser fails, or the check of what was parsed.
ToolFails ==
    /\ tool \in Tools /\ ~NotRequired(tool)
    /\ \/ Printed = NoOutput
       \/ Printed # NoOutput /\ ~parsed.ok
       \/ Printed # NoOutput /\ parsed.ok /\ AllRead /\ ~Passes(tool, parsed.readings)
    /\ CheckEnds("failed")

ToolPasses ==
    /\ tool \in Tools
    /\ NotRequired(tool) \/ (Printed # NoOutput /\ parsed.ok /\ AllRead /\ Passes(tool, parsed.readings))

\* check runs the tools in this order, up to the first that fails.
NextTool ==
    /\ ToolPasses /\ tool # "ports"
    /\ Run(CASE tool = "listing" -> "temperature" [] tool = "temperature" -> "ecc" [] tool = "ecc" -> "ports")
    /\ UNCHANGED <<config, now, due, outputs, result>>

AllPassed == ToolPasses /\ tool = "ports" /\ CheckEnds("passed")

CheckNext == CheckBegins \/ CheckSkipped \/ LineRead \/ ToolFails \/ NextTool \/ AllPassed

CheckSpec == CheckInit /\ [][CheckNext]_checkVars

------------------------------------------------------------------------------
(* Correctness. *)

Readings(lines) == {i \in DOMAIN lines : lines[i].kind = "reading"}
Headers(lines) == {i \in DOMAIN lines : lines[i].kind = "device"}
Devices(lines) == {lines[i].what : i \in Headers(lines)}

\* The i-th line stands below a header that names the device.
Below(lines, i, device) ==
    \E j \in Headers(lines) : /\ j <= i /\ lines[j].what = device
                              /\ \A k \in Headers(lines) : k <= i => k <= j

\* Every reading says something, of a device.
Legible(lines) ==
    \A i \in Readings(lines) :
        /\ lines[i].what # Unreadable
        /\ \E device \in Devices(lines) \ {NoDevice} : Below(lines, i, device)

\* The i-th line is the last reading of the device.
IsLast(lines, i, device) ==
    /\ i \in Readings(lines) /\ Below(lines, i, device)
    /\ \A k \in Readings(lines) : Below(lines, k, device) => k <= i

\* What it says; the empty set if there is none.
LastOf(lines, device) == {lines[i].what : i \in {j \in Readings(lines) : IsLast(lines, j, device)}}

SaysAvailable(lines, gpu) ==
    \E i \in Headers(lines) :
        /\ lines[i].what = gpu /\ lines[i].status = "Available"
        /\ \A k \in Headers(lines) : lines[k].what = gpu => k <= i

Available(lines) == {gpu \in Devices(lines) : SaysAvailable(lines, gpu)}

Fit ==
    /\ NoOutput \notin {outputs.listing, outputs.temperature, outputs.ecc}
    /\ Cardinality(Available(outputs.listing)) >= config.gpus
    /\ Legible(outputs.temperature) /\ Legible(outputs.ecc)
    /\ \A gpu \in Devices(outputs.temperature) : \A t \in LastOf(outputs.temperature, gpu) :
          ~TooHot(t, config.temperature)
    /\ \A gpu \in Devices(outputs.ecc) : \A n \in LastOf(outputs.ecc, gpu) : ~TooManyErrors(n, config.ecc)
    /\ config.hcas # {} => /\ outputs.ports # NoOutput /\ Legible(outputs.ports)
                           /\ \A hca \in config.hcas : LastOf(outputs.ports, hca) = {Active}

\* A node passes its daily check if and only if enough GPUs say last that they
\* are available, every reading tells whose it is and what it says, and the last
\* one of no GPU is beyond its limit, of every required port active (check
\* 23-57): neither another device's reading nor one that was replaced decides.
NodeJudgedByOwnReadings == result \in {"passed", "failed"} => (result = "passed" <=> Fit)

\* While the timer runs it is set to the first scheduled instant after the moment it
\* was set at: neither the instant that has just been, which would repeat the check
\* at once, nor the day after, however long the check took (nextCheckTime 114-127).
NextCheckIsNext ==
    tool = "none" =>
        /\ due > now /\ due % Day = config.schedule
        /\ \A t \in now + 1 .. due - 1 : t % Day # config.schedule
==============================================================================
