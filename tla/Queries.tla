------------------------------ MODULE Queries ------------------------------
(***************************************************************************)
(* The imports that ask about the machine: GetSystemInfo,                  *)
(* GetNumaHighestNodeNumber, GetProcessGroupAffinity,                      *)
(* GetProcessAffinityMask, GetLogicalProcessorInformation, IsProcessInJob  *)
(* and QueryInformationJobObject.  The loader publishes one snapshot; a    *)
(* query tests its arguments against the snapshot and against the memory   *)
(* of the payload, and stores its answer there.                            *)
(*                                                                         *)
(* A processor mask is the set of its bits.  Memory is a function on the   *)
(* writable addresses; the sizes of what is stored are scaled down.        *)
(***************************************************************************)
EXTENDS ImageMemory, Sequences, FiniteSets

CONSTANTS
  StackRegion,      \* the boot stack, beside the image's regions
  Allocations,      \* [base, end] of live ledger entries and commitments
  QueryPointers,    \* the pointers that callers pass
  QueryHandles,     \* the handles that callers pass, with -1 and 0
  Snapshots,        \* processor snapshots given to the loader and the tests
  JobFacts,         \* job facts of the builds and the tests
  JobClasses,       \* the information classes that callers pass, with 15
  JobLengths,       \* the output lengths that callers pass
  MaskSize,         \* 8, of a processor mask
  InfoSize,         \* 48, of SYSTEM_INFO
  InfoAlignment,    \* 8
  MaxRelationships, \* 64
  InitialBytes,     \* what the payload's memory holds at first
  MaxQueries        \* bound on the calls

CurrentProcess == -1
CurrentJob == 0
CpuRateClass == 15
MaxWeight == 9
MaxRate == 10000
Half == 65536      \* min_rate and max_rate have 16 bits

ASSUME QueryAssumption ==
  /\ {CurrentProcess, 0} \subseteq QueryHandles
  /\ MaskSize \in Nat \ {0} /\ InfoSize \in Nat \ {0}
  /\ InfoAlignment \in Nat \ {0} /\ MaxRelationships \in Nat \ {0}
  /\ InitialBytes \subseteq Nat /\ MaxQueries \in Nat

VARIABLES
  facts,      \* the published snapshot, or <<>>
  job,        \* g_query_job_facts
  bytes,      \* the payload's writable memory
  lastError,  \* g_platform_last_error
  queryHalted,\* fail was called
  queries     \* calls so far

queryVars == <<facts, job, bytes, lastError, queryHalted, queries>>

QueryRegions == ImageRegions \cup {StackRegion}
AllRanges == {r \in QueryRegions : r.writable} \cup Allocations
Writable == UNION {r.base .. (r.end - 1) : r \in AllRanges}

\* Numbers of processors, masks of relationships, groups.
IsSnapshot(s) ==
  /\ s.cores \in Seq(SUBSET Nat) /\ s.packages \in Seq(SUBSET Nat)
  /\ s.caches \in Seq(SUBSET Nat) /\ s.nodes \in Seq([number : Nat, mask : SUBSET Nat])
  /\ s.groups \in Nat

\* Mapped memory: below the end of the address space, no byte of it in the hole,
\* and what is allocated lies beside the image and the stack.
ASSUME LayoutAssumption ==
  /\ WordMax \in Nat /\ QueryPointers \subseteq Nat
  /\ \A r \in Allocations \cup {StackRegion} :
       r.base \in Nat /\ r.end \in Nat /\ r.base < r.end /\ r.end <= WordMax
  /\ Writable \cap Hole = {}
  /\ \A r \in QueryRegions, s \in Allocations : ~RangesOverlap(s.base, s.end, r)
  /\ \A s \in Snapshots : IsSnapshot(s)
  /\ JobLengths \subseteq Nat
  /\ \A j \in JobFacts : {j.rate, j.weight, j.min, j.max} \subseteq Nat /\ j.min < Half

QueryInit ==
  /\ facts = <<>>
  /\ job \in JobFacts
  /\ \E v \in InitialBytes : bytes = [a \in Writable |-> v]
  /\ lastError = 0
  /\ queryHalted = FALSE
  /\ queries = 0

-----------------------------------------------------------------------------
(* The snapshot.                                                           *)

\* Mutant: relationships may share processors.
PartitionMasksSharing(masks, active) ==
  /\ Len(masks) \in 1 .. MaxRelationships
  /\ \A i \in DOMAIN masks : masks[i] # {} /\ masks[i] \subseteq active
  /\ UNION {masks[i] : i \in DOMAIN masks} = active

\* validate_partition_masks, the loop over the masks with what they cover.
PartitionMasks(masks, active) ==
  LET covered[i \in 0 .. Len(masks)] ==
        IF i = 0 THEN {} ELSE covered[i - 1] \cup masks[i]
  IN /\ Len(masks) \in 1 .. MaxRelationships
     /\ \A i \in DOMAIN masks :
          /\ masks[i] # {} /\ masks[i] \subseteq active
          /\ covered[i - 1] \cap masks[i] = {}
     /\ covered[Len(masks)] = active

\* gxos_processor_topology_validate.
TopologyIsValid(s) ==
  /\ s.generation # 0
  /\ s.numbers # <<>>
  /\ s.active # {} /\ Cardinality(s.active) = Len(s.numbers)
  /\ \A i, j \in DOMAIN s.numbers : s.numbers[i] = s.numbers[j] => i = j
  /\ {s.numbers[i] : i \in DOMAIN s.numbers} = s.active
  /\ PartitionMasks(s.cores, s.active)
  /\ \A i, j \in DOMAIN s.nodes : s.nodes[i].number = s.nodes[j].number => i = j
  /\ PartitionMasks([i \in DOMAIN s.nodes |-> s.nodes[i].mask], s.active)
  /\ PartitionMasks(s.packages, s.active)
  /\ Len(s.caches) <= MaxRelationships
  /\ \A i \in DOMAIN s.caches : s.caches[i] # {} /\ s.caches[i] \subseteq s.active

\* The facts of GetProcessGroupAffinity, GetNumaHighestNodeNumber and
\* GetProcessAffinityMask, which are tested again at every call.
GroupFactsAreValid(s) == s.groups >= 1 /\ s.groups <= Len(s.numbers)
NumaFactsAreValid(s) == s.domains >= 1 /\ s.highestNode < s.domains
AffinityFactsAreValid(s) ==
  /\ s.groups = 1
  /\ s.process # {} /\ s.process \subseteq s.active
  /\ Cardinality(s.active) = Len(s.numbers)

\* gxos_system_info_configure and the rest of configure_platform_system_info:
\* once, before the payload starts.
ConfigureSystemInfo(s) ==
  /\ facts = <<>> /\ ~queryHalted
  /\ IF s.active # {} /\ Cardinality(s.active) = Len(s.numbers) /\ TopologyIsValid(s)
       THEN facts' = s /\ UNCHANGED queryHalted
       ELSE queryHalted' = TRUE /\ UNCHANGED facts
  /\ UNCHANGED <<job, bytes, lastError, queries>>

\* The records of GetLogicalProcessorInformation in their order, each a byte.
TopologyRecords(s) ==
  [i \in DOMAIN s.cores |-> 1] \o [i \in DOMAIN s.nodes |-> 2]
    \o [i \in DOMAIN s.packages |-> 3] \o [i \in DOMAIN s.caches |-> 4]

-----------------------------------------------------------------------------
(* Pointers.                                                               *)

Writes == {"writable"}
ReadsAndWrites == {"readable", "writable"}
HasAccess(r, access) == \A right \in access : r[right]

\* The tests that the validators share: null, canonical, no wrap-around, and
\* inside one region with the access.
PointerStatus(a, size, access) ==
  IF a = 0 THEN "null"
  ELSE IF ~IsCanonical(a) THEN "noncanonical"
  ELSE IF a > WordMax - size THEN "overflow"
  ELSE IF ~IsCanonical(a + size - 1) THEN "noncanonical"
  ELSE IF \E r \in FindRange(a, a + size) \cup
                {r \in {StackRegion} : a >= r.base /\ a + size <= r.end} : HasAccess(r, access) THEN "ok"
  ELSE "unwritable"

\* range_is_accessible of the topology: the first region that the range meets
\* decides; a range that meets none may lie in an allocation.
RangeIsAccessible(a, size, access) ==
  LET met == {r \in QueryRegions : RangesOverlap(a, a + size, r)}
  IN /\ a # 0 /\ size # 0 /\ IsCanonical(a)
     /\ a <= WordMax - size /\ IsCanonical(a + size - 1)
     /\ IF met # {}
          THEN \E r \in met : a >= r.base /\ a + size <= r.end /\ HasAccess(r, access)
          ELSE \E r \in Allocations : a >= r.base /\ a + size <= r.end

Store(mem, a, content) ==
  [x \in DOMAIN mem |-> IF x \in a .. (a + Len(content) - 1) THEN content[x - a + 1]
                                                             ELSE mem[x]]

-----------------------------------------------------------------------------
(* The queries.  Each is a function of the call q and of the memory: its   *)
(* status, the memory after it, and the last error (0: unchanged).         *)

Outcome(status, mem, err) == [status |-> status, mem |-> mem, err |-> err]
Refuse(mem, err) == Outcome("refused", mem, err)

ERROR_INVALID_HANDLE == 6
ERROR_ACCESS_DENIED == 5
ERROR_NOT_SUPPORTED == 50
ERROR_INVALID_PARAMETER == 87
ERROR_INSUFFICIENT_BUFFER == 122
ERROR_NOACCESS == 998

\* The answers, as they lie in memory.
MaskContent(mask) == [i \in 1 .. MaskSize |-> Cardinality(mask)]
InfoContent(s) == [i \in 1 .. InfoSize |-> Cardinality(s.active)]
GroupContent(s) == [i \in 1 .. s.groups |-> i - 1]

\* platform_get_system_info: there is no error to return, so it fails.
GetSystemInfo(q, mem) ==
  IF q.a % InfoAlignment = 0 /\ PointerStatus(q.a, InfoSize, Writes) = "ok"
    THEN Outcome("ok", Store(mem, q.a, InfoContent(facts)), 0)
    ELSE Outcome("fail", mem, 0)

GetNumaHighestNode(q, mem) ==
  IF NumaFactsAreValid(facts) /\ PointerStatus(q.a, 1, Writes) = "ok"
    THEN Outcome("ok", Store(mem, q.a, <<facts.highestNode>>), 0)
    ELSE Refuse(mem, ERROR_INVALID_PARAMETER)

\* Mutant: the array is tested, and refused, after the count was stored.
GetProcessGroupAffinityEarly(q, mem) ==
  IF ~GroupFactsAreValid(facts) THEN Refuse(mem, ERROR_INVALID_PARAMETER)
  ELSE IF q.handle # CurrentProcess THEN Refuse(mem, ERROR_INVALID_HANDLE)
  ELSE IF PointerStatus(q.a, 1, ReadsAndWrites) # "ok" THEN Refuse(mem, ERROR_INVALID_PARAMETER)
  ELSE IF mem[q.a] < facts.groups THEN
         Outcome("insufficient", Store(mem, q.a, <<facts.groups>>), ERROR_INSUFFICIENT_BUFFER)
  ELSE IF PointerStatus(q.b, facts.groups, Writes) # "ok" THEN
         Refuse(Store(mem, q.a, <<facts.groups>>), ERROR_INVALID_PARAMETER)
  ELSE
         Outcome("ok", Store(Store(mem, q.b, GroupContent(facts)), q.a, <<facts.groups>>), 0)

\* a: the count, in and out.  b: the array.
GetProcessGroupAffinity(q, mem) ==
  IF ~GroupFactsAreValid(facts) THEN Refuse(mem, ERROR_INVALID_PARAMETER)
  ELSE IF q.handle # CurrentProcess THEN Refuse(mem, ERROR_INVALID_HANDLE)
  ELSE IF PointerStatus(q.a, 1, ReadsAndWrites) # "ok" THEN Refuse(mem, ERROR_INVALID_PARAMETER)
  ELSE IF mem[q.a] < facts.groups THEN
         Outcome("insufficient", Store(mem, q.a, <<facts.groups>>), ERROR_INSUFFICIENT_BUFFER)
  ELSE IF PointerStatus(q.b, facts.groups, Writes) # "ok" THEN Refuse(mem, ERROR_INVALID_PARAMETER)
  ELSE
         Outcome("ok", Store(Store(mem, q.b, GroupContent(facts)), q.a, <<facts.groups>>), 0)

\* a: the process mask.  b: the system mask.  Only equal pointers are refused
\* as aliases.
GetProcessAffinityMask(q, mem) ==
  IF q.handle # CurrentProcess THEN Refuse(mem, ERROR_INVALID_HANDLE)
  ELSE IF ~AffinityFactsAreValid(facts)
       \/ PointerStatus(q.a, MaskSize, Writes) # "ok"
       \/ PointerStatus(q.b, MaskSize, Writes) # "ok"
       \/ q.a = q.b THEN Refuse(mem, ERROR_INVALID_PARAMETER)
  ELSE
         Outcome("ok", Store(Store(mem, q.a, MaskContent(facts.process)),
                             q.b, MaskContent(facts.active)), 0)

\* Mutant: a shorter length than reported is enough.
GetLogicalProcessorInformationShort(q, mem) ==
  LET records == TopologyRecords(facts)
  IN IF ~RangeIsAccessible(q.a, 1, ReadsAndWrites) THEN Refuse(mem, ERROR_INVALID_PARAMETER)
     ELSE IF q.b = 0 \/ mem[q.a] <= Len(records) THEN
            Outcome("insufficient", Store(mem, q.a, <<Len(records)>>), ERROR_INSUFFICIENT_BUFFER)
     ELSE IF ~RangeIsAccessible(q.b, Len(records), Writes) THEN Refuse(mem, ERROR_INVALID_PARAMETER)
     ELSE Outcome("ok", Store(Store(mem, q.b, records), q.a, <<Len(records)>>), 0)

\* a: the length, in and out.  b: the buffer.
GetLogicalProcessorInformation(q, mem) ==
  LET records == TopologyRecords(facts)
  IN IF ~RangeIsAccessible(q.a, 1, ReadsAndWrites) THEN Refuse(mem, ERROR_INVALID_PARAMETER)
     ELSE IF q.b = 0 \/ mem[q.a] < Len(records) THEN
            Outcome("insufficient", Store(mem, q.a, <<Len(records)>>), ERROR_INSUFFICIENT_BUFFER)
     ELSE IF ~RangeIsAccessible(q.b, Len(records), Writes) THEN Refuse(mem, ERROR_INVALID_PARAMETER)
     ELSE Outcome("ok", Store(Store(mem, q.b, records), q.a, <<Len(records)>>), 0)

\* b is the job handle here, which must be null; the last error is not set.
IsProcessInJob(q, mem) ==
  IF q.handle = CurrentProcess /\ q.b = 0 /\ PointerStatus(q.a, 1, Writes) = "ok"
    THEN Outcome("ok", Store(mem, q.a, <<0>>), 0)
    ELSE Refuse(mem, 0)

\* Mutant: the lower end of a range of rates is not held against the upper one.
JobRatesAreValidOneSided ==
  /\ "weight" \in job.flags => job.weight \in 1 .. MaxWeight
  /\ "cap" \in job.flags => job.rate \in 1 .. MaxRate
  /\ "minmax" \in job.flags => job.max \in 1 .. MaxRate

\* The numbers of the mode that the flags name.
JobRatesAreValid ==
  /\ "weight" \in job.flags => job.weight \in 1 .. MaxWeight
  /\ "cap" \in job.flags => job.rate \in 1 .. MaxRate
  /\ "minmax" \in job.flags => job.min <= job.max /\ job.max \in 1 .. MaxRate

\* gxos_query_job_validate_facts: no job has no numbers, and a job has one mode
\* at most, only when rate control is enabled.
JobFactsAreValid ==
  /\ job.supported = CurrentJob /\ job.associated \in {0, 1}
  /\ job.flags \subseteq {"enable", "weight", "cap", "notify", "minmax"}
  /\ IF job.associated = 0
       THEN job.flags = {} /\ {job.rate, job.weight, job.min, job.max} = {0}
       ELSE /\ job.flags # {} => "enable" \in job.flags
            /\ \A m, n \in job.flags \cap {"weight", "cap", "minmax"} : m = n
            /\ JobRatesAreValid

\* JOBOBJECT_CPU_RATE_CONTROL_INFORMATION: the flags, and in the word of its
\* union what the mode calls for, a range in two halves.
JobFlagsWord ==
  (IF "enable" \in job.flags THEN 1 ELSE 0) + (IF "weight" \in job.flags THEN 2 ELSE 0)
    + (IF "cap" \in job.flags THEN 4 ELSE 0) + (IF "notify" \in job.flags THEN 8 ELSE 0)
    + (IF "minmax" \in job.flags THEN 16 ELSE 0)
JobRateWord ==
  IF "weight" \in job.flags THEN job.weight
  ELSE IF "minmax" \in job.flags THEN job.min + Half * job.max
  ELSE job.rate
JobContent == <<JobFlagsWord, JobRateWord>>
JobSize == 2

\* a: the output, a pair of words.  b: the return length, or 0.  An output that
\* is too short is not told the length.
QueryInformationJobObject(q, mem) ==
  LET output == PointerStatus(q.a, JobSize, Writes)
      length == IF q.b = 0 THEN "ok" ELSE PointerStatus(q.b, 1, Writes)
      answered == Store(mem, q.a, JobContent)
  IN IF q.handle # CurrentJob THEN Refuse(mem, ERROR_INVALID_HANDLE)
     ELSE IF q.class # CpuRateClass \/ output = "null" THEN Refuse(mem, ERROR_INVALID_PARAMETER)
     ELSE IF q.length < JobSize THEN Refuse(mem, ERROR_INSUFFICIENT_BUFFER)
     ELSE IF output # "ok" \/ length # "ok" THEN Refuse(mem, ERROR_NOACCESS)
     ELSE IF \/ q.b # 0 /\ RangesOverlap(q.b, q.b + 1, [base |-> q.a, end |-> q.a + JobSize])
             \/ ~JobFactsAreValid THEN Refuse(mem, ERROR_INVALID_PARAMETER)
     ELSE IF job.associated = 0 THEN Refuse(mem, ERROR_ACCESS_DENIED)
     ELSE Outcome("ok", IF q.b = 0 THEN answered ELSE Store(answered, q.b, <<JobSize>>), 0)

QueryKinds == {"system", "numa", "group", "affinity", "logical", "injob", "job"}
Calls ==
  [kind : QueryKinds \ {"job"}, handle : QueryHandles, a : QueryPointers, b : QueryPointers]
    \cup [kind : {"job"}, handle : QueryHandles, a : QueryPointers, b : QueryPointers,
          class : JobClasses, length : JobLengths]

Run(q, mem) ==
  CASE q.kind = "system"   -> GetSystemInfo(q, mem)
    [] q.kind = "numa"     -> GetNumaHighestNode(q, mem)
    [] q.kind = "group"    -> GetProcessGroupAffinity(q, mem)
    [] q.kind = "affinity" -> GetProcessAffinityMask(q, mem)
    [] q.kind = "logical"  -> GetLogicalProcessorInformation(q, mem)
    [] q.kind = "injob"    -> IsProcessInJob(q, mem)
    [] q.kind = "job"      -> QueryInformationJobObject(q, mem)

Query(q) ==
  /\ facts # <<>> /\ ~queryHalted /\ queries < MaxQueries
  /\ queries' = queries + 1
  /\ LET r == Run(q, bytes)
     IN /\ bytes' = r.mem
        /\ lastError' = IF r.err = 0 THEN lastError ELSE r.err
        /\ queryHalted' = (r.status = "fail")
  /\ UNCHANGED <<facts, job>>

\* One action per import: the wrapper takes the answer, sets the last error and
\* records what it saw.
PlatformGetSystemInfo(q) == q.kind = "system" /\ Query(q)
PlatformGetNumaHighestNodeNumber(q) == q.kind = "numa" /\ Query(q)
PlatformGetProcessGroupAffinity(q) == q.kind = "group" /\ Query(q)
PlatformGetProcessAffinityMask(q) == q.kind = "affinity" /\ Query(q)
PlatformGetLogicalProcessorInformation(q) == q.kind = "logical" /\ Query(q)
PlatformIsProcessInJob(q) == q.kind = "injob" /\ Query(q)
PlatformQueryInformationJobObject(q) == q.kind = "job" /\ Query(q)

QueryNext ==
  \/ \E s \in Snapshots : ConfigureSystemInfo(s)
  \/ \E q \in Calls :
       \/ PlatformGetSystemInfo(q) \/ PlatformGetNumaHighestNodeNumber(q)
       \/ PlatformGetProcessGroupAffinity(q) \/ PlatformGetProcessAffinityMask(q)
       \/ PlatformGetLogicalProcessorInformation(q)
       \/ PlatformIsProcessInJob(q) \/ PlatformQueryInformationJobObject(q)

QuerySpec == QueryInit /\ [][QueryNext]_queryVars

-----------------------------------------------------------------------------
(* Safety.                                                                 *)

\* What a call may write: the content of its outputs, as ranges.
Outputs(q) ==
  CASE q.kind = "system"   -> {<<q.a, InfoContent(facts)>>}
    [] q.kind = "numa"     -> {<<q.a, <<facts.highestNode>> >>}
    [] q.kind = "group"    -> {<<q.a, <<facts.groups>> >>, <<q.b, GroupContent(facts)>>}
    [] q.kind = "affinity" -> {<<q.a, MaskContent(facts.process)>>,
                               <<q.b, MaskContent(facts.active)>>}
    [] q.kind = "logical"  -> {<<q.a, <<Len(TopologyRecords(facts))>> >>,
                               <<q.b, TopologyRecords(facts)>>}
    [] q.kind = "injob"    -> {<<q.a, <<0>> >>}
    [] q.kind = "job"      -> {<<q.a, JobContent>>}
                              \cup (IF q.b = 0 THEN {} ELSE {<<q.b, <<JobSize>> >>})
OutputRange(o) == o[1] .. (o[1] + Len(o[2]) - 1)

\* A published topology is one: each processor is in exactly one core, one node
\* and one package, and none of these holds another processor.
PublishedTopologyPartitions ==
  facts # <<>> =>
    \A masks \in {facts.cores, facts.packages,
                  [i \in DOMAIN facts.nodes |-> facts.nodes[i].mask]} :
      /\ \A p \in facts.active : \E i \in DOMAIN masks :
           p \in masks[i] /\ \A j \in DOMAIN masks : p \in masks[j] => i = j
      /\ \A i \in DOMAIN masks : \E p \in facts.active : p \in masks[i]
      /\ \A i \in DOMAIN masks : masks[i] \subseteq facts.active

\* A call that is refused has written nothing; one that is told the length has
\* written the length; one that succeeds has written its outputs and nothing
\* else, and they all hold what was published when they do not overlap.
QueriesWriteTheirOutputs ==
  facts # <<>> => \A q \in Calls :
    LET r == Run(q, bytes)
        changed == {x \in Writable : r.mem[x] # bytes[x]}
    IN CASE r.status \in {"refused", "fail"} -> changed = {}
         [] r.status = "insufficient" -> changed \subseteq {q.a}
         [] OTHER ->
              /\ changed \subseteq UNION {OutputRange(o) : o \in Outputs(q)}
              /\ (\A o, p \in Outputs(q) : o # p => OutputRange(o) \cap OutputRange(p) = {})
                   => \A o \in Outputs(q), x \in Writable :
                        x \in OutputRange(o) => r.mem[x] = o[2][x - o[1] + 1]

\* A caller that is told the length and calls again with a buffer of that length
\* succeeds: anywhere in its memory for the topology, in the image or on the
\* stack for the groups.
RetrySucceeds ==
  facts # <<>> => \A q \in Calls :
    LET first == Run(q, bytes)
        buffer == OutputRange(<<q.b, IF q.kind = "group" THEN GroupContent(facts)
                                     ELSE TopologyRecords(facts)>>)
        ranges == IF q.kind = "group" THEN {r \in QueryRegions : r.writable} ELSE AllRanges
    IN /\ first.status = "insufficient"
       /\ q.b # 0
       /\ \E r \in ranges : buffer \subseteq r.base .. (r.end - 1)
       => Run(q, first.mem).status = "ok"

\* What a caller of QueryInformationJobObject finds in the word of the union is
\* a weight, a rate or a range, as its flags say, and never one that Windows does
\* not allow, although three numbers share the word (validate_facts, local_output).
JobRatesAreSound ==
  facts # <<>> => \A q \in Calls :
    LET r == Run(q, bytes)
        word == r.mem[q.a + 1]
    IN q.kind = "job" /\ r.status = "ok" =>
         /\ "weight" \in job.flags => word \in 1 .. MaxWeight
         /\ "cap" \in job.flags => word \in 1 .. MaxRate
         /\ "minmax" \in job.flags =>
              word % Half <= word \div Half /\ word \div Half \in 1 .. MaxRate

\* The queries tell the truth: what is published is a partition of the
\* processors, what a call writes is what is published, the length it asks for is
\* the length it needs, and a rate is one of the mode it is told with.
QueriesAreTruthful ==
  /\ PublishedTopologyPartitions /\ QueriesWriteTheirOutputs
  /\ RetrySucceeds /\ JobRatesAreSound
=============================================================================
