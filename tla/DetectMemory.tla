---------------------------- MODULE DetectMemory -----------------------------
(***************************************************************************)
(* detect_memory of loader/loader16.c: the loop that asks the BIOS (int    *)
(* 0x15, service 0xE820) for the memory map, one entry per call.  The BIOS *)
(* is external: a call with continuation n answers with entry n + 1 of the *)
(* map and the next continuation, 0 after the last entry; or it fails.     *)
(*                                                                         *)
(* Addresses and lengths of the map have two words.  boot_info has room    *)
(* for the low ones, so that a region of it is modulo UINT_MOD.            *)
(***************************************************************************)
EXTENDS Integers, SequencesExt

CONSTANTS
  BOOT_RAM_REGION_MAX,  \* room for regions in boot_info
  UINT_MOD,             \* one more than the largest uint32_t
  Entries,              \* entries a BIOS's map may have
  MaxEntries,           \* bound: how many
  LastIgnored           \* whether the map's last entry may be one to ignore

ASSUME DetectMemoryAssumption ==
  /\ BOOT_RAM_REGION_MAX \in Nat \ {0, 1}
  /\ UINT_MOD \in Nat \ {0}
  /\ MaxEntries \in Nat \ {0}
  /\ LastIgnored \subseteq BOOLEAN

\* SMAP_entry_t, as the BIOS fills it in: the bytes of the entry, bit 0 of
\* ACPI (not filled in when bytes is 20), the type, and both words of the base
\* and of the length.
ASSUME EntriesAssumption ==
  \A e \in Entries :
    /\ e.bytes \in {20, 24} /\ e.ACPI \in {0, 1}
    /\ {e.Type, e.Base, e.Length} \subseteq Nat

VARIABLES
  map,       \* the BIOS's memory map
  contID,    \* the continuation the next call is made with
  regions,   \* boot_info.ram_region_info, up to boot_info.count
  detect,    \* "loop" while in the loop, then "ok" or "failed"
  finished   \* auxiliary: the BIOS has said that there is no next entry

memVars == <<map, contID, regions, detect, finished>>

\* As in ACPI 3.0, where bit 0 = 0 says that the entry is to be ignored.  The
\* comment at the field's declaration says it of bit 0 = 1.
ignored(e) == e.bytes > 20 /\ e.ACPI = 0

\* BaseL and LengthL.
region(e) == [start |-> e.Base % UINT_MOD, size |-> e.Length % UINT_MOD]

MapsOK == {m \in UNION {[1 .. n -> Entries] : n \in 1 .. MaxEntries} :
             ignored(m[Len(m)]) \in LastIgnored}

MemInit ==
  /\ map \in MapsOK
  /\ contID = 0
  /\ regions = <<>>
  /\ detect = "loop"
  /\ finished = FALSE

bios_next == IF contID + 1 = Len(map) THEN 0 ELSE contID + 1

\* The signature of the answer is wrong.
detect_fail ==
  /\ detect = "loop"
  /\ detect' = "failed"
  /\ UNCHANGED <<map, contID, regions, finished>>

\* mutant of detect_done: tests for a full table only
detect_done_full(rs, next) == Len(rs) = BOOT_RAM_REGION_MAX - 1

detect_done(rs, next) == next = 0 \/ Len(rs) = BOOT_RAM_REGION_MAX - 1

\* One iteration.  An entry to ignore skips the test for the end of the map.
detect_memory ==
  /\ detect = "loop"
  /\ contID' = bios_next
  /\ finished' = (finished \/ bios_next = 0)
  /\ LET e == map[contID + 1]
     IN  \/ /\ ignored(e)
            /\ UNCHANGED <<regions, detect>>
         \/ /\ ~ignored(e)
            /\ regions' = IF e.Type = 1 THEN Append(regions, region(e))
                                        ELSE regions
            /\ detect' = IF detect_done(regions', contID') THEN "ok"
                                                           ELSE "loop"
  /\ UNCHANGED map

-----------------------------------------------------------------------------

\* The loop should record entry k, as the region with number Rank(k).
Usable(k) == map[k].Type = 1 /\ ~ignored(map[k])
Rank(k) == Cardinality({j \in 1 .. k : Usable(j)})

\* boot_info has room for the entry's base and length.
Below4G(e) == e.Base < UINT_MOD /\ e.Length < UINT_MOD

\* There is one region for each usable entry of the first m, in order, and it
\* is where the entry says, below 4 GB.
Recorded(m) ==
  /\ Len(regions) = Rank(m)
  /\ \A k \in 1 .. m : Usable(k) /\ Below4G(map[k]) =>
       regions[Rank(k)] = [start |-> map[k].Base, size |-> map[k].Length]

\* boot_info always has room for one region more; when the loop has ended
\* well, it has one region for each usable entry of the map, in order, or for
\* the first of them when there are too many.  Base and length are the entry's
\* when they are below 4 GB; of a region above, nothing is said: detect_memory
\* records it where its low words say, a place it is not at.
RegionsRight ==
  /\ Len(regions) < BOOT_RAM_REGION_MAX
  /\ detect = "ok" =>
       \E m \in 1 .. Len(map) :
         /\ Recorded(m)
         /\ m = Len(map) \/ Len(regions) = BOOT_RAM_REGION_MAX - 1

\* When the BIOS has answered with EBX = 0 the map has been read, and there is
\* no further call.
ReadOnce == finished => detect # "loop"

=============================================================================
