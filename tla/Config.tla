------------------------------- MODULE Config -------------------------------
(***************************************************************************)
(* Configuration of both products: the text of a value and its validators  *)
(* (bio_config_validator.h), the configuration class that reads a file     *)
(* (bio_config.h, bio_config_kv_reader.h), what the server takes from it   *)
(* (bio_config_instance.cpp), and the three files that carry a new disk    *)
(* over a restart.  MemStore has its own copy of the validators and of the *)
(* class; where a copy does the same its definition says so.               *)
(*                                                                         *)
(* A text is a sequence of tokens: numerals, words, paths and separators.  *)
(* A numeral stands for its digits, so strtol reads a text up to the end   *)
(* of its first token.  Floats, which no key has, numerals beyond a long   *)
(* and blanks, which are trimmed, are left out.                            *)
(***************************************************************************)
EXTENDS Integers, Sequences, FiniteSets, SequencesExt, FiniteSetsExt

CONSTANTS
  Numeral,        \* the numerals and their values
  Canonical,      \* the paths that exist and what realpath makes of them
  Addable,        \* the paths an operator may add as disks
  IntMax,         \* INT32_MAX
  OctetBits,      \* bits of a segment of an address, 8
  PORT_MAX,       \* 0xFFFF
  Local,          \* the addresses of the node, in the order of getifaddrs
  SysFreeMem,     \* GetSysFreeMemCap, in GB
  DISK_DEV_NUM,   \* disks in use at most, 4
  DISK_MAX_SIZE,  \* disks at most, 16
  CpuNum,         \* GetDeviceCpuNum
  NumaNum,        \* GetNumaNodeNum, or -1 without NUMA
  MinDepth,       \* events of a notification queue at least, 1024
  MaxWorkers,     \* NOTIFY_SHM_MAX_WORKERS
  MAX_NUMAS_NUM, MAX_GROUPS_NUM,
  MAX_CPUS,       \* cpus of a set at most, 256
  NumaLimit,      \* 2^16
  Probe,          \* validators and texts to try on them
  BioFiles,       \* configuration files of BoostIO to start from, and what may happen
  MmsFiles        \* configuration files of MemStore

VARIABLES
  pc,      \* where the process is; "down" when there is none
  file,    \* bio.conf, bio.conf.bak and bio.conf.bak.init: their lines, or None
  arg,     \* the device that is being added
  mem,     \* the configuration in memory
  bdm,     \* the devices by disk id, as BDM has them
  acked,   \* ids and their devices, as the cluster was told (history)
  spoilt,  \* what has happened that the file protocol does not survive (history)
  probe,   \* the validator and the text that are tried
  left     \* what may still happen

vars == <<pc, file, arg, mem, bdm, acked, spoilt, probe, left>>

None == <<[key |-> "", text |-> <<>>, comment |-> TRUE]>>
NoMem == [ok |-> FALSE]

-----------------------------------------------------------------------------
(* Texts (bio_str_util.h).  Split gives the pieces between separators; an  *)
(* empty piece at the end is not one.                                      *)
Pieces(t, sep) ==
  LET at == {0} \cup {i \in 1 .. Len(t) : t[i] = sep}
      cut == [k \in 1 .. Cardinality(at) |-> CHOOSE i \in at : Cardinality({j \in at : j <= i}) = k]
      end(k) == IF k < Len(cut) THEN cut[k + 1] - 1 ELSE Len(t)
  IN  [k \in 1 .. Len(cut) |-> SubSeq(t, cut[k] + 1, end(k))]

\* A mutant of Split: the empty piece at the end counts.
SplitKeepsEnd(t, sep) == Pieces(t, sep)

Split(t, sep) ==
  IF Last(Pieces(t, sep)) = <<>> THEN Front(Pieces(t, sep)) ELSE Pieces(t, sep)

\* strtol, and whether it read the whole text; zero must be spelled "0".
StrToLong(t) ==
  LET v == IF t # <<>> /\ t[1] \in DOMAIN Numeral THEN Numeral[t[1]] ELSE 0
  IN  [value |-> v, ok |-> Len(t) = 1 /\ t[1] \in DOMAIN Numeral /\ (v = 0 => t[1] = "0")]

MmsSplit(t, sep) == Split(t, sep)

\* strtoul; a sign makes the value larger than UINT32_MAX.
StrToUint32(t) ==
  LET v == IF t # <<>> /\ t[1] \in DOMAIN Numeral THEN Numeral[t[1]] ELSE 0
  IN  [value |-> v, ok |-> Len(t) = 1 /\ t[1] \in DOMAIN Numeral /\ v >= 0]

Number(t, lo, hi) == StrToLong(t).ok /\ StrToLong(t).value \in lo .. hi

-----------------------------------------------------------------------------
(* The validators (bio_config_validator.h) *)

\* The ends are read with strtol whether or not it succeeds.
VStrRange(t, lo, hi) ==
  \E i \in 1 .. Len(t) :
    /\ t[i] = "~" /\ \A j \in 1 .. i - 1 : t[j] # "~"
    /\ LET val1 == SubSeq(t, 1, i - 1)
           val2 == SubSeq(t, i + 1, Len(t))
           Read(v) == StrToLong(v).value
       IN  /\ \A v \in {val1, val2} : v # <<>> /\ Read(v) # -1 /\ (Read(v) = 0 => v = <<"0">>)
           /\ Read(val1) >= lo /\ Read(val2) <= hi

VStrEnum(t, enum) == \E e \in enum : t = <<e>>
VStrNotNull(t) == t # <<>>
VIntRange(v, lo, hi) == v >= lo /\ v <= hi
VLongRange(v, lo, hi) == v >= lo /\ v <= hi

VStrArray(t, lo, hi, count) ==
  LET items == Split(t, ",") IN Len(items) = count /\ \A i \in 1 .. count : Number(items[i], lo, hi)

VIpv4Validator(t) ==
  LET ip == Split(t, ".") IN Len(ip) = 4 /\ \A i \in 1 .. 4 : Number(ip[i], 0, 2 ^ OctetBits - 1)

VIpv4MaskValidator(t) ==
  LET parts == Split(t, "/")
  IN  Len(parts) = 2 /\ Number(parts[2], 0, 4 * OctetBits) /\ VIpv4Validator(parts[1])

VIpv4PortValidator(t) ==
  LET parts == Split(t, ":")
  IN  Len(parts) = 2 /\ Number(parts[2], 0, PORT_MAX) /\ VIpv4Validator(parts[1])

VIpv4PortListValidator(t) ==
  /\ t # <<>> /\ Split(t, ",") # <<>>
  /\ \A i \in DOMAIN Split(t, ",") : VIpv4PortValidator(Split(t, ",")[i])

\* Here a token is a character.
VFilePermission(t, ordered) ==
  /\ Len(t) = 3 /\ \A i \in 1 .. 3 : t[i] \in {"7", "6", "5", "4", "0"}
  /\ t[1] # "0"
  /\ ordered => Numeral[t[1]] >= Numeral[t[2]] /\ Numeral[t[2]] >= Numeral[t[3]]

VStrRatio(t) ==
  LET ratios == Split(t, ":")
  IN  /\ t # <<>> /\ Len(ratios) = 2
      /\ Number(ratios[1], 0, 10) /\ Number(ratios[2], 0, 10)
      /\ StrToLong(ratios[1]).value + StrToLong(ratios[2]).value = 10

VStrRealPath(t) == Len(t) = 1 /\ t[1] \in DOMAIN Canonical

VStrCephPool(t) ==
  /\ t # <<>>
  /\ \A i \in DOMAIN Split(t, ",") :
       LET entry == Split(Split(t, ",")[i], ":")
       IN  Len(entry) = 2 /\ StrToLong(entry[1]).ok /\ StrToLong(entry[1]).value >= 0

VStrBoolRange(t) == t \in {<<"true">>, <<"false">>}

\* Validator::Validate of a string: the ones for numbers keep the default, true.
\* Where a validator lets the empty text pass, "empty" says so.
ValidateStr(v, t) ==
  \/ v.empty /\ t = <<>>
  \/ CASE v.kind = "range"      -> VStrRange(t, v.lo, v.hi)
       [] v.kind = "array"      -> VStrArray(t, v.lo, v.hi, v.count)
       [] v.kind = "enum"       -> VStrEnum(t, v.enum)
       [] v.kind = "notnull"    -> VStrNotNull(t)
       [] v.kind = "mask"       -> VIpv4MaskValidator(t)
       [] v.kind = "ip"         -> VIpv4Validator(t)
       [] v.kind = "port"       -> VIpv4PortValidator(t)
       [] v.kind = "ports"      -> VIpv4PortListValidator(t)
       [] v.kind = "permission" -> VFilePermission(t, v.ordered)
       [] v.kind = "ratio"      -> VStrRatio(t)
       [] v.kind = "path"       -> VStrRealPath(t)
       [] v.kind = "pool"       -> VStrCephPool(t)
       [] v.kind = "bool"       -> VStrBoolRange(t)
       [] OTHER                 -> TRUE

\* MemStore's copy of the validators (mms_config_validator.h), the same line by line
MmsVStrRange(t, lo, hi) == VStrRange(t, lo, hi)
MmsVStrEnum(t, enum) == VStrEnum(t, enum)
MmsVStrNotNull(t) == VStrNotNull(t)
MmsVIntRange(v, lo, hi) == VIntRange(v, lo, hi)
MmsVLongRange(v, lo, hi) == VLongRange(v, lo, hi)
MmsVStrArray(t, lo, hi, count) == VStrArray(t, lo, hi, count)
MmsVIpv4MaskValidator(t) == VIpv4MaskValidator(t)
MmsVIpv4Validator(t) == VIpv4Validator(t)
MmsVIpv4PortValidator(t) == VIpv4PortValidator(t)
MmsVIpv4PortListValidator(t) == VIpv4PortListValidator(t)
MmsVFilePermission(t, ordered) == VFilePermission(t, ordered)
MmsVStrRatio(t) == VStrRatio(t)
MmsVStrRealPath(t) == VStrRealPath(t)
MmsVStrCephPool(t) == VStrCephPool(t)
MmsVStrBoolRange(t) == VStrBoolRange(t)

MmsValidateStr(v, t) ==
  \/ v.empty /\ t = <<>>
  \/ CASE v.kind = "range"      -> MmsVStrRange(t, v.lo, v.hi)
       [] v.kind = "array"      -> MmsVStrArray(t, v.lo, v.hi, v.count)
       [] v.kind = "enum"       -> MmsVStrEnum(t, v.enum)
       [] v.kind = "notnull"    -> MmsVStrNotNull(t)
       [] v.kind = "mask"       -> MmsVIpv4MaskValidator(t)
       [] v.kind = "ip"         -> MmsVIpv4Validator(t)
       [] v.kind = "port"       -> MmsVIpv4PortValidator(t)
       [] v.kind = "ports"      -> MmsVIpv4PortListValidator(t)
       [] v.kind = "permission" -> MmsVFilePermission(t, v.ordered)
       [] v.kind = "ratio"      -> MmsVStrRatio(t)
       [] v.kind = "path"       -> MmsVStrRealPath(t)
       [] v.kind = "pool"       -> MmsVStrCephPool(t)
       [] v.kind = "bool"       -> MmsVStrBoolRange(t)
       [] OTHER                 -> TRUE

\* Validator::Validate of a number: the ones for strings keep the default, true.
ValidateInt(v, n) == v.kind = "int" => VIntRange(n, v.lo, v.hi)
ValidateLong(v, n) == v.kind = "long" => VLongRange(n, v.lo, v.hi)
MmsValidateInt(v, n) == v.kind = "int" => MmsVIntRange(n, v.lo, v.hi)

\* Validator::Initialize
Usable(v) ==
  /\ v.kind \in {"range", "array", "int"} => v.lo < v.hi
  /\ v.kind = "long" => v.lo <= v.hi
  /\ v.kind = "enum" => v.enum # {}

Free == [kind |-> "free", empty |-> FALSE]
Plain(kind) == [kind |-> kind, empty |-> FALSE]
Enum(set) == [kind |-> "enum", empty |-> FALSE, enum |-> set]
IntRange(low, high) == [kind |-> "int", empty |-> FALSE, lo |-> low, hi |-> high]

-----------------------------------------------------------------------------
(* The configuration class (bio_config.h, bio_config_kv_reader.h).  A file *)
(* is a sequence of lines [key, text, comment]; a schema gives every key   *)
(* its default, its validator and the validator's tag.                     *)

\* KVReader::FromFile: comments are skipped, the last line of a key counts.
FromFile(f) ==
  LET at == {i \in DOMAIN f : ~f[i].comment}
  IN  [k \in {f[i].key : i \in at} |-> f[Max({i \in at : f[i].key = k})].text]

MmsFromFile(f) == FromFile(f)

\* SetWithTypeAutoConvert succeeds; a long below INT32_MIN is cut to 32 bits.
Settable(schema, key, text) ==
  /\ key \in DOMAIN schema.int \cup DOMAIN schema.str
  /\ key \in DOMAIN schema.int => StrToLong(text).ok /\ StrToLong(text).value <= IntMax

\* MemStore does not look for a number above INT32_MAX.
MmsSettable(schema, key, text) ==
  /\ key \in DOMAIN schema.int \cup DOMAIN schema.str
  /\ key \in DOMAIN schema.int => StrToLong(text).ok

\* static_cast<int32_t>
Wrap(n) == ((n + IntMax + 1) % (2 * (IntMax + 1))) - IntMax - 1

\* ReadConf: the values of the file over the defaults.
ReadConf(schema, items) ==
  [int |-> [k \in DOMAIN schema.int |->
              IF k \in DOMAIN items THEN Wrap(StrToLong(items[k]).value) ELSE schema.int[k].def],
   str |-> [k \in DOMAIN schema.str |-> IF k \in DOMAIN items THEN items[k] ELSE schema.str[k].def]]

MmsReadConf(schema, items) == ReadConf(schema, items)

\* Validate finds no error among the keys of a tag.
Validate(schema, conf, tag) ==
  /\ \A k \in DOMAIN schema.int : schema.int[k].tag = tag =>
       Usable(schema.int[k].v) /\ ValidateInt(schema.int[k].v, conf.int[k])
  /\ \A k \in DOMAIN schema.str : schema.str[k].tag = tag =>
       Usable(schema.str[k].v) /\ ValidateStr(schema.str[k].v, conf.str[k])

MmsValidate(schema, conf, tag) ==
  /\ \A k \in DOMAIN schema.int : schema.int[k].tag = tag =>
       Usable(schema.int[k].v) /\ MmsValidateInt(schema.int[k].v, conf.int[k])
  /\ \A k \in DOMAIN schema.str : schema.str[k].tag = tag =>
       Usable(schema.str[k].v) /\ MmsValidateStr(schema.str[k].v, conf.str[k])

\* Dump and MergeConf: another configuration, written out and read again.
Merge(schema, conf) ==
  LET items == [k \in DOMAIN conf.int \cup DOMAIN conf.str |->
                  IF k \in DOMAIN conf.int
                  THEN <<CHOOSE s \in DOMAIN Numeral : Numeral[s] = conf.int[k] /\ (Numeral[s] = 0 => s = "0")>>
                  ELSE conf.str[k]]
  IN  ReadConf(schema, items)

MmsMerge(schema, conf) == Merge(schema, conf)

-----------------------------------------------------------------------------
(* BoostIO's configuration (bio_config_instance.cpp).  The keys are those  *)
(* whose value decides anything; one stands for all that are checked with  *)
(* the same validator and copied.                                          *)

Key(default, v) == [def |-> default, v |-> v, tag |-> 0]

\* One key of each kind and its default
BioDefaults ==
  [port |-> 7201, mem |-> 50, water |-> 90, copy_num |-> 2,
   level |-> <<"info">>, scene |-> <<"none">>, crc |-> <<"false">>,
   ip_mask |-> <<"1", ".", "0", ".", "0", ".", "1", "/", "6">>,
   disk |-> <<"xxx", ":", "xxx", ":", "xxx">>, ratio |-> <<"5", ":", "5">>,
   zk_host |-> <<"1", ".", "0", ".", "0", ".", "1", ":", "2">>,
   cfg |-> <<"ceph.conf">>, user |-> <<"admin">>,
   pool |-> <<"0", ":", "pool1", ",", "1", ":", "pool2">>,
   tls |-> <<"true">>, ca |-> <<"cacert.pem">>, crl |-> <<>>,
   exposer |-> <<"1", ".", "0", ".", "0", ".", "1", ":", "4">>]

\* LoadDefaultConf.  The validator of copy_num is one for strings.
BioSchema ==
  LET d == BioDefaults IN
  [int |-> [port     |-> Key(d.port, IntRange(7201, 7800)),
            mem      |-> Key(d.mem, IntRange(0, 512)),
            water    |-> Key(d.water, IntRange(0, 100)),
            copy_num |-> Key(d.copy_num, Enum({"2"}))],
   str |-> [level    |-> Key(d.level, Enum({"error", "warn", "info", "debug", "trace"})),
            scene    |-> Key(d.scene, Enum({"none", "bigdata"})),
            crc      |-> Key(d.crc, Plain("bool")),
            ip_mask  |-> Key(d.ip_mask, Plain("mask")),
            disk     |-> Key(d.disk, Free),
            ratio    |-> Key(d.ratio, Plain("ratio")),
            zk_host  |-> Key(d.zk_host, Plain("ports")),
            cfg      |-> Key(d.cfg, Plain("path")),
            user     |-> Key(d.user, Plain("notnull")),
            pool     |-> Key(d.pool, Plain("pool")),
            tls      |-> Key(d.tls, Plain("bool")),
            ca       |-> Key(d.ca, Free),
            crl      |-> Key(d.crl, Free),
            exposer  |-> Key(d.exposer, Plain("port"))]]

Address(ip) == ip[1] + 2 ^ OctetBits * (ip[2] + 2 ^ OctetBits * (ip[3] + 2 ^ OctetBits * ip[4]))

\* IpMaskToAddress.  inet_addr takes no dot at the end, and its value for the
\* highest address means an error.  The first segment is the lowest in memory.
\* No bits to compare make a shift by 32, which may as well shift by none.
IpMaskToAddress(t) ==
  LET parts == Split(t, "/")
      ip == [i \in 1 .. 4 |-> StrToLong(Split(parts[1], ".")[i]).value]
      width == StrToLong(parts[2]).value
  IN  IF \/ Len(parts) # 2 \/ ~Number(parts[2], 0, 4 * OctetBits)
         \/ Last(parts[1]) = "." \/ Address(ip) = 2 ^ (4 * OctetBits) - 1
      THEN {}
      ELSE {[ip |-> Address(ip), width |-> w] : w \in IF width = 0 THEN {0, 4 * OctetBits} ELSE {width}}

\* FilterIpByMask, for one result of IpMaskToAddress
FilterIpByMask(m) ==
  SelectSeq(Local, LAMBDA ip : Address(ip) % 2 ^ m.width = m.ip % 2 ^ m.width)

MmsFilterIpByMask(m) == FilterIpByMask(m)

AutoConfigNet(conf, m) ==
  /\ FilterIpByMask(m) # <<>>
  /\ conf.str.tls = <<"true">> =>
       /\ VStrRealPath(conf.str.ca)
       /\ conf.str.crl # <<>> => VStrRealPath(conf.str.crl)

AutoConfigDaemonLogAndOther(conf) ==
  /\ \E l \in {"trace", "debug", "info", "warn", "error"} : conf.str.level = <<l>>
  /\ \E s \in {"none", "bigdata"} : conf.str.scene = <<s>>

AutoConfigDaemonCache(conf) == conf.int.mem <= SysFreeMem

AutoConfigDaemonDisk(conf) ==
  LET diskList == Split(conf.str.disk, ":")
  IN  Len(diskList) <= DISK_DEV_NUM /\ \A i \in DOMAIN diskList : VStrRealPath(diskList[i])

\* AutoConfigUnderFs: of two pools with the same id the first is kept.
Pools(conf) ==
  LET entry == [i \in DOMAIN Split(conf.str.pool, ",") |-> Split(Split(conf.str.pool, ",")[i], ":")]
      Id(i) == StrToLong(entry[i][1]).value
  IN  [id \in {Id(i) : i \in DOMAIN entry} |-> entry[Min({i \in DOMAIN entry : Id(i) = id})][2]]

\* What the server keeps of it; without a disk it has no memory either.
Taken(conf, m) ==
  LET diskList == Split(conf.str.disk, ":")
      ratios == Split(conf.str.ratio, ":")
  IN  [ok     |-> TRUE,
       conf   |-> conf,
       dataIp |-> FilterIpByMask(m)[1],
       disks  |-> [i \in DOMAIN diskList |-> Canonical[diskList[i][1]]],
       memCap |-> IF diskList = <<>> THEN 0 ELSE conf.int.mem,
       ratio  |-> <<StrToLong(ratios[1]).value, StrToLong(ratios[2]).value>>,
       pools  |-> Pools(conf)]

\* Initialize, once the files are in place: every outcome there may be
Initialized(f) ==
  LET items == FromFile(f)
      conf == ReadConf(BioSchema, items)
      masks == IpMaskToAddress(conf.str.ip_mask)
  IN  IF /\ f # None
         /\ \A k \in DOMAIN items : Settable(BioSchema, k, items[k])
         /\ Validate(BioSchema, conf, 0)
         /\ AutoConfigDaemonLogAndOther(conf) /\ AutoConfigDaemonCache(conf) /\ AutoConfigDaemonDisk(conf)
         /\ masks # {}
      THEN {IF AutoConfigNet(conf, m) THEN Taken(conf, m) ELSE NoMem : m \in masks}
      ELSE {NoMem}

-----------------------------------------------------------------------------
(* The three files over starts, additions of disks, failures and crashes.  *)

\* The reasons why a disk that is added now is not found by a later start
Spoils ==
  LET named == {i \in DOMAIN file.conf : file.conf[i].key = "disk"}
  IN  {r \in {"comment", "empty", "over", "skew"} :
         \/ r = "comment" /\ file.conf # None /\ named # {} /\ file.conf[Min(named)].comment
         \/ r = "empty" /\ mem.disks = <<>>
         \/ r = "over" /\ Len(mem.disks) >= DISK_DEV_NUM
         \/ r = "skew" /\ Len(bdm) # Len(mem.disks)}

\* RenameFile and RemoveFile, when they succeed
RenameFile(from, to) == file' = [[file EXCEPT ![to] = file[from]] EXCEPT ![from] = None]
RemoveFile(name) == file' = [file EXCEPT ![name] = None]

Fail == left.fail > 0 /\ left' = [left EXCEPT !.fail = @ - 1]

Start ==
  /\ pc = "down" /\ pc' = "init2bak"
  /\ UNCHANGED <<file, arg, mem, bdm, acked, spoilt, probe, left>>

\* BakFileProcess, step 1: .bak.init becomes .bak; a failure is only logged.
InitToBak ==
  /\ pc = "init2bak"
  /\ \/ file.init = None /\ UNCHANGED <<file, spoilt, left>>
     \/ /\ file.init # None /\ RenameFile("init", "bak")
        /\ UNCHANGED <<spoilt, left>>
     \/ file.init # None /\ Fail /\ spoilt' = spoilt \cup {"warned"} /\ UNCHANGED file
  /\ pc' = IF file'.bak = None THEN "load" ELSE "rmconf"
  /\ UNCHANGED <<arg, mem, bdm, acked, probe>>

\* Steps 2 and 3: with a .bak the old file goes ...
RemoveConf ==
  /\ pc = "rmconf"
  /\ \/ RemoveFile("conf") /\ pc' = "bak2conf" /\ UNCHANGED <<spoilt, left>>
     \/ /\ file.conf # None /\ Fail /\ pc' = "load" /\ spoilt' = spoilt \cup {"warned"}
        /\ UNCHANGED file
  /\ UNCHANGED <<arg, mem, bdm, acked, probe>>

\* ... and .bak takes its place.
BakToConf ==
  /\ pc = "bak2conf"
  /\ \/ RenameFile("bak", "conf") /\ UNCHANGED <<spoilt, left>>
     \/ Fail /\ spoilt' = spoilt \cup {"warned"} /\ UNCHANGED file
  /\ pc' = "load"
  /\ UNCHANGED <<arg, mem, bdm, acked, probe>>

\* Initialize; BDM opens the disks of the list and the cluster is told of them.
Load ==
  /\ pc = "load"
  /\ mem' \in Initialized(file.conf)
  /\ IF mem'.ok
     THEN /\ pc' = "running" /\ bdm' = mem'.disks
          /\ acked' = acked \cup {<<id, mem'.disks[id]>> : id \in DOMAIN mem'.disks}
     ELSE pc' = "refused" /\ UNCHANGED <<bdm, acked>>
  /\ UNCHANGED <<file, arg, spoilt, probe, left>>

\* The server that has not come up exits.
Exit ==
  /\ pc = "refused" /\ left.crash > 0
  /\ pc' = "down" /\ left' = [left EXCEPT !.crash = @ - 1]
  /\ UNCHANGED <<file, arg, mem, bdm, acked, spoilt, probe>>

\* AddDiskImpl and AddNewDiskImpl up to the first change.  A disk of the list
\* takes another path (BdmDisk).  left.broken disks do not count as available.
AddDisk(d) ==
  /\ pc = "running" /\ left.add > 0
  /\ Len(bdm) - left.broken < DISK_DEV_NUM /\ Len(bdm) < DISK_MAX_SIZE
  /\ Canonical[d] \notin Range(mem.disks)
  /\ arg' = Canonical[d] /\ pc' = "copy" /\ left' = [left EXCEPT !.add = @ - 1]
  /\ spoilt' = spoilt \cup Spoils
  /\ UNCHANGED <<file, mem, bdm, acked, probe>>

Torn(f) == {SubSeq(f, 1, n) : n \in 0 .. Len(f) - 1}

\* BackUpFile.  It fails without a file to copy, on opening the copy, or on
\* writing it: what was written stays.
BackUp ==
  /\ pc = "copy"
  /\ \/ /\ file.conf # None /\ file' = [file EXCEPT !.init = file.conf] /\ pc' = "append"
        /\ UNCHANGED <<spoilt, left>>
     \/ file.conf = None /\ pc' = "running" /\ UNCHANGED <<file, spoilt, left>>
     \/ file.conf # None /\ Fail /\ pc' = "running" /\ UNCHANGED <<file, spoilt>>
     \/ /\ file.conf # None /\ Fail /\ pc' = "running"
        /\ \E part \in Torn(file.conf) : file' = [file EXCEPT !.init = part]
        /\ spoilt' = spoilt \cup {"torn"}
  /\ UNCHANGED <<arg, mem, bdm, acked, probe>>

\* AppendConfigToLine: the first line that has the key, a comment or not
AppendConfigToLine(f, d) ==
  LET i == Min({n \in DOMAIN f : f[n].key = "disk"}) IN [f EXCEPT ![i].text = @ \o <<":", d>>]

\* AddDiskPath on the copy.  When it fails the copy is removed, if that works;
\* a write that ends early is not noticed.
AddDiskPath ==
  LET found == \E n \in DOMAIN file.init : file.init[n].key = "disk"
      full == AppendConfigToLine(file.init, arg)
  IN  /\ pc = "append"
      /\ \/ found /\ file' = [file EXCEPT !.init = full] /\ pc' = "promote" /\ UNCHANGED <<spoilt, left>>
         \/ ~found /\ RemoveFile("init") /\ pc' = "running" /\ UNCHANGED <<spoilt, left>>
         \/ /\ found /\ Fail /\ RemoveFile("init") /\ pc' = "running"
            /\ UNCHANGED spoilt
         \/ /\ found /\ Fail /\ pc' = "promote" /\ spoilt' = spoilt \cup {"torn"}
            /\ \E part \in Torn(full) : file' = [file EXCEPT !.init = part]
      /\ UNCHANGED <<arg, mem, bdm, acked, probe>>

\* RenameFile to .bak; when it fails the copy is removed, if that works.
Promote ==
  /\ pc = "promote"
  /\ \/ /\ RenameFile("init", "bak") /\ pc' = "bdm"
        /\ UNCHANGED left
     \/ /\ Fail /\ pc' = "running"
        /\ file' \in {file, [file EXCEPT !.init = None]}
  /\ UNCHANGED <<arg, mem, bdm, acked, spoilt, probe>>

\* BioBdmUpdate
BdmUpdate ==
  /\ pc = "bdm"
  /\ \/ bdm' = Append(bdm, arg) /\ pc' = "cm" /\ UNCHANGED left
     \/ Fail /\ pc' = "running" /\ UNCHANGED bdm
  /\ UNCHANGED <<file, arg, mem, acked, spoilt, probe>>

\* CmAddNewDisk: the cluster knows the disk by its id, the count before it.
CmAddNewDisk ==
  /\ pc = "cm"
  /\ \/ acked' = acked \cup {<<Len(bdm), arg>>} /\ pc' = "remove" /\ UNCHANGED left
     \/ Fail /\ pc' = "running" /\ UNCHANGED acked
  /\ UNCHANGED <<file, arg, mem, bdm, spoilt, probe>>

\* A mutant of RemoveOld: the arguments of ReplaceFile are swapped.
RemoveNew ==
  /\ pc = "remove"
  /\ RenameFile("conf", "bak") /\ pc' = "running"
  /\ UNCHANGED <<arg, mem, bdm, acked, spoilt, probe, left>>

\* ReplaceFile: the old file goes ...
RemoveOld ==
  /\ pc = "remove"
  /\ \/ file.conf # None /\ RemoveFile("conf") /\ pc' = "replace" /\ UNCHANGED left
     \/ Fail /\ pc' = "running" /\ UNCHANGED file
  /\ UNCHANGED <<arg, mem, bdm, acked, spoilt, probe>>

\* ... the new one takes its place, and ResizeDaemonConfigDisks follows.
Replace ==
  /\ pc = "replace" /\ pc' = "running"
  /\ \/ /\ RenameFile("bak", "conf")
        /\ mem' = [mem EXCEPT !.disks = Append(@, arg)]
        /\ UNCHANGED left
     \/ Fail /\ UNCHANGED <<file, mem>>
  /\ UNCHANGED <<arg, bdm, acked, spoilt, probe>>

\* The process ends at any point.  While it writes the copy, part of it is there.
Crash ==
  /\ pc \notin {"down", "refused", "text", "mms"} /\ left.crash > 0
  /\ pc' = "down" /\ left' = [left EXCEPT !.crash = @ - 1]
  /\ mem' = NoMem /\ bdm' = <<>>
  /\ \/ UNCHANGED <<file, spoilt>>
     \/ /\ pc \in {"copy", "append"} /\ file.conf # None
        /\ \E part \in Torn(IF pc = "copy" THEN file.conf ELSE file.init) :
             file' = [file EXCEPT !.init = part]
        /\ spoilt' = spoilt \cup {"torn"}
  /\ UNCHANGED <<arg, acked, probe>>

-----------------------------------------------------------------------------
(* MemStore's configuration (mms_config_instance.cpp).  Keys with tag 1    *)
(* are only validated when there is more than one node.                    *)

InterNode(default, v) == [def |-> default, v |-> v, tag |-> 1]

\* One key of each kind and its default
MmsDefaults ==
  [nodes |-> 3, depth |-> 64 * MinDepth, workers |-> 1, port |-> 7201,
   level |-> <<"info">>, mode |-> <<"separate">>, numa_id |-> <<"0", ",", "1">>,
   numa_size |-> <<"32", ",", "32">>, ipc |-> <<"4", ",", "4">>,
   notify |-> <<"54", "-", "54">>, tls |-> <<"true">>, ca |-> <<>>,
   ip_mask |-> <<"1", ".", "0", ".", "0", ".", "1", "/", "6">>,
   rpc |-> <<"2", ",", "2">>, publisher |-> <<"10", "-", "17">>,
   subscriber |-> <<"18", "-", "18">>, crb |-> <<"54", "-", "55">>]

\* LoadDefaultConf
MmsSchema ==
  LET d == MmsDefaults IN
  [int |-> [nodes    |-> Key(d.nodes, IntRange(1, 8)),
            depth    |-> Key(d.depth, IntRange(MinDepth, 1024 * MinDepth)),
            workers  |-> Key(d.workers, IntRange(1, MaxWorkers)),
            port     |-> InterNode(d.port, IntRange(7201, 7800))],
   str |-> [level    |-> Key(d.level, Enum({"error", "warn", "info", "debug", "trace"})),
            mode     |-> Key(d.mode, Enum({"separate", "converge"})),
            numa_id  |-> Key(d.numa_id, Plain("notnull")),
            numa_size |-> Key(d.numa_size, Plain("notnull")),
            ipc      |-> Key(d.ipc, Plain("notnull")),
            notify   |-> Key(d.notify, Plain("notnull")),
            tls      |-> Key(d.tls, Plain("bool")),
            ca       |-> Key(d.ca, Free),
            ip_mask  |-> InterNode(d.ip_mask, Plain("mask")),
            rpc      |-> InterNode(d.rpc, Plain("notnull")),
            publisher |-> InterNode(d.publisher, Plain("notnull")),
            subscriber |-> InterNode(d.subscriber, Plain("notnull")),
            crb      |-> InterNode(d.crb, Plain("notnull"))]]

\* StrToUint32Pair: one dash, between two numbers
StrToUint32Pair(t) ==
  LET dash == {i \in DOMAIN t : t[i] = "-"}
      at == CHOOSE i \in dash : TRUE
      ok == /\ Cardinality(dash) = 1 /\ at \notin {1, Len(t)}
            /\ StrToUint32(SubSeq(t, 1, at - 1)).ok /\ StrToUint32(SubSeq(t, at + 1, Len(t))).ok
  IN  [ok |-> ok, value |-> IF ok THEN <<StrToUint32(SubSeq(t, 1, at - 1)).value, StrToUint32(SubSeq(t, at + 1, Len(t))).value>>
                            ELSE <<0, 0>>]

ParseCpuRange(t) ==
  LET range == StrToUint32Pair(t)
  IN  [range EXCEPT !.ok = @ /\ range.value[1] <= range.value[2] /\ range.value[2] < CpuNum]

Cpus(range) == range[1] .. range[2]

\* ParseCpuRangeList: at most MAX_CPUS in all, and one at least
ParseCpuRangeList(t) ==
  LET items == Split(t, ",")
      ranges == [i \in DOMAIN items |-> ParseCpuRange(items[i])]
      count == FoldSeq(LAMBDA r, n : n + r.value[2] - r.value[1] + 1, 0, ranges)
  IN  [ok |-> items # <<>> /\ (\A i \in DOMAIN items : ranges[i].ok) /\ count <= MAX_CPUS,
       value |-> [i \in DOMAIN items |-> ranges[i].value]]

\* ParseCpuRangeToIds
ParseCpuRangeToIds(t) ==
  LET range == ParseCpuRange(t)
  IN  [ok |-> range.ok /\ Cardinality(Cpus(range.value)) <= MAX_CPUS, value |-> Cpus(range.value)]

\* CheckNumaInfo; without NUMA there is one node, 0.
CheckNumaInfo(ids) ==
  IF NumaNum = -1 THEN ids = <<0>> ELSE \A i \in DOMAIN ids : ids[i] < NumaNum

\* The ids as the 16-bit numbers they become
NumaIds(conf) ==
  LET items == MmsSplit(conf.str.numa_id, ",")
  IN  [i \in DOMAIN items |-> StrToLong(items[i]).value % NumaLimit]

AutoConfigMem(conf) ==
  LET ids == MmsSplit(conf.str.numa_id, ",")
      sizes == MmsSplit(conf.str.numa_size, ",")
  IN  /\ Len(ids) = Len(sizes) /\ Len(ids) <= MAX_NUMAS_NUM
      /\ \A i \in DOMAIN ids : StrToLong(ids[i]).ok
      /\ \A i \in DOMAIN sizes : Number(sizes[i], 0, 4096)
      /\ CheckNumaInfo(NumaIds(conf))

MmsAutoConfigBasic(conf) ==
  /\ \E l \in {"trace", "debug", "info", "warn", "error"} : conf.str.level = <<l>>
  /\ \E s \in {"separate", "converge"} : conf.str.mode = <<s>>

AutoConfigIpcGroup(conf) == Len(MmsSplit(conf.str.ipc, ",")) <= MAX_GROUPS_NUM
AutoConfigRpcGroup(conf) == Len(MmsSplit(conf.str.rpc, ",")) <= MAX_GROUPS_NUM
AutoConfigNetTls(conf) == conf.str.tls = <<"true">> => VStrRealPath(conf.str.ca)
AutoConfigNetAddress(conf) == \E m \in IpMaskToAddress(conf.str.ip_mask) : MmsFilterIpByMask(m) # <<>>

\* The subscriber's range is split at the dash and read with StrToLong.
AutoConfigNetMulticast(conf) ==
  LET cpuRange == MmsSplit(conf.str.subscriber, "-")
      End(i) == StrToLong(cpuRange[i]).value
  IN  /\ ParseCpuRangeList(conf.str.publisher).ok
      /\ Len(cpuRange) = 2 /\ StrToLong(cpuRange[1]).ok /\ StrToLong(cpuRange[2]).ok
      /\ End(1) <= End(2) /\ End(1) >= 0 /\ End(2) < CpuNum

IsSingleNode(conf) == conf.int.nodes = 1

MmsAutoConfigNet(conf) ==
  /\ AutoConfigIpcGroup(conf) /\ AutoConfigNetTls(conf)
  /\ \/ IsSingleNode(conf)
     \/ AutoConfigNetAddress(conf) /\ AutoConfigRpcGroup(conf) /\ AutoConfigNetMulticast(conf)

\* n & (n - 1) is zero
PowerOfTwo(n) == \E k \in 0 .. 20 : n = 2 ^ k

\* The first of the cpus, one for a worker
NotifyCpus(conf) ==
  LET first == ParseCpuRange(conf.str.notify).value[1] IN first .. first + conf.int.workers - 1

AutoConfigNotifyShm(conf) ==
  LET range == ParseCpuRange(conf.str.notify)
  IN  /\ conf.int.depth >= MinDepth /\ PowerOfTwo(conf.int.depth)
      /\ conf.int.workers \in 1 .. MaxWorkers /\ conf.int.depth \div conf.int.workers >= MinDepth
      /\ range.ok /\ Cardinality(Cpus(range.value)) >= conf.int.workers

AutoConfigCrb(conf) == ParseCpuRangeToIds(conf.str.crb).ok

\* AutoConfAfterLoadFromFile of MemStore
MmsInitialized(conf) ==
  /\ AutoConfigMem(conf) /\ MmsAutoConfigBasic(conf) /\ MmsAutoConfigNet(conf)
  /\ AutoConfigNotifyShm(conf)
  /\ IsSingleNode(conf) \/ AutoConfigCrb(conf)

\* Initialize of MemStore
MmsInitialize ==
  LET items == MmsFromFile(file.conf)
      conf == MmsReadConf(MmsSchema, items)
      ok == /\ \A k \in DOMAIN items : MmsSettable(MmsSchema, k, items[k])
            /\ MmsValidate(MmsSchema, conf, 0)
            /\ IsSingleNode(conf) \/ MmsValidate(MmsSchema, conf, 1)
            /\ MmsInitialized(conf)
  IN  /\ pc = "mms"
      /\ mem' = IF ok THEN [ok |-> TRUE, conf |-> conf] ELSE NoMem
      /\ pc' = IF ok THEN "serving" ELSE "denied"
      /\ UNCHANGED <<file, arg, bdm, acked, spoilt, probe, left>>

-----------------------------------------------------------------------------
Idle == [crash |-> 0, fail |-> 0, add |-> 0, broken |-> 0]

Nothing == arg = "" /\ mem = NoMem /\ bdm = <<>> /\ acked = {} /\ spoilt = {}

TextInit ==
  /\ pc = "text" /\ probe \in Probe /\ left = Idle /\ Nothing
  /\ file = [conf |-> None, bak |-> None, init |-> None]

BioInit ==
  /\ pc = "down" /\ probe = None /\ Nothing
  /\ \E b \in BioFiles : left = b.left /\ file = [conf |-> b.lines, bak |-> None, init |-> None]

MmsInit ==
  /\ pc = "mms" /\ probe = None /\ left = Idle /\ Nothing
  /\ \E f \in MmsFiles : file = [conf |-> f, bak |-> None, init |-> None]

Init == TextInit \/ BioInit \/ MmsInit

Next ==
  \/ Start \/ InitToBak \/ RemoveConf \/ BakToConf \/ Load \/ Exit \/ Crash
  \/ \E d \in Addable : AddDisk(d)
  \/ BackUp \/ AddDiskPath \/ Promote \/ BdmUpdate \/ CmAddNewDisk \/ RemoveOld \/ Replace
  \/ MmsInitialize

-----------------------------------------------------------------------------
(* What a validator is meant to accept, said by position. *)
Num(x, lo, hi) == x \in DOMAIN Numeral /\ Numeral[x] \in lo .. hi /\ (Numeral[x] = 0 => x = "0")

\* The text, or the text without one separator at its end
Trim(t, sep) == {t} \cup {SubSeq(t, 1, Len(t) - 1) : n \in {k \in {1} : t # <<>> /\ Last(t) = sep}}

Dotted(t) ==
  \E s \in Trim(t, ".") :
    /\ Len(s) = 7 /\ \A i \in {2, 4, 6} : s[i] = "."
    /\ \A i \in {1, 3, 5, 7} : Num(s[i], 0, 2 ^ OctetBits - 1)

\* An address, a separator and a number
Suffixed(t, sep, hi) ==
  \E s \in Trim(t, sep) :
    Len(s) > 2 /\ s[Len(s) - 1] = sep /\ Num(Last(s), 0, hi) /\ Dotted(SubSeq(s, 1, Len(s) - 2))

\* The stretches between separators, the last one left out when it is empty
Stretches(t, sep) ==
  LET Edge(i) == i \in {0, Len(t) + 1} \/ t[i] = sep
  IN  {SubSeq(t, p[1] + 1, p[2] - 1) :
         p \in {q \in (0 .. Len(t)) \X (1 .. Len(t) + 1) :
                  /\ q[1] < q[2] /\ Edge(q[1]) /\ Edge(q[2])
                  /\ \A i \in q[1] + 1 .. q[2] - 1 : t[i] # sep
                  /\ ~(q[1] = Len(t) /\ q[2] = Len(t) + 1)}}

Proper(v, t) ==
  CASE v.kind = "range" -> \E a, b \in DOMAIN Numeral :
                             t = <<a, "~", b>> /\ Num(a, v.lo, v.hi) /\ Num(b, v.lo, v.hi)
    [] v.kind = "array" -> \E s \in Trim(t, ",") :
                             /\ Len(s) = 2 * v.count - 1
                             /\ \A i \in DOMAIN s : IF i % 2 = 0 THEN s[i] = "," ELSE Num(s[i], v.lo, v.hi)
    [] v.kind = "enum"  -> t \in {<<e>> : e \in v.enum}
    [] v.kind = "mask"  -> Suffixed(t, "/", 4 * OctetBits)
    [] v.kind = "ip"    -> Dotted(t)
    [] v.kind = "port"  -> Suffixed(t, ":", PORT_MAX)
    [] v.kind = "ports" -> t # <<>> /\ \A s \in Stretches(t, ",") : Suffixed(s, ":", PORT_MAX)
    [] v.kind = "permission" ->
         /\ Len(t) = 3 /\ t[1] # "0"
         /\ \A i \in 1 .. 3 : t[i] \in {"0", "4", "5", "6", "7"}
         /\ v.ordered => \A i, j \in 1 .. 3 : i < j => Numeral[t[i]] >= Numeral[t[j]]
    [] v.kind = "ratio" -> \E a \in 0 .. 10 : \E s \in Trim(t, ":") :
                             /\ Len(s) = 3 /\ s[2] = ":" /\ Num(s[1], a, a) /\ Num(s[3], 10 - a, 10 - a)
    [] v.kind = "pool"  -> /\ t # <<>>
                           /\ \A s \in Stretches(t, ",") : \E p \in Trim(s, ":") :
                                /\ Len(p) > 2 \/ (Len(p) = 2 /\ p # s)
                                /\ p[2] = ":" /\ ":" \notin Range(SubSeq(p, 3, Len(p)))
                                /\ \E hi \in Range(Numeral) : Num(p[1], 0, hi)
    [] OTHER            -> t \in {<<"true">>, <<"false">>}

\* A text passes its validator exactly when it has the form the validator's
\* message asks for, where one separator may be left at the end of a list and the
\* name of a pool may be empty before it; of a range only that every proper one
\* passes (bio_config_validator.h).
Judged ==
  pc = "text" =>
    \A passes \in {ValidateStr(probe.v, probe.t), MmsValidateStr(probe.v, probe.t)} :
      /\ Proper(probe.v, probe.t) => passes
      /\ passes => \/ Proper(probe.v, probe.t)
                   \/ probe.v.kind = "range"
                   \/ probe.v.empty /\ probe.t = <<>>

\* What a server that runs took from its file can be used: shares of ten, no more
\* memory than there is and none without a disk, devices that exist, an address of
\* the subnet when the mask ends with a segment (bio_config_instance.cpp).
BioFits ==
  pc = "running" =>
    /\ mem.ratio[1] + mem.ratio[2] = 10
    /\ mem.memCap <= SysFreeMem /\ (mem.disks = <<>> => mem.memCap = 0)
    /\ Range(mem.disks) \subseteq Range(Canonical)
    /\ \A id \in DOMAIN mem.pools : id >= 0
    /\ LET t == mem.conf.str.ip_mask
           width == Numeral[t[9]] \div OctetBits
       IN  (Numeral[t[9]] > 0 /\ Numeral[t[9]] = width * OctetBits) =>
             \A i \in 1 .. width : mem.dataIp[i] = Numeral[t[2 * i - 1]]
    /\ Merge(BioSchema, mem.conf) = mem.conf

\* What MemStore took can be used: queues that are powers of two and large enough
\* for every worker, a cpu of the machine for every worker, NUMA nodes of the
\* machine and no more than there is room for (mms_config_instance.cpp); written out
\* and read again it is the same.
MmsFits ==
  pc = "serving" =>
    /\ PowerOfTwo(mem.conf.int.depth) /\ mem.conf.int.depth >= MinDepth * mem.conf.int.workers
    /\ NotifyCpus(mem.conf) \subseteq 0 .. CpuNum - 1
    /\ Len(NumaIds(mem.conf)) \in 1 .. MAX_NUMAS_NUM
    /\ \A i \in DOMAIN NumaIds(mem.conf) : NumaIds(mem.conf)[i] < IF NumaNum = -1 THEN 1 ELSE NumaNum
    /\ Cardinality(Stretches(mem.conf.str.ipc, ",")) <= MAX_GROUPS_NUM
    /\ mem.conf.int.nodes # 1 => \A s \in Stretches(mem.conf.str.publisher, ",") :
         Len(s) = 3 /\ Numeral[s[1]] <= Numeral[s[3]] /\ Numeral[s[3]] < CpuNum
    /\ MmsMerge(MmsSchema, mem.conf) = mem.conf

\* There is always a file to start from.  Unless the copy was torn, the list was
\* empty, a comment or full, a disk was added after an addition that failed half
\* way, or a start could not move the files, a server that ran before comes up
\* again with every disk the cluster knows under its id (BakFileProcess,
\* CreateDiskConfBak, ReplaceFile).
DisksKept ==
  pc \notin {"text", "mms", "serving", "denied"} =>
    /\ file.conf # None \/ file.bak # None
    /\ spoilt = {} =>
         /\ pc = "running" => \A a \in acked : a[1] \in DOMAIN bdm /\ bdm[a[1]] = a[2]
         /\ pc = "refused" => acked = {}
=============================================================================
