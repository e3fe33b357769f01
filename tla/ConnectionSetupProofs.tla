------------------------ MODULE ConnectionSetupProofs ------------------------
(***************************************************************************)
(* Theorems about ConnectionSetup for any connection arguments, any set of *)
(* zone files that comes and goes, and any calls that fail; that a         *)
(* connection whose texts are decoded is still such a connection; and that *)
(* its texts are decoded one by one.                                       *)
(***************************************************************************)
EXTENDS OpenConnection, FiniteSetTheorems, WellFoundedInduction, TLAPS

Offset(o) == o[1] * 3600 + o[2] * 60

\* A zone that is loaded has the offset of its name, and is one of Etc only for whole hours or
\* when its name is recognised as a fixed offset; one that is not is UTC.
ZoneOK(e, n) ==
  /\ e \in Zone
  /\ e.loaded => /\ e.off = ZoneOffset(n)
                 /\ n \in EtcNames /\ n.parts # <<>> => IsFixedName(n)
  /\ ~e.loaded => e.off = 0

MapOK(m) == \A n \in DOMAIN m : n \in ZoneNames /\ ZoneOK(m[n], n)

-----------------------------------------------------------------------------
(* Time zones *)

\* A place is not one of the names of Etc.
LEMMA NamesDiffer ==
  /\ UTC \in PlaceNames
  /\ \A n \in PlaceNames : "sign" \notin DOMAIN n /\ "name" \in DOMAIN n
  /\ \A n \in EtcNames : "sign" \in DOMAIN n /\ "name" \notin DOMAIN n /\ n # UTC
<1>1. UTC \in PlaceNames
  BY DEF PlaceNames, UTC
<1>2. \A n \in PlaceNames : DOMAIN n = {"name"}
  BY DEF PlaceNames
<1>3. \A n \in EtcNames : DOMAIN n = {"sign", "hours", "parts"}
  BY DEF EtcNames
<1> QED
  BY <1>1, <1>2, <1>3

\* The offset of a name that is recognised, and of one that has a file, is a number.
LEMMA ZoneOffsetType ==
  ASSUME NEW n \in ZoneNames, IsFixedName(n) \/ (files \in Installed /\ n \in files)
  PROVE  ZoneOffset(n) \in Int
<1>1. CASE n = UTC
  BY <1>1 DEF ZoneOffset, IsFixedName, FixedOffsetFromName
<1>2. CASE n # UTC /\ IsFixedName(n)
  <2>1. n \in EtcNames /\ Len(n.parts) = 2
    BY <1>2, NamesDiffer DEF ZoneNames, IsFixedName
  <2>2. n.hours \in Nat /\ n.parts \in Seq(Nat) /\ n.parts[1] \in Nat /\ n.parts[2] \in Nat
    BY <2>1 DEF EtcNames
  <2> QED
    <3> DEFINE sign == IF n.sign = "-" THEN -1 ELSE 1
    <3>1. ZoneOffset(n) = sign * (n.parts[2] + (n.hours * 60 + n.parts[1]) * 60)
      BY <1>2 DEF ZoneOffset, FixedOffsetFromName
    <3>2. sign \in Int /\ n.parts[2] + (n.hours * 60 + n.parts[1]) * 60 \in Int
      BY <2>2
    <3> HIDE DEF sign
    <3> QED
      BY <3>1, <3>2
<1>3. CASE ~IsFixedName(n)
  <2>1. ZoneOffset(n) = FileOffset(n)
    BY <1>3 DEF ZoneOffset
  <2>2. CASE n \in PlaceNames
    <3>1. NamedOff[n.name] \in Int
      BY <1>3, <2>2, NamesDiffer, InstalledAssumption
    <3> QED
      BY <2>1, <2>2, <3>1, NamesDiffer DEF FileOffset
  <2>3. CASE n \in EtcNames
    <3>1. n.hours \in Nat
      BY <2>3 DEF EtcNames
    <3> QED
      BY <2>1, <2>3, <3>1, NamesDiffer DEF FileOffset
  <2> QED
    BY <2>2, <2>3 DEF ZoneNames
<1> QED
  BY <1>1, <1>2, <1>3

\* What a new entry is.
LEMMA MakeOK ==
  ASSUME files \in Installed, NEW n \in ZoneNames
  PROVE  ZoneOK(Make(n), n)
<1>1. CASE IsFixedName(n) \/ n \in files
  <2>1. Make(n) = [loaded |-> TRUE, off |-> ZoneOffset(n)] /\ ZoneOffset(n) \in Int
    BY <1>1, ZoneOffsetType DEF Make
  <2>2. n \in files /\ n \in EtcNames => n.parts = <<>>
    BY NamesDiffer, InstalledAssumption
  <2> QED
    BY <1>1, <2>1, <2>2 DEF ZoneOK, Zone
<1>2. CASE ~(IsFixedName(n) \/ n \in files)
  BY <1>2 DEF Make, NoZone, ZoneOK, Zone
<1> QED
  BY <1>1, <1>2

\* LoadTimeZone gives a zone for every name.
LEMMA EntryOK ==
  ASSUME files \in Installed, NEW m, MapOK(m), NEW n \in ZoneNames
  PROVE  ZoneOK(Entry(m, n), n)
<1>1. CASE n = UTC
  <2>1. Entry(m, n) = [loaded |-> TRUE, off |-> 0]
    BY <1>1 DEF Entry
  <2>2. ZoneOffset(n) = 0
    BY <1>1 DEF ZoneOffset, IsFixedName, FixedOffsetFromName
  <2> QED
    BY <1>1, <2>1, <2>2, NamesDiffer DEF ZoneOK, Zone
<1>2. CASE n # UTC /\ n \in DOMAIN m
  BY <1>2 DEF Entry, MapOK
<1>3. CASE n # UTC /\ n \notin DOMAIN m
  <2>1. Entry(m, n) = Make(n)
    BY <1>3 DEF Entry
  <2> QED
    BY <2>1, MakeOK
<1> QED
  BY <1>1, <1>2, <1>3

\* The map after a name has been asked for: it has the name, and the entries it had.
LEMMA RememberOK ==
  ASSUME files \in Installed, NEW m, MapOK(m), NEW n \in ZoneNames
  PROVE  /\ MapOK(Remember(m, n))
         /\ DOMAIN m \subseteq DOMAIN Remember(m, n)
         /\ \A k \in DOMAIN m : Remember(m, n)[k] = m[k]
         /\ n = UTC \/ (n \in DOMAIN Remember(m, n) /\ Remember(m, n)[n] = Entry(m, n))
<1>1. CASE n = UTC \/ n \in DOMAIN m
  BY <1>1 DEF Remember, Entry
<1>2. CASE n # UTC /\ n \notin DOMAIN m
  <2>1. Remember(m, n) = [k \in DOMAIN m \cup {n} |-> IF k = n THEN Make(n) ELSE m[k]]
    BY <1>2 DEF Remember
  <2>2. Entry(m, n) = Make(n) /\ ZoneOK(Make(n), n)
    BY <1>2, MakeOK DEF Entry
  <2> QED
    BY <1>2, <2>1, <2>2 DEF MapOK
<1> QED
  BY <1>1, <1>2

\* The name of the negated offset of a timestamp is not recognised as that of a fixed offset,
\* and its file, if there is one, has the offset itself.
LEMMA OffsetName ==
  ASSUME NEW o \in Offsets, Offset(o) # 0
  PROVE  /\ Offset(o) \in Int
         /\ FixedOffsetToName(-Offset(o)) \in EtcNames
         /\ ~IsFixedName(FixedOffsetToName(-Offset(o)))
         /\ FixedOffsetToName(-Offset(o)).parts = <<>> =>
              ZoneOffset(FixedOffsetToName(-Offset(o))) = Offset(o)
<1> DEFINE f == Offset(o)
           k == Abs(-f)
           q == 60 * o[1] + o[2]
           n == FixedOffsetToName(-f)
<1>1. o[1] \in -14 .. 14 /\ o[2] \in -59 .. 59 /\ q \in Int /\ f = 60 * q
  BY OffsetsAssumption DEF Offset
<1>2. q \in -899 .. 899
  BY <1>1
<1> DEFINE a == Abs(-q)
<1>3. a \in 1 .. 899 /\ k = 60 * a /\ (f < 0 => k = -f) /\ (f > 0 => k = f) /\ f \in Int /\ f # 0
  <2>1. f \in Int /\ f # 0 /\ q # 0
    BY <1>1
  <2>2. k = (IF -f < 0 THEN -(-f) ELSE -f) /\ a = (IF -q < 0 THEN -(-q) ELSE -q)
    BY DEF Abs
  <2> HIDE DEF f, q, k, a
  <2>3. CASE q > 0
    BY <1>1, <1>2, <2>1, <2>2, <2>3
  <2>4. CASE q < 0
    BY <1>1, <1>2, <2>1, <2>2, <2>4
  <2> QED
    BY <1>2, <2>1, <2>3, <2>4
<1> DEFINE hours == a \div 60
           mins == a - 60 * hours
<1>4. hours \in Nat /\ mins \in Nat /\ a = 60 * hours + mins
  BY <1>3
<1>5. Quot(k, 60) = a /\ Rem(k, 60) = 0
  BY <1>3 DEF Quot, Rem
<1>6. Rem(a, 60) = mins
  BY <1>3 DEF Quot, Rem
<1>7. Quot(k, 3600) = hours
  BY <1>3 DEF Quot
<1>8. ~(-f = 0 \/ Abs(-f) > 24 * 3600)
  BY <1>3
<1> HIDE DEF q, a, hours, mins
<1>9. n = Etc(IF -f < 0 THEN "-" ELSE "+", hours, IF mins # 0 THEN <<mins>> ELSE <<>>)
  <2> DEFINE part(v) == IF v # 0 THEN <<v>> ELSE <<>>
  <2>1. n = Etc(IF -f < 0 THEN "-" ELSE "+", Quot(k, 3600),
                part(Rem(Quot(k, 60), 60)) \o part(Rem(k, 60)))
    BY <1>8 DEF FixedOffsetToName
  <2>2. part(mins) \in Seq(Nat) /\ part(mins) \o <<>> = part(mins)
    BY <1>4
  <2>3. part(Rem(Quot(k, 60), 60)) = part(mins) /\ part(Rem(k, 60)) = <<>>
    BY <1>5, <1>6
  <2> QED
    <3> DEFINE s == IF -f < 0 THEN "-" ELSE "+"
               p1 == part(Rem(Quot(k, 60), 60))
               p2 == part(Rem(k, 60))
               p == part(mins)
               h == Quot(k, 3600)
    <3>1. n = Etc(s, h, p1 \o p2) /\ h = hours /\ p1 = p /\ p2 = <<>> /\ p \o <<>> = p
      BY <1>7, <2>1, <2>2, <2>3
    <3> HIDE DEF n, f, k, s, p1, p2, p, h
    <3>2. n = Etc(s, hours, p)
      BY <3>1, Zenon
    <3> QED
      BY <3>2 DEF s, p, part
<1> HIDE DEF f, k, n
<1>10. /\ n.sign = (IF -f < 0 THEN "-" ELSE "+") /\ n.hours = hours
       /\ n.parts = (IF mins # 0 THEN <<mins>> ELSE <<>>) /\ n \in EtcNames
  BY <1>4, <1>9 DEF Etc, EtcNames
<1>11. ~IsFixedName(n)
  <2>1. Len(n.parts) # 2
    BY <1>4, <1>10
  <2> QED
    BY <1>10, <2>1, NamesDiffer DEF IsFixedName
<1>12. ASSUME n.parts = <<>> PROVE ZoneOffset(n) = f
  <2>1. mins = 0
    <3>1. mins # 0 => Len(n.parts) = 1
      BY <1>10
    <3> QED
      BY <1>12, <3>1
  <2>2. ZoneOffset(n) = (IF n.sign = "+" THEN -1 ELSE 1) * n.hours * 3600
    BY <1>10, <1>11, NamesDiffer DEF ZoneOffset, FileOffset
  <2>3. k = 3600 * hours
    BY <1>3, <1>4, <2>1
  <2>4. CASE f > 0
    <3>1. n.sign = "-"
      BY <1>3, <1>10, <2>4
    <3> QED
      BY <1>3, <1>4, <1>10, <2>2, <2>3, <2>4, <3>1
  <2>5. CASE f < 0
    <3>1. n.sign = "+"
      BY <1>3, <1>10, <2>5
    <3> QED
      BY <1>3, <1>4, <1>10, <2>2, <2>3, <2>5, <3>1
  <2> QED
    BY <1>3, <2>4, <2>5
<1> QED
  BY <1>3, <1>10, <1>11, <1>12 DEF n, f

-----------------------------------------------------------------------------
(* The zones that are known *)

ZonesOK == files \in Installed /\ MapOK(map)

\* The names of a request are names.
LEMMA RequestType ==
  ASSUME NEW r \in Requests
  PROVE  /\ r.timezone \in ZoneNames /\ r.timezone_out \in ZoneNames
         /\ r.given \in SUBSET Attributes
BY RequestsAssumption

\* Every step keeps the zones right.
LEMMA ZonesStep == ZonesOK /\ [Next]_vars => ZonesOK'
<1> SUFFICES ASSUME ZonesOK, [Next]_vars PROVE ZonesOK'
  OBVIOUS
<1>m. (MapOK(map)' <=> MapOK(map'))
  BY DEF MapOK, ZoneOK, ZoneOffset, IsFixedName, FixedOffsetFromName, FileOffset
<1>t. files \in Installed /\ MapOK(map)
  BY DEF ZonesOK
<1>a. ASSUME NEW r \in Requests, Open(r) PROVE ZonesOK'
  <2> DEFINE map1 == Remember(map, r.timezone)
             map2 == Remember(map1, r.timezone_out)
  <2>1. map' \in {map, map1, map2} /\ files' = files
    BY <1>a DEF Open
  <2>2. MapOK(map1)
    BY <1>t, RequestType, RememberOK
  <2> HIDE DEF map1
  <2>3. MapOK(map2)
    BY <1>t, <2>2, RequestType, RememberOK
  <2> HIDE DEF map2
  <2> QED
    BY <1>m, <1>t, <2>1, <2>2, <2>3 DEF ZonesOK
<1>b. ASSUME NEW stamp \in Stamps, NEW o \in Offsets, ReadTimestamp(stamp, o) PROVE ZonesOK'
  <2>1. /\ files' = files
        /\ map' = IF Offset(o) = 0 THEN map ELSE Remember(map, FixedOffsetToName(-Offset(o)))
    BY <1>b DEF ReadTimestamp, Offset
  <2>2. Offset(o) # 0 => FixedOffsetToName(-Offset(o)) \in ZoneNames
    BY OffsetName DEF ZoneNames
  <2>3. MapOK(map')
    BY <1>t, <2>1, <2>2, RememberOK
  <2> QED
    BY <1>m, <1>t, <2>1, <2>3 DEF ZonesOK
<1>c. CASE FilesChange
  BY <1>c, <1>m, <1>t DEF FilesChange, ZonesOK
<1>d. CASE AllocEnv \/ SetEnv \/ AllocDbc \/ FreeDbc \/ ReallocDbc \/ SetAttribute
           \/ DriverConnect \/ Unwind \/ Close \/ UNCHANGED vars
  <2>1. files' = files /\ map' = map
    BY <1>d DEF AllocEnv, SetEnv, AllocDbc, FreeDbc, ReallocDbc, SetAttribute, DriverConnect,
                Unwind, Close, KeepRequest, zones, vars
  <2> QED
    BY <1>m, <1>t, <2>1 DEF ZonesOK
<1> QED
  BY <1>a, <1>b, <1>c, <1>d DEF Next

-----------------------------------------------------------------------------
(* The handles *)

Points == {"none", "allocenv", "setenv", "allocdbc", "freedbc", "reallocdbc", "setattr",
           "open", "dealloc"}

\* Which handles there are at each point of the constructor, and why a session can outlive it.
HandlesOK ==
  /\ at \in Points /\ env \in BOOLEAN /\ connected \in BOOLEAN
  /\ dbc \in {"null", "idle", "session"} /\ refused \subseteq Calls
  /\ at \notin {"none", "allocenv"} => env
  /\ at \in {"allocenv", "setenv", "allocdbc", "reallocdbc"} => dbc = "null"
  /\ at \in {"freedbc", "setattr"} => dbc = "idle"
  /\ at = "open" => connected /\ dbc = "session"
  /\ dbc = "session" /\ at # "open" => "disconnect" \in refused
  /\ lost \in [env : Nat, dbc : Nat, session : Nat]

\* The constructor, or the destructor, ends with the handles in env' and dbc'.
LEMMA GoneLoses ==
  ASSUME HandlesOK, FailedLoginsLoseNothing, Gone, env' \in BOOLEAN, refused \subseteq refused',
         refused' \subseteq Calls,
         dbc' \in {"null", "idle", "session"},
         env' \/ dbc' # "null" => refused' \cap {"allocdbc", "freedbc", "freeenv"} # {},
         dbc' = "session" => "disconnect" \in refused', connected' \in BOOLEAN
  PROVE  HandlesOK' /\ FailedLoginsLoseNothing'
<1> DEFINE e == IF env' THEN 1 ELSE 0
           d == IF dbc' = "null" THEN 0 ELSE 1
           s == IF dbc' = "session" THEN 1 ELSE 0
<1>1. at' = "none" /\ lost' = [env |-> lost.env + e, dbc |-> lost.dbc + d, session |-> lost.session + s]
  BY DEF Gone
<1>2. e \in {0, 1} /\ d \in {0, 1} /\ s \in {0, 1} /\ s <= d
  OBVIOUS
<1>3. /\ refused' \cap {"allocdbc", "freedbc", "freeenv"} = {} => e = 0 /\ d = 0
      /\ "disconnect" \notin refused' => s = 0
  OBVIOUS
<1> HIDE DEF e, d, s
<1>4. lost.env \in Nat /\ lost.dbc \in Nat /\ lost.session \in Nat
  BY DEF HandlesOK
<1>5. /\ lost'.env = lost.env + e /\ lost'.dbc = lost.dbc + d /\ lost'.session = lost.session + s
      /\ lost' \in [env : Nat, dbc : Nat, session : Nat]
  BY <1>1, <1>2, <1>4
<1>6. HandlesOK'
  BY <1>1, <1>5 DEF HandlesOK, Points
<1>7. FailedLoginsLoseNothing'
  BY <1>2, <1>3, <1>4, <1>5 DEF FailedLoginsLoseNothing
<1> QED
  BY <1>6, <1>7

\* A step that loses nothing.
LEMMA NothingLost ==
  ASSUME FailedLoginsLoseNothing, lost' = lost, refused \subseteq refused'
  PROVE  FailedLoginsLoseNothing'
BY DEF FailedLoginsLoseNothing

\* Every step keeps the handles, and loses none but for a reason.
LEMMA HandlesStep ==
  HandlesOK /\ FailedLoginsLoseNothing /\ [Next]_vars => HandlesOK' /\ FailedLoginsLoseNothing'
<1> SUFFICES ASSUME HandlesOK, FailedLoginsLoseNothing, [Next]_vars
             PROVE  HandlesOK' /\ FailedLoginsLoseNothing'
  OBVIOUS
<1>a. ASSUME NEW r \in Requests, Open(r) PROVE HandlesOK' /\ FailedLoginsLoseNothing'
  <2>1. /\ at = "none" /\ at' \in {"none", "allocenv"} /\ env' = FALSE /\ dbc' = "null"
        /\ connected' = connected /\ lost' = lost /\ refused' = refused
    BY <1>a DEF Open
  <2> QED
    BY <2>1, NothingLost DEF HandlesOK, Points
<1>b. CASE AllocEnv
  <2>1. at = "allocenv" /\ dbc' = dbc /\ connected' = connected /\ dbc = "null"
    BY <1>b DEF AllocEnv, HandlesOK
  <2>2. CASE Works /\ at' = "setenv" /\ env' = TRUE /\ UNCHANGED <<lost, buffers, dbc>>
    BY <2>1, <2>2, NothingLost DEF HandlesOK, Points, Works
  <2>3. CASE Fails("allocenv") /\ env' = FALSE /\ Gone
    <3>1. refused' = refused \cup {"allocenv"} /\ refused' \subseteq Calls
      BY <2>3 DEF Fails, HandlesOK, Calls
    <3> QED
      BY <2>1, <2>3, <3>1, GoneLoses DEF HandlesOK
  <2> QED
    BY <1>b, <2>2, <2>3 DEF AllocEnv
<1>c. CASE SetEnv
  <2>1. at = "setenv" /\ dbc' = dbc /\ connected' = connected /\ dbc = "null" /\ env
    BY <1>c DEF SetEnv, HandlesOK
  <2>2. CASE Works /\ at' = "allocdbc" /\ UNCHANGED <<env, dbc, lost, buffers>>
    BY <2>1, <2>2, NothingLost DEF HandlesOK, Points, Works
  <2>3. CASE /\ FreesEnv /\ Gone
             /\ refused' = refused \cup {"setenv"} \cup (IF env' THEN {"freeenv"} ELSE {})
    <3>1. env' \in BOOLEAN /\ refused' \subseteq Calls /\ refused \subseteq refused'
      BY <2>3 DEF FreesEnv, HandlesOK, Calls
    <3>2. env' => "freeenv" \in refused'
      BY <2>3
    <3> QED
      BY <2>1, <2>3, <3>1, <3>2, GoneLoses DEF HandlesOK
  <2> QED
    BY <1>c, <2>2, <2>3 DEF SetEnv
<1>d. CASE AllocDbc
  <2>1. at = "allocdbc" /\ env' = env /\ connected' = connected /\ env /\ dbc = "null"
    BY <1>d DEF AllocDbc, HandlesOK
  <2>2. CASE Works /\ at' = "freedbc" /\ dbc' = "idle" /\ UNCHANGED <<env, lost, buffers>>
    BY <2>1, <2>2, NothingLost DEF HandlesOK, Points, Works
  <2>3. CASE Fails("allocdbc") /\ dbc' = "null" /\ Gone
    <3>1. "allocdbc" \in refused' /\ refused' \subseteq Calls /\ refused \subseteq refused'
      BY <2>3 DEF Fails, HandlesOK, Calls
    <3> QED
      BY <2>1, <2>3, <3>1, GoneLoses DEF HandlesOK
  <2> QED
    BY <1>d, <2>2, <2>3 DEF AllocDbc
<1>e. CASE FreeDbc
  BY <1>e, NothingLost DEF FreeDbc, HandlesOK, Points, Works, Fails, Throws, Calls
<1>f. CASE ReallocDbc
  BY <1>f, NothingLost DEF ReallocDbc, HandlesOK, Points, Works, Fails, Throws, Calls
<1>g. CASE SetAttribute
  BY <1>g, NothingLost DEF SetAttribute, HandlesOK, Points, Works, Fails, Throws, Calls
<1>h. CASE DriverConnect
  BY <1>h, NothingLost DEF DriverConnect, HandlesOK, Points, Works, Fails, Throws, Calls
<1>i. CASE Unwind
  <2>1. at = "dealloc" /\ Deallocate /\ Gone /\ connected' = FALSE
    BY <1>i DEF Unwind
  <2>2. CASE /\ dbc # "session" /\ dbc' = "null" /\ FreesEnv
             /\ refused' = IF env' THEN refused \cup {"freeenv"} ELSE refused
    <3>1. env' \in BOOLEAN /\ refused' \subseteq Calls /\ refused \subseteq refused'
      BY <2>2 DEF FreesEnv, HandlesOK, Calls
    <3>2. env' => "freeenv" \in refused'
      BY <2>2
    <3> QED
      BY <2>1, <2>2, <3>1, <3>2, GoneLoses DEF HandlesOK
  <2>3. CASE dbc # "null" /\ UNCHANGED <<dbc, env>> /\ refused' = refused \cup {"freedbc"}
    <3>1. "freedbc" \in refused' /\ refused' \subseteq Calls /\ refused \subseteq refused'
      BY <2>3 DEF HandlesOK, Calls
    <3> QED
      BY <2>1, <2>3, <3>1, GoneLoses DEF HandlesOK
  <2> QED
    BY <2>1, <2>2, <2>3 DEF Deallocate
<1>j. CASE Close
  BY <1>j, NothingLost DEF Close, HandlesOK, Points, Works, Fails, Calls
<1>k. CASE (\E stamp \in Stamps, o \in Offsets : ReadTimestamp(stamp, o)) \/ FilesChange
           \/ UNCHANGED vars
  <2>1. UNCHANGED conn
    BY <1>k DEF ReadTimestamp, FilesChange, vars
  <2> QED
    BY <2>1, NothingLost DEF conn, HandlesOK
<1> QED
  BY <1>a, <1>b, <1>c, <1>d, <1>e, <1>f, <1>g, <1>h, <1>i, <1>j, <1>k DEF Next

-----------------------------------------------------------------------------
(* The attributes *)

Attrs(s) == {s[i] : i \in 1 .. Len(s)}

\* The attributes of two lists, and of the head and the tail of one.
LEMMA AttrsOf ==
  ASSUME NEW s \in Seq(Attributes), NEW t \in Seq(Attributes)
  PROVE  /\ Attrs(s \o t) = Attrs(s) \cup Attrs(t)
         /\ s # <<>> => /\ Head(s) \in Attributes /\ Tail(s) \in Seq(Attributes)
                        /\ Attrs(s) = {Head(s)} \cup Attrs(Tail(s))
         /\ Attrs(<<>>) = {}
<1>1. Len(s) \in Nat /\ Len(t) \in Nat /\ Len(s \o t) = Len(s) + Len(t)
  OBVIOUS
<1>2. ASSUME NEW a \in Attrs(s \o t) PROVE a \in Attrs(s) \cup Attrs(t)
  <2>1. PICK i \in 1 .. Len(s \o t) : a = (s \o t)[i]
    BY <1>2 DEF Attrs
  <2>2. CASE i <= Len(s)
    BY <1>1, <2>1, <2>2 DEF Attrs
  <2>3. CASE i > Len(s)
    <3>1. i - Len(s) \in 1 .. Len(t) /\ a = t[i - Len(s)]
      BY <1>1, <2>1, <2>3
    <3> QED
      BY <3>1 DEF Attrs
  <2> QED
    BY <1>1, <2>2, <2>3
<1>3. ASSUME NEW a \in Attrs(s) \cup Attrs(t) PROVE a \in Attrs(s \o t)
  <2>1. CASE a \in Attrs(s)
    <3>1. PICK i \in 1 .. Len(s) : a = s[i]
      BY <2>1 DEF Attrs
    <3>2. i \in 1 .. Len(s \o t) /\ (s \o t)[i] = a
      BY <1>1, <3>1
    <3> QED
      BY <3>2 DEF Attrs
  <2>2. CASE a \in Attrs(t)
    <3>1. PICK i \in 1 .. Len(t) : a = t[i]
      BY <2>2 DEF Attrs
    <3>2. Len(s) + i \in 1 .. Len(s \o t) /\ (s \o t)[Len(s) + i] = a
      BY <1>1, <3>1
    <3> QED
      BY <3>2 DEF Attrs
  <2> QED
    BY <1>3, <2>1, <2>2
<1>4. ASSUME s # <<>>
      PROVE  /\ Head(s) \in Attributes /\ Tail(s) \in Seq(Attributes)
             /\ Attrs(s) = {Head(s)} \cup Attrs(Tail(s))
  <2>1. /\ Head(s) \in Attributes /\ Head(s) = s[1] /\ Tail(s) \in Seq(Attributes)
        /\ Len(Tail(s)) = Len(s) - 1 /\ Len(s) >= 1
    BY <1>1, <1>4
  <2>2. \A i \in 1 .. Len(Tail(s)) : Tail(s)[i] = s[i + 1]
    BY <1>4
  <2>3. ASSUME NEW a \in Attrs(s) PROVE a \in {Head(s)} \cup Attrs(Tail(s))
    <3>1. PICK i \in 1 .. Len(s) : a = s[i]
      BY <2>3 DEF Attrs
    <3>2. CASE i = 1
      BY <2>1, <3>1, <3>2
    <3>3. CASE i > 1
      <4>1. i - 1 \in 1 .. Len(Tail(s)) /\ (i - 1) + 1 = i
        BY <1>1, <2>1, <3>3
      <4> QED
        BY <2>2, <3>1, <4>1 DEF Attrs
    <3> QED
      BY <3>2, <3>3
  <2>4. ASSUME NEW a \in Attrs(Tail(s)) PROVE a \in Attrs(s)
    <3>1. PICK i \in 1 .. Len(Tail(s)) : a = Tail(s)[i]
      BY <2>4 DEF Attrs
    <3>2. i + 1 \in 1 .. Len(s) /\ a = s[i + 1]
      BY <1>1, <2>1, <2>2, <3>1
    <3> QED
      BY <3>2 DEF Attrs
  <2>5. Head(s) \in Attrs(s)
    BY <1>1, <2>1 DEF Attrs
  <2> QED
    BY <2>1, <2>3, <2>4, <2>5
<1>5. Attrs(<<>>) = {}
  BY DEF Attrs
<1> QED
  BY <1>2, <1>3, <1>4, <1>5

\* prepare_connection_attributes() makes a list of exactly the attributes that were given.
LEMMA PreparedAll ==
  ASSUME NEW given \in SUBSET Attributes
  PROVE  Prepared(given) \in Seq(Attributes) /\ Attrs(Prepared(given)) = given
<1> DEFINE p1 == Pushed("timeout", given)
           p2 == Pushed("azure_token", given)
           p3 == Pushed("sf_private_key", given)
           p4 == Pushed("sf_private_key_password", given)
<1>1. ASSUME NEW a \in Attributes
      PROVE  Pushed(a, given) \in Seq(Attributes) /\ Attrs(Pushed(a, given)) = given \cap {a}
  BY DEF Pushed, Attrs
<1>2. {"timeout", "azure_token", "sf_private_key", "sf_private_key_password"} = Attributes
  BY DEF Attributes
<1>3. /\ p1 \in Seq(Attributes) /\ Attrs(p1) = given \cap {"timeout"}
      /\ p2 \in Seq(Attributes) /\ Attrs(p2) = given \cap {"azure_token"}
      /\ p3 \in Seq(Attributes) /\ Attrs(p3) = given \cap {"sf_private_key"}
      /\ p4 \in Seq(Attributes) /\ Attrs(p4) = given \cap {"sf_private_key_password"}
  BY <1>1, <1>2
<1> HIDE DEF p1, p2, p3, p4
<1>4. p1 \o p2 \in Seq(Attributes) /\ Attrs(p1 \o p2) = Attrs(p1) \cup Attrs(p2)
  BY <1>3, AttrsOf
<1> DEFINE q2 == p1 \o p2
           q3 == q2 \o p3
<1> HIDE DEF q2, q3
<1>a. q2 \in Seq(Attributes) /\ Attrs(q2) = Attrs(p1) \cup Attrs(p2)
  BY <1>4 DEF q2
<1>5. q3 \in Seq(Attributes) /\ Attrs(q3) = Attrs(q2) \cup Attrs(p3)
  BY <1>3, <1>a, AttrsOf DEF q3
<1>6. q3 \o p4 \in Seq(Attributes) /\ Attrs(q3 \o p4) = Attrs(q3) \cup Attrs(p4)
  BY <1>3, <1>5, AttrsOf
<1>7. Attrs(q3 \o p4) = given
  BY <1>2, <1>3, <1>a, <1>5, <1>6
<1>8. Prepared(given) = q3 \o p4
  BY DEF Prepared, p1, p2, p3, p4, q2, q3
<1> QED
  BY <1>6, <1>7, <1>8

Building == {"allocenv", "setenv", "allocdbc", "freedbc", "reallocdbc", "setattr"}

\* While the connection is made, what is set and what is still to be set is what was given, and
\* the values of all of it are kept.
RequestOK ==
  /\ attributes \in Seq(Attributes)
  /\ set \subseteq Attributes /\ buffers \subseteq Attributes
  /\ at \in Building \ {"setattr"} => set = {}
  /\ at \in Building => buffers = request.given \ {"timeout"}
  /\ at \in Building \cup {"open"} => /\ set \cup Attrs(attributes) = request.given
                                     /\ zone = ZoneOffset(request.timezone)
  /\ at = "open" => attributes = <<>>

\* Every step keeps RequestOK.
LEMMA RequestStep == HandlesOK /\ ZonesOK /\ RequestOK /\ [Next]_vars => RequestOK'
<1> SUFFICES ASSUME HandlesOK, ZonesOK, RequestOK, [Next]_vars PROVE RequestOK'
  OBVIOUS
<1>z. ASSUME request' = request, zone' = zone PROVE (zone = ZoneOffset(request.timezone))'
        <=> zone = ZoneOffset(request.timezone)
  BY <1>z DEF ZoneOffset, IsFixedName, FixedOffsetFromName, FileOffset
<1>a. ASSUME NEW r \in Requests, Open(r) PROVE RequestOK'
  <2> DEFINE tz == Entry(map, r.timezone)
  <2>1. CASE at' = "allocenv"
    <3>1. /\ request' = r /\ zone' = tz.off /\ tz.loaded /\ set' = {}
          /\ attributes' = Prepared(r.given) /\ buffers' = Buffered(r.given)
      BY <1>a, <2>1 DEF Open
    <3>2. zone' = ZoneOffset(r.timezone)
      BY <3>1, RequestType, EntryOK DEF ZonesOK, ZoneOK
    <3>3. (zone = ZoneOffset(request.timezone))'
      BY <3>1, <3>2 DEF ZoneOffset, IsFixedName, FixedOffsetFromName, FileOffset
    <3>4. attributes' \in Seq(Attributes) /\ Attrs(attributes') = r.given
      BY <3>1, PreparedAll, RequestType
    <3>5. buffers' \subseteq Attributes /\ buffers' = r.given \ {"timeout"}
      BY <3>1, RequestType DEF Buffered
    <3> QED
      BY <2>1, <3>1, <3>3, <3>4, <3>5 DEF RequestOK, Building, Attrs
  <2>2. CASE at' # "allocenv"
    <3>1. at' = "none" /\ attributes' = attributes /\ buffers' = buffers /\ set' = {}
      BY <1>a, <2>2 DEF Open
    <3> QED
      BY <3>1 DEF RequestOK, Building
  <2> QED
    BY <2>1, <2>2
<1>b. ASSUME attributes' = attributes, set' = set, UNCHANGED <<request, zone>>,
             \/ at' = "none" /\ buffers' = {}
             \/ at' = "dealloc" /\ buffers' = buffers
             \/ /\ at \in Building /\ at' \in Building /\ buffers' = buffers
                /\ at' # "setattr" => set = {}
      PROVE  RequestOK'
  <2>1. at' \in Building => at \in Building /\ buffers' = buffers /\ (at' # "setattr" => set = {})
    BY <1>b DEF Building
  <2>2. at' # "open" /\ buffers' \in {{}, buffers}
    BY <1>b DEF Building
  <2> QED
    BY <1>b, <1>z, <2>1, <2>2 DEF RequestOK, Attrs
<1>c. CASE AllocEnv
  <2>1. /\ attributes' = attributes /\ set' = set /\ UNCHANGED <<request, zone>> /\ at = "allocenv"
        /\ \/ at' = "none" /\ buffers' = {}
           \/ at' = "setenv" /\ buffers' = buffers
    BY <1>c DEF AllocEnv, KeepRequest, Gone
  <2> QED
    BY <1>b, <2>1 DEF Building, RequestOK
<1>d. CASE SetEnv
  <2>1. /\ attributes' = attributes /\ set' = set /\ UNCHANGED <<request, zone>> /\ at = "setenv"
        /\ \/ at' = "none" /\ buffers' = {}
           \/ at' = "allocdbc" /\ buffers' = buffers
    BY <1>d DEF SetEnv, KeepRequest, Gone
  <2> QED
    BY <1>b, <2>1 DEF Building, RequestOK
<1>e. CASE AllocDbc
  <2>1. /\ attributes' = attributes /\ set' = set /\ UNCHANGED <<request, zone>> /\ at = "allocdbc"
        /\ \/ at' = "none" /\ buffers' = {}
           \/ at' = "freedbc" /\ buffers' = buffers
    BY <1>e DEF AllocDbc, KeepRequest, Gone
  <2> QED
    BY <1>b, <2>1 DEF Building, RequestOK
<1>f. CASE FreeDbc
  <2>1. /\ attributes' = attributes /\ UNCHANGED <<request, zone>> /\ at = "freedbc"
        /\ at' \in {"dealloc", "reallocdbc"} /\ buffers' = buffers /\ set' \in {set, {}}
    BY <1>f DEF FreeDbc, KeepRequest, Throws
  <2>2. set = {} /\ set' = set
    BY <2>1 DEF RequestOK, Building
  <2> QED
    BY <1>b, <2>1, <2>2 DEF Building
<1>g. CASE ReallocDbc
  <2>1. /\ attributes' = attributes /\ set' = set /\ UNCHANGED <<request, zone>> /\ at = "reallocdbc"
        /\ at' \in {"dealloc", "setattr"} /\ buffers' = buffers
    BY <1>g DEF ReallocDbc, KeepRequest, Throws
  <2> QED
    BY <1>b, <2>1 DEF Building
<1>h. CASE SetAttribute
  <2>1. /\ UNCHANGED <<request, zone>> /\ at = "setattr" /\ attributes # <<>> /\ buffers' = buffers
        /\ \/ /\ set' = set \cup {Head(attributes)} /\ attributes' = Tail(attributes)
              /\ at' = at
           \/ set' = set /\ attributes' = attributes /\ at' = "dealloc"
    BY <1>h DEF SetAttribute, KeepRequest, Throws
  <2>2. CASE set' = set \cup {Head(attributes)} /\ attributes' = Tail(attributes) /\ at' = at
    <3>1. /\ Head(attributes) \in Attributes /\ attributes' \in Seq(Attributes)
          /\ Attrs(attributes) = {Head(attributes)} \cup Attrs(attributes')
      BY <2>1, <2>2, AttrsOf DEF RequestOK
    <3>2. set' \cup Attrs(attributes') = request'.given
      BY <2>1, <2>2, <3>1 DEF RequestOK, Building
    <3>3. set' \subseteq Attributes
      BY <2>2, <3>1 DEF RequestOK
    <3> QED
      BY <1>z, <2>1, <2>2, <3>1, <3>2, <3>3 DEF RequestOK, Building, Attrs
  <2>3. CASE set' = set /\ attributes' = attributes /\ at' = "dealloc"
    BY <1>b, <2>1, <2>3
  <2> QED
    BY <2>1, <2>2, <2>3
<1>i. CASE DriverConnect
  <2>1. /\ UNCHANGED <<request, zone>> /\ at = "setattr" /\ attributes = <<>>
        /\ set' = set /\ attributes' = attributes
        /\ \/ at' = "open" /\ buffers' = {}
           \/ at' = "dealloc" /\ buffers' = buffers
    BY <1>i DEF DriverConnect, KeepRequest, Throws
  <2>2. CASE at' = "open" /\ buffers' = {}
    BY <1>z, <2>1, <2>2 DEF RequestOK, Building, Attrs
  <2>3. CASE at' = "dealloc" /\ buffers' = buffers
    BY <1>b, <2>1, <2>3
  <2> QED
    BY <2>1, <2>2, <2>3
<1>j. CASE Unwind
  <2>1. at' = "none" /\ buffers' = {} /\ set' = {} /\ attributes' = <<>>
    BY <1>j DEF Unwind, Gone
  <2> QED
    BY <2>1 DEF RequestOK, Building
<1>k. CASE Close
  <2>1. /\ attributes' = attributes /\ set' = set /\ UNCHANGED <<request, zone>>
        /\ at' = "dealloc" /\ buffers' = buffers
    BY <1>k DEF Close, KeepRequest
  <2> QED
    BY <1>b, <2>1
<1>l. CASE (\E stamp \in Stamps, o \in Offsets : ReadTimestamp(stamp, o)) \/ FilesChange
           \/ UNCHANGED vars
  <2>1. UNCHANGED conn
    BY <1>l DEF ReadTimestamp, FilesChange, vars
  <2> QED
    BY <1>z, <2>1 DEF conn, RequestOK, Attrs
<1> QED
  BY <1>a, <1>c, <1>d, <1>e, <1>f, <1>g, <1>h, <1>i, <1>j, <1>k, <1>l DEF Next

-----------------------------------------------------------------------------
(* Timestamps *)

\* A timestamp was read in its connection's zone, or with the zone that the map still has for
\* its offset.
Known(a) ==
  a.read =>
    /\ a.offset = 0 => a.value = a.stamp - a.conn
    /\ a.offset # 0 => /\ FixedOffsetToName(-a.offset) \in DOMAIN map
                       /\ a.value = a.stamp - map[FixedOffsetToName(-a.offset)].off
AnswerKnown == Known(answer)
NotedKnown == Known(noted)
AnswerOK == AnswerKnown /\ NotedKnown

\* A timestamp that is read: by the entry of the map before the step, and after it.
LEMMA ReadAnswer ==
  ASSUME ZonesOK, NEW stamp \in Stamps, NEW o \in Offsets, ReadTimestamp(stamp, o)
  PROVE  /\ answer'.read /\ answer'.stamp = stamp /\ answer'.offset = Offset(o)
         /\ Offset(o) = 0 => answer'.value = stamp - answer'.conn
         /\ Offset(o) # 0 =>
              LET n == FixedOffsetToName(-Offset(o)) IN
              /\ n \in DOMAIN map' /\ map'[n] = Entry(map, n)
              /\ answer'.loaded = Entry(map, n).loaded
              /\ answer'.value = stamp - Entry(map, n).off
              /\ ZoneOK(Entry(map, n), n)
<1> DEFINE n == FixedOffsetToName(-Offset(o))
<1>1. /\ answer'.read /\ answer'.stamp = stamp /\ answer'.offset = Offset(o)
      /\ answer'.loaded = Entry(map, n).loaded
      /\ Offset(o) = 0 => answer'.value = stamp - answer'.conn
      /\ Offset(o) # 0 => answer'.value = stamp - Entry(map, n).off
      /\ map' = IF Offset(o) = 0 THEN map ELSE Remember(map, n)
  BY DEF ReadTimestamp, as_double, fixed_time_zone, convert, Offset
<1>2. ASSUME Offset(o) # 0
      PROVE  n \in DOMAIN map' /\ map'[n] = Entry(map, n) /\ ZoneOK(Entry(map, n), n)
  <2>1. n \in EtcNames /\ n # UTC
    BY <1>2, OffsetName, NamesDiffer
  <2> HIDE DEF n
  <2>2. n \in ZoneNames /\ map' = Remember(map, n)
    BY <1>1, <1>2, <2>1 DEF ZoneNames
  <2> QED
    BY <2>1, <2>2, RememberOK, EntryOK DEF ZonesOK
<1> QED
  BY <1>1, <1>2

\* The zones a step asks for are added to the map.
LEMMA MapGrows ==
  ASSUME ZonesOK, [Next]_vars
  PROVE  /\ DOMAIN map \subseteq DOMAIN map'
         /\ \A n \in DOMAIN map : map'[n] = map[n]
<1>t. files \in Installed /\ MapOK(map)
  BY DEF ZonesOK
<1>a. ASSUME NEW r \in Requests, Open(r)
      PROVE  DOMAIN map \subseteq DOMAIN map' /\ \A n \in DOMAIN map : map'[n] = map[n]
  <2> DEFINE map1 == Remember(map, r.timezone)
             map2 == Remember(map1, r.timezone_out)
  <2>1. map' \in {map, map1, map2}
    BY <1>a DEF Open
  <2>2. MapOK(map1) /\ DOMAIN map \subseteq DOMAIN map1 /\ \A n \in DOMAIN map : map1[n] = map[n]
    BY <1>t, RequestType, RememberOK
  <2> HIDE DEF map1
  <2>3. DOMAIN map1 \subseteq DOMAIN map2 /\ \A n \in DOMAIN map1 : map2[n] = map1[n]
    BY <1>t, <2>2, RequestType, RememberOK
  <2> HIDE DEF map2
  <2> QED
    BY <2>1, <2>2, <2>3
<1>b. ASSUME NEW stamp \in Stamps, NEW o \in Offsets, ReadTimestamp(stamp, o)
      PROVE  DOMAIN map \subseteq DOMAIN map' /\ \A n \in DOMAIN map : map'[n] = map[n]
  <2>1. map' = IF Offset(o) = 0 THEN map ELSE Remember(map, FixedOffsetToName(-Offset(o)))
    BY <1>b DEF ReadTimestamp, Offset
  <2>2. Offset(o) # 0 => FixedOffsetToName(-Offset(o)) \in ZoneNames
    BY OffsetName DEF ZoneNames
  <2> QED
    BY <1>t, <2>1, <2>2, RememberOK
<1>c. CASE FilesChange \/ AllocEnv \/ SetEnv \/ AllocDbc \/ FreeDbc \/ ReallocDbc \/ SetAttribute
           \/ DriverConnect \/ Unwind \/ Close \/ UNCHANGED vars
  <2>1. map' = map
    BY <1>c DEF FilesChange, AllocEnv, SetEnv, AllocDbc, FreeDbc, ReallocDbc, SetAttribute,
                DriverConnect, Unwind, Close, KeepRequest, zones, vars
  <2> QED
    BY <2>1
<1> QED
  BY <1>a, <1>b, <1>c DEF Next

\* Only reading a timestamp changes the answer, and what is noted is the answer before.
LEMMA AnswerKept ==
  ASSUME [Next]_vars
  PROVE  /\ noted' \in {noted, answer}
         /\ (\A stamp \in Stamps, o \in Offsets : ~ReadTimestamp(stamp, o)) => answer' = answer
<1>1. CASE \E r \in Requests : Open(r)
  BY <1>1 DEF Open, reads
<1>2. CASE FilesChange \/ AllocEnv \/ SetEnv \/ AllocDbc \/ FreeDbc \/ ReallocDbc \/ SetAttribute
           \/ DriverConnect \/ Unwind \/ Close \/ UNCHANGED vars
  BY <1>2 DEF FilesChange, AllocEnv, SetEnv, AllocDbc, FreeDbc, ReallocDbc, SetAttribute,
              DriverConnect, Unwind, Close, KeepRequest, reads, vars
<1>3. CASE \E stamp \in Stamps, o \in Offsets : ReadTimestamp(stamp, o)
  BY <1>3 DEF ReadTimestamp
<1> QED
  BY <1>1, <1>2, <1>3 DEF Next

\* What a timestamp was read as stays so while the map grows.
LEMMA KnownStays ==
  ASSUME ZonesOK, [Next]_vars, NEW a, NEW b, Known(a), b = a
  PROVE  b.read =>
           /\ b.offset = 0 => b.value = b.stamp - b.conn
           /\ b.offset # 0 => /\ FixedOffsetToName(-b.offset) \in DOMAIN map'
                              /\ b.value = b.stamp - map'[FixedOffsetToName(-b.offset)].off
<1> DEFINE n == FixedOffsetToName(-a.offset)
<1>1. n \in DOMAIN map => n \in DOMAIN map' /\ map'[n] = map[n]
  BY MapGrows
<1> QED
  BY <1>1 DEF Known

\* An offset whose zone is loaded is one of whole hours.
LEMMA LoadedWhole ==
  ASSUME NEW n \in EtcNames, ZoneOffset(n) \in Int, ~IsFixedName(n)
  PROVE  ZoneOffset(n) % 3600 = 0
<1> DEFINE sign == IF n.sign = "+" THEN -1 ELSE 1
           h == sign * n.hours
<1>1. ZoneOffset(n) = sign * n.hours * 3600
  BY NamesDiffer DEF ZoneOffset, FileOffset
<1>2. n.hours \in Nat
  BY DEF EtcNames
<1>3. h \in Int /\ ZoneOffset(n) = h * 3600
  BY <1>1, <1>2
<1> HIDE DEF h
<1>4. (h * 3600) % 3600 = 0
  BY <1>3
<1> QED
  BY <1>3, <1>4

\* Every step keeps AnswerOK and honours the offset it reads.
LEMMA AnswerStep ==
  ZonesOK /\ AnswerOK /\ OffsetsHonoured /\ [Next]_vars => AnswerOK' /\ OffsetsHonoured'
<1> SUFFICES ASSUME ZonesOK, AnswerOK, OffsetsHonoured, [Next]_vars
             PROVE  AnswerOK' /\ OffsetsHonoured'
  OBVIOUS
<1>n. NotedKnown'
  <2>1. CASE noted' = noted
    BY <2>1, KnownStays DEF AnswerOK, AnswerKnown, NotedKnown, Known
  <2>2. CASE noted' = answer
    BY <2>2, KnownStays DEF AnswerOK, AnswerKnown, NotedKnown, Known
  <2> QED
    BY <2>1, <2>2, AnswerKept
<1>1. ASSUME NEW stamp \in Stamps, NEW o \in Offsets, ReadTimestamp(stamp, o)
      PROVE  AnswerKnown' /\ OffsetsHonoured'
  <2> DEFINE n == FixedOffsetToName(-Offset(o))
  <2>1. /\ answer'.read /\ answer'.stamp = stamp /\ answer'.offset = Offset(o)
        /\ Offset(o) = 0 => answer'.value = stamp - answer'.conn
    BY <1>1, ReadAnswer
  <2>2. CASE Offset(o) = 0
    <3>1. AnswerKnown'
      BY <2>1, <2>2 DEF AnswerKnown, Known
    <3>2. WholeHours(0)
      BY DEF WholeHours
    <3> QED
      BY <2>1, <2>2, <3>1, <3>2 DEF OffsetsHonoured
  <2>3. CASE Offset(o) # 0
    <3>1. /\ n \in DOMAIN map' /\ map'[n] = Entry(map, n)
          /\ answer'.loaded = Entry(map, n).loaded
          /\ answer'.value = stamp - Entry(map, n).off
          /\ ZoneOK(Entry(map, n), n)
      BY <1>1, <2>3, ReadAnswer
    <3>3. AnswerKnown'
      BY <2>1, <2>3, <3>1 DEF AnswerKnown, Known
    <3>4. ASSUME answer'.loaded PROVE Entry(map, n).off = Offset(o) /\ WholeHours(Offset(o))
      <4>1. n \in EtcNames /\ ~IsFixedName(n) /\ (n.parts = <<>> => ZoneOffset(n) = Offset(o))
        BY <2>3, OffsetName
      <4>2. ZoneOffset(n) = Offset(o) /\ Entry(map, n).off = Offset(o) /\ Entry(map, n).off \in Int
        BY <3>1, <3>4, <4>1 DEF ZoneOK, Zone
      <4> HIDE DEF n
      <4> QED
        BY <4>1, <4>2, LoadedWhole DEF WholeHours
    <3>5. ASSUME ~answer'.loaded PROVE Entry(map, n).off = 0
      BY <3>1, <3>5 DEF ZoneOK
    <3>6. stamp - 0 = stamp
      BY StampsAssumption
    <3> QED
      BY <2>1, <2>3, <3>1, <3>3, <3>4, <3>5, <3>6 DEF OffsetsHonoured
  <2> QED
    BY <2>2, <2>3
<1>2. CASE \A stamp \in Stamps, o \in Offsets : ~ReadTimestamp(stamp, o)
  <2>1. answer' = answer
    BY <1>2, AnswerKept
  <2>2. AnswerKnown'
    BY <2>1, KnownStays DEF AnswerOK, AnswerKnown, NotedKnown, Known
  <2>3. OffsetsHonoured'
    BY <2>1 DEF OffsetsHonoured
  <2> QED
    BY <1>n, <2>2, <2>3 DEF AnswerOK
<1> QED
  BY <1>n, <1>1, <1>2 DEF AnswerOK

-----------------------------------------------------------------------------
(* Theorems *)

SetupInv ==
  /\ ZonesOK /\ HandlesOK /\ FailedLoginsLoseNothing /\ RequestOK
  /\ AnswerOK /\ OffsetsHonoured

\* Nothing is known and nothing is open before the first call of odbc_connect.
LEMMA SetupInit == Init => SetupInv
<1> SUFFICES ASSUME Init PROVE SetupInv
  OBVIOUS
<1>1. ZonesOK
  BY DEF Init, ZonesOK, MapOK
<1>a. /\ at = "none" /\ env = FALSE /\ dbc = "null" /\ connected = FALSE
      /\ attributes = <<>> /\ set = {} /\ buffers = {}
      /\ lost = [env |-> 0, dbc |-> 0, session |-> 0] /\ refused = {}
  BY DEF Init
<1>2. HandlesOK /\ FailedLoginsLoseNothing
  <2>1. lost \in [env : Nat, dbc : Nat, session : Nat] /\ lost.env = 0 /\ lost.dbc = 0 /\ lost.session = 0
    BY <1>a
  <2>2. at \in Points /\ dbc \in {"null", "idle", "session"} /\ refused \subseteq Calls
    BY <1>a DEF Points
  <2>3. HandlesOK
    BY <1>a, <2>1, <2>2 DEF HandlesOK
  <2> QED
    BY <2>1, <2>3 DEF FailedLoginsLoseNothing
<1>3. RequestOK
  BY <1>a DEF RequestOK, Building
<1>4. AnswerOK /\ OffsetsHonoured
  BY DEF Init, AnswerOK, AnswerKnown, NotedKnown, Known, OffsetsHonoured, NoAnswer
<1> QED
  BY <1>1, <1>2, <1>3, <1>4 DEF SetupInv

\* Every step keeps the invariant.
LEMMA SetupStep == SetupInv /\ [Next]_vars => SetupInv'
BY ZonesStep, HandlesStep, RequestStep, AnswerStep DEF SetupInv

\* What the invariant says of an open connection.
LEMMA SetupInvExact == SetupInv => SetupExact
<1> SUFFICES ASSUME SetupInv PROVE SetupExact
  OBVIOUS
<1>1. TypeOK
  BY DEF SetupInv, HandlesOK, RequestOK, ZonesOK, MapOK, ZoneOK, TypeOK, Points
<1>2. OpenAsRequested
  <2>1. at = "open" => Attrs(attributes) = {}
    BY DEF SetupInv, RequestOK, Attrs
  <2> QED
    BY <2>1 DEF SetupInv, HandlesOK, RequestOK, Building, OpenAsRequested
<1>3. ReadsLiveBuffers
  BY DEF SetupInv, RequestOK, Building, ReadsLiveBuffers
<1> QED
  BY <1>1, <1>2, <1>3 DEF SetupExact

\* A connection is made of what dbConnect was given: every attribute is set on the handle that
\* gets the session, from memory that is there until SQLDriverConnect has returned, and the
\* connection's zone is that of its argument, whatever calls have failed before and whatever
\* zone files come and go.
THEOREM SetupIsExact == Spec => []SetupExact
BY SetupInit, SetupStep, SetupInvExact, PTL DEF Spec

\* A failed login or a refused attribute loses no handle and no session, unless the driver
\* manager has refused to give out or to free a handle, or SQLDisconnect has failed.
THEOREM NoHandleLost == Spec => []FailedLoginsLoseNothing
<1>1. SetupInv => FailedLoginsLoseNothing
  BY DEF SetupInv
<1> QED
  BY <1>1, SetupInit, SetupStep, PTL DEF Spec

\* What a DATETIMEOFFSET is read as, for every offset of hours and minutes: the instant it says
\* where its zone could be loaded, which is so of whole hours only; UTC where it could not; and
\* the connection's zone for "+00:00".
THEOREM OffsetsAreHonoured == Spec => []OffsetsHonoured
<1>1. SetupInv => OffsetsHonoured
  BY DEF SetupInv
<1> QED
  BY <1>1, SetupInit, SetupStep, PTL DEF Spec

\* Any two equal cells are equal instants, although connections and zone files may come and go
\* between them; cells of "+00:00" are so in connections of the same zone.
THEOREM CellsAgree == Spec => []SameCellSameInstant
<1>1. SetupInv => SameCellSameInstant
  BY DEF SetupInv, AnswerOK, AnswerKnown, NotedKnown, Known, SameCellSameInstant
<1> QED
  BY <1>1, SetupInit, SetupStep, PTL DEF Spec

\* A connection that decodes texts is a connection: decoding changes none of its state, so what
\* is proved of the one holds of the other.
THEOREM DecodingKeepsConnection == OpenSpec => Spec
<1>1. OpenInit => Init
  BY DEF OpenInit
<1>2. [OpenNext]_<<vars, texts>> => [Next]_vars
  BY DEF OpenNext, Setup
<1> QED
  BY <1>1, <1>2, PTL DEF OpenSpec, Spec

-----------------------------------------------------------------------------
(* Induction *)

\* The order of the natural numbers is well founded.
LEMMA OrderOfNat ==
  \E R : IsWellFoundedOn(R, Nat) /\ \A a, b \in Nat : <<a, b>> \in R <=> a < b
<1>1. IsWellFoundedOn(OpToRel(<, Nat), Nat)
  BY NatLessThanWellFounded
<1>2. \A a, b \in Nat : <<a, b>> \in OpToRel(<, Nat) <=> a < b
  BY DEF OpToRel
<1> QED
  BY <1>1, <1>2

\* Induction, as a statement about sets.
LEMMA Induct == \A S : 0 \in S /\ (\A n \in Nat : n \in S => n + 1 \in S) => Nat \subseteq S
<1> SUFFICES ASSUME NEW S, 0 \in S, \A n \in Nat : n \in S => n + 1 \in S, ~(Nat \subseteq S)
             PROVE  FALSE
  OBVIOUS
<1> DEFINE T == Nat \ S
<1>1. PICK R : IsWellFoundedOn(R, Nat) /\ \A a, b \in Nat : <<a, b>> \in R <=> a < b
  BY OrderOfNat
<1>2. PICK x \in T : \A y \in T : ~(<<y, x>> \in R)
  <2>1. IsWellFoundedOn(R, Nat) /\ T \subseteq Nat /\ T # {}
    BY <1>1
  <2> QED
    BY <2>1, WFMin, Zenon
<1>3. x \in Nat /\ x \notin S /\ x # 0 /\ x - 1 \in Nat
  BY <1>2
<1>4. x - 1 \in T
  BY <1>3
<1>5. <<x - 1, x>> \in R <=> x - 1 < x
  BY <1>1, <1>3
<1> QED
  BY <1>2, <1>3, <1>4, <1>5

\* f starts with s0 and goes on by g.
Iterate(f, S, s0, n, g) ==
  f \in [0..n -> S] /\ f[0] = s0 /\ \A i \in 1..n : f[i] = g[<<f[i - 1], i>>]
\* There is such a function: what a recursive definition describes exists.
LEMMA Iterates ==
  ASSUME NEW S, NEW s0 \in S, NEW n \in Nat, NEW g \in [S \X (1..n) -> S]
  PROVE  \E f : Iterate(f, S, s0, n, g)
<1> DEFINE Upto(m, f) == f \in [0..m -> S] /\ f[0] = s0 /\ \A i \in 1..m : f[i] = g[<<f[i - 1], i>>]
           M == {m \in Nat : m <= n => \E f : Upto(m, f)}
<1>1. 0 \in M
  <2>1. Upto(0, [i \in 0..0 |-> s0])
    OBVIOUS
  <2> QED
    BY <2>1
<1>2. ASSUME NEW m \in Nat, m \in M PROVE m + 1 \in M
  <2> SUFFICES ASSUME m + 1 <= n PROVE \E f : Upto(m + 1, f)
    OBVIOUS
  <2>1. PICK f : Upto(m, f)
    BY <1>2
  <2> DEFINE h == [i \in 0..m + 1 |-> IF i = m + 1 THEN g[<<f[m], m + 1>>] ELSE f[i]]
  <2>2. f[m] \in S /\ g[<<f[m], m + 1>>] \in S
    BY <2>1
  <2>3. h \in [0..m + 1 -> S] /\ h[0] = s0
    BY <2>1, <2>2
  <2>4. ASSUME NEW i \in 1..m + 1 PROVE h[i] = g[<<h[i - 1], i>>]
    <3>1. CASE i = m + 1
      <4>1. h[i] = g[<<f[m], m + 1>>] /\ h[i - 1] = f[m]
        BY <3>1
      <4> QED
        BY <3>1, <4>1
    <3>2. CASE i # m + 1
      <4>1. h[i] = f[i] /\ h[i - 1] = f[i - 1] /\ i \in 1..m
        BY <3>2
      <4> QED
        BY <4>1, <2>1
    <3> QED
      BY <3>1, <3>2
  <2> HIDE DEF h
  <2> QED
    BY <2>3, <2>4
<1>3. n \in M
  <2> HIDE DEF M
  <2> QED
    BY <1>1, <1>2, Induct
<1> QED
  BY <1>3 DEF Iterate

-----------------------------------------------------------------------------
(* The converter, one text after another *)

Text == Seq(Bytes)
Out == Seq(Bytes \X BOOLEAN)
Run == [shift : BOOLEAN, held : Out, out : Out, ok : BOOLEAN]

\* One byte keeps the shape of a conversion.
LEMMA FeedType == ASSUME NEW r \in Run, NEW b \in Bytes PROVE Feed(r, b) \in Run
<1>1. CASE ~r.ok
  BY <1>1 DEF Feed
<1>2. CASE r.ok
  <2>1. <<Char(b, r.shift)>> \in Out /\ r.out \o r.held \in Out
    BY DEF Char, Out, Run
  <2>2. r.out \o r.held \o <<Char(b, r.shift)>> \in Out
    BY <2>1 DEF Out
  <2>3. <<>> \in Out
    BY DEF Out
  <2> QED
    BY <1>2, <2>1, <2>2, <2>3 DEF Feed, Run, Bytes
<1> QED
  BY <1>1, <1>2

Began(d) == [shift |-> d.shift, held |-> d.held, out |-> <<>>, ok |-> TRUE]

\* Riconv() is what its recursion says: the state after each byte follows from the one before.
LEMMA RiconvRuns ==
  ASSUME NEW text \in Text, NEW d, Began(d) \in Run
  PROVE  \E f \in [0..Len(text) -> Run] :
           /\ f[0] = Began(d)
           /\ \A i \in 1..Len(text) : f[i] = Feed(f[i - 1], text[i])
           /\ Riconv(d, text) = f[Len(text)]
<1> DEFINE n == Len(text)
           g == [x \in Run \X (1..n) |-> Feed(x[1], text[x[2]])]
           body(f) == [i \in 0..n |-> IF i = 0 THEN Began(d) ELSE Feed(f[i - 1], text[i])]
           fix == CHOOSE f : f = body(f)
<1>1. n \in Nat /\ \A i \in 1..n : text[i] \in Bytes
  BY DEF Text
<1>2. g \in [Run \X (1..n) -> Run]
  BY <1>1, FeedType
<1>3. PICK f : Iterate(f, Run, Began(d), n, g)
  <2> HIDE DEF g, n
  <2> QED
    BY <1>1, <1>2, Iterates, Zenon
<1>4. ASSUME NEW i \in 1..n PROVE f[i] = Feed(f[i - 1], text[i])
  <2>1. <<f[i - 1], i>> \in Run \X (1..n)
    BY <1>1, <1>3 DEF Iterate
  <2>2. g[<<f[i - 1], i>>] = Feed(f[i - 1], text[i])
    BY <2>1
  <2> QED
    BY <1>3, <2>2 DEF Iterate
<1>5. f = body(f)
  BY <1>3, <1>4 DEF Iterate
<1>6. fix = body(fix)
  <2> HIDE DEF body
  <2> QED
    BY <1>5, Zenon
<1>7. Riconv(d, text) = fix[n]
  BY DEF Riconv, Began
<1>8. fix[0] = Began(d) /\ \A i \in 1..n : fix[i] = Feed(fix[i - 1], text[i])
  <2> HIDE DEF fix
  <2> QED
    BY <1>6, <1>1
<1>9. fix \in [0..n -> Run]
  <2> DEFINE M == {i \in Nat : i <= n => fix[i] \in Run}
  <2>1. 0 \in M
    BY <1>8
  <2>2. ASSUME NEW i \in Nat, i \in M PROVE i + 1 \in M
    <3> HIDE DEF fix
    <3> QED
      BY <1>1, <1>8, <2>2, FeedType
  <2>3. \A i \in 0..n : fix[i] \in Run
    <3> HIDE DEF M
    <3>1. Nat \subseteq M
      BY <2>1, <2>2, Induct
    <3> QED
      BY <3>1, <1>1 DEF M
  <2> HIDE DEF fix
  <2> QED
    BY <2>3, <1>6
<1> QED
  <2> HIDE DEF fix
  <2> QED
    BY <1>7, <1>8, <1>9

\* What the first m bytes of a text show.
ShownTo(text, m) ==
  [k \in 1..Cardinality(Chars(text, m)) |->
     Char(text[Place(text, k)], ShiftAt(text, Place(text, k)))]

\* Each byte adds one character, or none if it is a shift.
LEMMA CharsCount ==
  ASSUME NEW text, NEW m \in Nat
  PROVE  /\ IsFiniteSet(Chars(text, m)) /\ Cardinality(Chars(text, m)) \in Nat
         /\ Cardinality(Chars(text, 0)) = 0
         /\ text[m + 1] \in {"out", "in"} =>
              Cardinality(Chars(text, m + 1)) = Cardinality(Chars(text, m))
         /\ text[m + 1] \notin {"out", "in"} =>
              Cardinality(Chars(text, m + 1)) = Cardinality(Chars(text, m)) + 1
<1>1. IsFiniteSet(Chars(text, m)) /\ Cardinality(Chars(text, m)) \in Nat
  <2>1. IsFiniteSet(1..m)
    BY FS_Interval
  <2>2. Chars(text, m) \in SUBSET (1..m)
    BY DEF Chars
  <2> QED
    BY <2>1, <2>2, FS_Subset, FS_CardinalityType
<1>2. Cardinality(Chars(text, 0)) = 0
  <2>1. Chars(text, 0) = {}
    BY DEF Chars
  <2> QED
    BY <2>1, FS_EmptySet
<1>3. CASE text[m + 1] \in {"out", "in"}
  <2>1. Chars(text, m + 1) = Chars(text, m)
    <3>1. 1..m + 1 = (1..m) \cup {m + 1}
      OBVIOUS
    <3> QED
      BY <1>3, <3>1 DEF Chars
  <2> QED
    BY <1>1, <1>2, <1>3, <2>1
<1>4. CASE text[m + 1] \notin {"out", "in"}
  <2>1. Chars(text, m + 1) = Chars(text, m) \cup {m + 1}
    <3>1. 1..m + 1 = (1..m) \cup {m + 1}
      OBVIOUS
    <3> QED
      BY <1>4, <3>1 DEF Chars
  <2>2. m + 1 \notin Chars(text, m)
    BY DEF Chars
  <2>3. Cardinality(Chars(text, m + 1)) = Cardinality(Chars(text, m)) + 1
    BY <1>1, <2>1, <2>2, FS_AddElement
  <2> QED
    BY <1>1, <1>2, <1>4, <2>3
<1> QED
  BY <1>3, <1>4

\* A character is at the place of its count.
LEMMA CharsPlace ==
  ASSUME NEW text \in Text, NEW m \in Chars(text, Len(text))
  PROVE  Place(text, Cardinality(Chars(text, m))) = m
<1> DEFINE n == Len(text)
           C(i) == Cardinality(Chars(text, i))
<1>1. n \in Nat /\ Chars(text, n) \subseteq 1..n
  BY DEF Text, Chars
<1>2. ASSUME NEW i \in Nat, NEW j \in Chars(text, n), i < j PROVE C(i) < C(j)
  <2>1. j - 1 \in Nat /\ text[j] \notin {"out", "in"} /\ j - 1 + 1 = j /\ j \in Nat
    BY <1>1 DEF Chars
  <2>2. C(j) = C(j - 1) + 1 /\ C(j - 1) \in Nat /\ IsFiniteSet(Chars(text, j - 1))
    BY <2>1, CharsCount
  <2>3. Chars(text, i) \in SUBSET Chars(text, j - 1)
    BY <1>2, <2>1 DEF Chars
  <2>4. C(i) <= C(j - 1) /\ C(i) \in Nat
    BY <2>2, <2>3, FS_Subset, CharsCount
  <2> QED
    BY <2>2, <2>4
<1>3. ASSUME NEW i \in Chars(text, n), C(i) = C(m) PROVE i = m
  <2>1. i \in Nat /\ m \in Nat
    BY <1>1
  <2>2. C(i) \in Nat /\ C(m) \in Nat
    BY <2>1, CharsCount
  <2>3. ~(i < m) /\ ~(m < i)
    BY <1>2, <1>3, <2>1, <2>2
  <2> QED
    BY <2>1, <2>3
<1> QED
  BY <1>3 DEF Place

\* What a text shows grows by each byte that is no shift, read in the shift it stands in.
LEMMA ShownNext ==
  ASSUME NEW text \in Text, NEW m \in Nat, m < Len(text), ShownTo(text, m) \in Out
  PROVE  /\ ShownTo(text, m + 1) \in Out
         /\ text[m + 1] \in {"out", "in"} => ShownTo(text, m + 1) = ShownTo(text, m)
         /\ text[m + 1] \notin {"out", "in"} =>
              ShownTo(text, m + 1)
                = ShownTo(text, m) \o <<Char(text[m + 1], ShiftAt(text, m + 1))>>
<1> DEFINE C(i) == Cardinality(Chars(text, i))
           x == Char(text[m + 1], ShiftAt(text, m + 1))
<1>1. \A i \in 1..Len(text) : text[i] \in Bytes
  BY DEF Text
<1>2. Len(text) \in Nat /\ C(m) \in Nat /\ Len(ShownTo(text, m)) = C(m)
  BY CharsCount DEF Text, ShownTo
<1>3. CASE text[m + 1] \in {"out", "in"}
  BY <1>3, CharsCount DEF ShownTo
<1>4. CASE text[m + 1] \notin {"out", "in"}
  <2>1. C(m + 1) = C(m) + 1
    BY <1>4, CharsCount
  <2>2. Place(text, C(m + 1)) = m + 1
    <3>1. m + 1 \in Chars(text, Len(text))
      BY <1>2, <1>4 DEF Chars
    <3> QED
      BY <3>1, CharsPlace
  <2>3. x \in Bytes \X BOOLEAN
    <3>1. ShiftAt(text, m + 1) \in BOOLEAN
      BY DEF ShiftAt
    <3>2. text[m + 1] \in Bytes
      BY <1>1, <1>2
    <3> QED
      BY <3>1, <3>2 DEF Char
  <2>4. ShownTo(text, m + 1)[C(m) + 1] = x
    BY <1>2, <2>1, <2>2 DEF ShownTo
  <2>5. \A k \in 1..C(m) : ShownTo(text, m + 1)[k] = ShownTo(text, m)[k]
    BY <1>2, <2>1 DEF ShownTo
  <2>6. DOMAIN ShownTo(text, m + 1) = 1..C(m) + 1
        /\ ShownTo(text, m + 1) = [k \in 1..C(m) + 1 |-> ShownTo(text, m + 1)[k]]
    BY <2>1 DEF ShownTo
  <2> DEFINE s == ShownTo(text, m)
             t == ShownTo(text, m + 1)
             c == C(m)
  <2>7. s \o <<x>> \in Out /\ Len(s \o <<x>>) = c + 1 /\ (s \o <<x>>)[c + 1] = x
        /\ \A k \in 1..c : (s \o <<x>>)[k] = s[k]
    <3>1. <<x>> \in Out
      BY <2>3 DEF Out
    <3>2. s \in Out /\ Len(s) = c /\ c \in Nat
      BY <1>2
    <3> HIDE DEF s, x, c
    <3> QED
      BY <3>1, <3>2 DEF Out
  <2>8. t = s \o <<x>>
    <3>1. /\ c \in Nat /\ t = [k \in 1..c + 1 |-> t[k]] /\ t[c + 1] = x
          /\ \A k \in 1..c : t[k] = s[k]
      BY <1>2, <2>4, <2>5, <2>6
    <3> HIDE DEF s, t, x, c
    <3>2. \A k \in 1..c + 1 : t[k] = (s \o <<x>>)[k]
      <4>1. \A k \in 1..c + 1 : k \in 1..c \/ k = c + 1
        BY <3>1
      <4> QED
        BY <3>1, <2>7, <4>1, Zenon
    <3> QED
      BY <3>1, <3>2, <2>7 DEF Out
  <2> QED
    BY <1>4, <2>7, <2>8
<1> QED
  BY <1>3, <1>4

\* The shift that a byte stands in, from the byte before it.
LEMMA ShiftNext ==
  ASSUME NEW text \in Text, NEW m \in Nat, m < Len(text)
  PROVE  /\ ShiftAt(text, m + 1) \in BOOLEAN
         /\ text[m + 1] = "out" => ShiftAt(text, m + 2)
         /\ text[m + 1] = "in" => ~ShiftAt(text, m + 2)
         /\ text[m + 1] \notin {"out", "in"} => ShiftAt(text, m + 2) = ShiftAt(text, m + 1)
<1> DEFINE Since(i, j) == text[j] = "out" /\ \A k \in (j + 1)..(i - 1) : text[k] # "in"
<1>0. \A i : ShiftAt(text, i) <=> \E j \in 1..(i - 1) : Since(i, j)
  BY DEF ShiftAt
<1>1. ShiftAt(text, m + 1) \in BOOLEAN
  BY DEF ShiftAt
<1>2. CASE text[m + 1] = "out"
  <2>1. Since(m + 2, m + 1) /\ m + 1 \in 1..(m + 2 - 1)
    BY <1>2
  <2> QED
    BY <1>0, <1>1, <1>2, <2>1
<1>3. CASE text[m + 1] = "in"
  <2>1. ASSUME NEW j \in 1..(m + 2 - 1) PROVE ~Since(m + 2, j)
    <3>1. CASE j = m + 1
      BY <1>3, <3>1
    <3>2. CASE j # m + 1
      <4>1. m + 1 \in (j + 1)..(m + 2 - 1)
        BY <3>2
      <4> QED
        BY <1>3, <4>1
    <3> QED
      BY <3>1, <3>2
  <2> QED
    BY <1>0, <1>1, <1>3, <2>1
<1>4. CASE text[m + 1] \notin {"out", "in"}
  <2>1. ASSUME NEW j \in 1..m PROVE Since(m + 2, j) <=> Since(m + 1, j)
    <3>1. (j + 1)..(m + 2 - 1) = ((j + 1)..(m + 1 - 1)) \cup {m + 1}
      OBVIOUS
    <3> QED
      BY <1>4, <3>1
  <2>2. ~Since(m + 2, m + 1)
    BY <1>4
  <2>3. 1..(m + 2 - 1) = (1..(m + 1 - 1)) \cup {m + 1} /\ 1..(m + 1 - 1) = 1..m
    OBVIOUS
  <2>4. ShiftAt(text, m + 2) <=> ShiftAt(text, m + 1)
    <3> HIDE DEF Since
    <3> QED
      BY <1>0, <2>1, <2>2, <2>3
  <2>5. ShiftAt(text, m + 2) \in BOOLEAN
    BY DEF ShiftAt
  <2> QED
    BY <1>1, <1>4, <2>4, <2>5
<1> QED
  BY <1>2, <1>3, <1>4

\* What a new descriptor has made of the first i bytes of a text without an invalid one.
Reads(text, f, i) ==
  /\ f[i].ok
  /\ f[i].shift = ShiftAt(text, i + 1)
  /\ f[i].out \o f[i].held = ShownTo(text, i) /\ ShownTo(text, i) \in Out
  /\ f[i].held # <<>> =>
       \E j \in 1..i : text[j] = "base" /\ \A k \in (j + 1)..i : text[k] \in {"out", "in"}

\* The next byte goes on in this way.
LEMMA ReadsOn ==
  ASSUME NEW text \in Text, \A i \in 1..Len(text) : text[i] # "bad",
         NEW f \in [0..Len(text) -> Run], NEW i \in Nat, i < Len(text),
         f[i + 1] = Feed(f[i], text[i + 1]), Reads(text, f, i)
  PROVE  Reads(text, f, i + 1)
<1> DEFINE r == f[i]
           b == text[i + 1]
           x == Char(b, r.shift)
<1>1. b \in Bytes /\ b # "bad" /\ Len(text) \in Nat /\ i + 1 \in 1..Len(text)
  BY DEF Text
<1>2. r \in Run /\ r.ok /\ r.shift = ShiftAt(text, i + 1) /\ r.out \o r.held = ShownTo(text, i)
      /\ ShownTo(text, i) \in Out
  BY <1>1 DEF Reads
<1>3. r.out \in Out /\ r.held \in Out /\ x \in Bytes \X BOOLEAN
  BY <1>1, <1>2 DEF Run, Char
<1>4. ShownTo(text, i + 1) \in Out
  BY <1>2, ShownNext
<1>5. CASE b \in {"out", "in"}
  <2>1. f[i + 1].ok /\ f[i + 1].out = r.out /\ f[i + 1].held = r.held
        /\ f[i + 1].shift = (b = "out")
    BY <1>1, <1>2, <1>5 DEF Feed, Run
  <2>2. ShiftAt(text, i + 2) = (b = "out") /\ ShownTo(text, i + 1) = ShownTo(text, i)
    <3>1. ShiftAt(text, i + 2) \in BOOLEAN
      BY DEF ShiftAt
    <3> QED
      BY <3>1, <1>2, <1>5, ShiftNext, ShownNext
  <2>3. ASSUME r.held # <<>>
        PROVE  \E j \in 1..i + 1 : text[j] = "base" /\ \A k \in (j + 1)..i + 1 : text[k] \in {"out", "in"}
    <3>1. PICK j \in 1..i : text[j] = "base" /\ \A k \in (j + 1)..i : text[k] \in {"out", "in"}
      BY <2>3 DEF Reads
    <3>2. j \in 1..i + 1 /\ \A k \in (j + 1)..i + 1 : k \in (j + 1)..i \/ k = i + 1
      OBVIOUS
    <3> QED
      BY <3>1, <3>2, <1>5
  <2>4. f[i + 1].shift = ShiftAt(text, i + 1 + 1)
    BY <2>1, <2>2
  <2> QED
    BY <1>2, <1>4, <2>1, <2>2, <2>3, <2>4 DEF Reads
<1>6. CASE b \notin {"out", "in"}
  <2>1. /\ f[i + 1].ok /\ f[i + 1].shift = r.shift
        /\ b = "base" => f[i + 1].held = <<x>> /\ f[i + 1].out = r.out \o r.held
        /\ b # "base" => f[i + 1].held = <<>> /\ f[i + 1].out = r.out \o r.held \o <<x>>
    BY <1>1, <1>2, <1>6 DEF Feed, Run
  <2>2. ShiftAt(text, i + 2) = ShiftAt(text, i + 1)
    BY <1>6, ShiftNext
  <2>3. ShownTo(text, i + 1) = ShownTo(text, i) \o <<x>>
    BY <1>2, <1>6, ShownNext
  <2>4. f[i + 1].out \o f[i + 1].held = (r.out \o r.held) \o <<x>>
    <3>1. <<x>> \in Out /\ (r.out \o r.held) \o <<x>> \in Out
      BY <1>3 DEF Out
    <3>2. \A s \in Out : s \o <<>> = s
      BY DEF Out
    <3> QED
      BY <2>1, <3>1, <3>2
  <2>5. ASSUME f[i + 1].held # <<>>
        PROVE  \E j \in 1..i + 1 : text[j] = "base" /\ \A k \in (j + 1)..i + 1 : text[k] \in {"out", "in"}
    <3>1. text[i + 1] = "base"
      BY <2>1, <2>5
    <3> QED
      BY <3>1
  <2>6. f[i + 1].shift = ShiftAt(text, i + 1 + 1)
    BY <1>2, <2>1, <2>2
  <2> QED
    BY <1>2, <1>4, <2>1, <2>3, <2>4, <2>5, <2>6 DEF Reads
<1> QED
  BY <1>5, <1>6

\* A tidy text given to a new descriptor is decoded to what it shows, and leaves a new one.
LEMMA TidyReads ==
  ASSUME NEW text \in Text, Tidy(text)
  PROVE  /\ Riconv(Fresh, text).ok /\ Riconv(Fresh, text).out = Shown(text)
         /\ Riconv(Fresh, text).shift = FALSE /\ Riconv(Fresh, text).held = <<>>
         /\ Shown(text) \in Out
<1> DEFINE n == Len(text)
<1>1. Began(Fresh) = [shift |-> FALSE, held |-> <<>>, out |-> <<>>, ok |-> TRUE] /\ Began(Fresh) \in Run
  BY DEF Began, Fresh, Run, Out
<1>2. PICK f \in [0..n -> Run] :
        /\ f[0] = Began(Fresh)
        /\ \A i \in 1..n : f[i] = Feed(f[i - 1], text[i])
        /\ Riconv(Fresh, text) = f[n]
  BY <1>1, RiconvRuns
<1>3. n \in Nat /\ \A i \in 1..n : text[i] # "bad"
  BY DEF Text, Tidy
<1> DEFINE M == {i \in Nat : i <= n => Reads(text, f, i)}
<1>4. 0 \in M
  <2>1. ShownTo(text, 0) = <<>>
    BY CharsCount DEF ShownTo
  <2>4. ShiftAt(text, 0 + 1) = FALSE
    BY DEF ShiftAt
  <2>2. f[0].ok /\ f[0].shift = FALSE /\ f[0].held = <<>> /\ f[0].out = <<>>
    BY <1>1, <1>2
  <2>3. <<>> \in Out /\ <<>> \o <<>> = <<>>
    BY DEF Out
  <2> QED
    BY <2>1, <2>2, <2>3, <2>4 DEF Reads
<1>5. ASSUME NEW i \in Nat, i \in M PROVE i + 1 \in M
  <2> SUFFICES ASSUME i + 1 <= n PROVE Reads(text, f, i + 1)
    OBVIOUS
  <2>1. Reads(text, f, i) /\ i < n /\ f[i + 1] = Feed(f[i], text[i + 1])
    BY <1>2, <1>3, <1>5
  <2> QED
    BY <1>3, <2>1, ReadsOn
<1>6. Reads(text, f, n)
  <2> HIDE DEF M
  <2>1. n \in M
    BY <1>3, <1>4, <1>5, Induct
  <2> QED
    BY <1>3, <2>1 DEF M
<1>7. f[n].held = <<>>
  <2> SUFFICES ASSUME f[n].held # <<>> PROVE FALSE
    OBVIOUS
  <2>1. PICK j \in 1..n : text[j] = "base" /\ \A k \in (j + 1)..n : text[k] \in {"out", "in"}
    BY <1>6 DEF Reads
  <2> QED
    BY <2>1 DEF Tidy
<1>8. f[n].shift = FALSE
  <2>1. ~ShiftAt(text, n + 1)
    <3> SUFFICES ASSUME NEW j \in 1..n, text[j] = "out", \A k \in (j + 1)..n : text[k] # "in"
                 PROVE  FALSE
      BY <1>3 DEF ShiftAt
    <3> QED
      BY DEF Tidy
  <2>2. ShiftAt(text, n + 1) \in BOOLEAN
    BY DEF ShiftAt
  <2> QED
    BY <1>6, <2>1, <2>2 DEF Reads
<1>9. f[n].out = ShownTo(text, n) /\ ShownTo(text, n) \in Out /\ f[n].ok
  <2>1. f[n].out \in Out /\ f[n].out \o <<>> = f[n].out
    BY <1>3 DEF Run, Out
  <2> QED
    BY <1>6, <1>7, <2>1 DEF Reads
<1>10. ShownTo(text, n) = Shown(text)
  BY DEF ShownTo, Shown
<1> QED
  BY <1>2, <1>7, <1>8, <1>9, <1>10

-----------------------------------------------------------------------------
(***************************************************************************)
(* The encoders.  EachTextItsOwn only looks at the last text; what makes   *)
(* it inductive is that an encoder all of whose texts were tidy has the    *)
(* descriptor of a new one, and that nothing is left of a closed           *)
(* connection.                                                             *)
(***************************************************************************)
Descriptor == [null : BOOLEAN, shift : BOOLEAN, held : Out]
AllTidy(e) == \A i \in 1..Len(decoded[e]) : Tidy(decoded[e][i])

TextInv ==
  /\ cd \in [Encoders -> Descriptor]
  /\ buffer \in [Encoders -> Out]
  /\ decoded \in [Encoders -> Seq(Text)]
  /\ \A e \in Encoders : AllTidy(e) => cd[e].null \/ cd[e] = Fresh
  /\ at # "open" => last = NoText /\ decoded = [e \in Encoders |-> <<>>]
  /\ EachTextItsOwn

\* The descriptors of a new connection.
LEMMA NewDescriptors ==
  /\ Null \in Descriptor /\ Null.null
  /\ Fresh \in Descriptor /\ ~Fresh.null
  /\ \A from : Iconv(from) \in {Null, Fresh}
<1>1. <<>> \in Out
  BY DEF Out
<1> QED
  BY <1>1 DEF Null, Fresh, Iconv, Descriptor

\* A text that is decoded, by either encoder.
LEMMA TextStep ==
  ASSUME TextInv, NEW e \in Encoders, NEW text \in Texts,
         UNCHANGED vars, at = "open", Make_text(e, text),
         decoded' = [decoded EXCEPT ![e] = Append(@, text)]
  PROVE  TextInv'
<1>1. text \in Text /\ at' = "open" /\ e # "none"
  <2>1. text \in Text
    BY TextsAssumption DEF Text
  <2>2. at' = at
    BY DEF vars, conn
  <2> QED
    BY <2>1, <2>2 DEF Encoders
<1>2. cd \in [Encoders -> Descriptor] /\ buffer \in [Encoders -> Out] /\ decoded \in [Encoders -> Seq(Text)]
  BY DEF TextInv
<1>3. decoded' \in [Encoders -> Seq(Text)] /\ decoded'[e] = Append(decoded[e], text)
      /\ \A o \in Encoders \ {e} : decoded'[o] = decoded[o]
  <2>1. Append(decoded[e], text) \in Seq(Text)
    BY <1>1, <1>2
  <2> QED
    BY <1>2, <2>1
<1>4. AllTidy(e)' => AllTidy(e) /\ Tidy(text)
  <2>1. decoded[e] \in Seq(Text)
    BY <1>2
  <2>2. /\ Len(decoded'[e]) = Len(decoded[e]) + 1 /\ Len(decoded[e]) \in Nat
        /\ decoded'[e][Len(decoded[e]) + 1] = text
        /\ \A i \in 1..Len(decoded[e]) : decoded'[e][i] = decoded[e][i]
    BY <1>1, <1>3, <2>1
  <2>3. ASSUME AllTidy(e)' PROVE AllTidy(e) /\ Tidy(text)
    <3>1. \A i \in 1..Len(decoded'[e]) : Tidy(decoded'[e][i])
      BY <2>3 DEF AllTidy
    <3>2. Len(decoded[e]) + 1 \in 1..Len(decoded'[e])
          /\ \A i \in 1..Len(decoded[e]) : i \in 1..Len(decoded'[e])
      BY <2>2
    <3>3. Tidy(text)
      BY <3>1, <3>2, <2>2
    <3>4. \A i \in 1..Len(decoded[e]) : Tidy(decoded[e][i])
      BY <3>1, <3>2, <2>2
    <3> QED
      BY <3>3, <3>4 DEF AllTidy
  <2> QED
    BY <2>3
<1>5. ASSUME NEW o \in Encoders, o # e PROVE AllTidy(o)' => cd[o].null \/ cd[o] = Fresh
  <2>1. decoded'[o] = decoded[o]
    BY <1>3, <1>5
  <2>2. AllTidy(o)' => AllTidy(o)
    BY <2>1 DEF AllTidy
  <2> QED
    BY <2>2 DEF TextInv
<1>6. AllTidy(e)' => cd[e].null \/ cd[e] = Fresh
  BY <1>4 DEF TextInv
<1>7. CASE cd[e].null
  <2>1. /\ last' = [of |-> e, text |-> text, ok |-> TRUE, value |-> Made(e, Plain(text))]
        /\ cd' = cd /\ buffer' = buffer
    BY <1>7 DEF Make_text
  <2>2. EachTextItsOwn'
    BY <1>7, <2>1 DEF EachTextItsOwn
  <2>3. \A o \in Encoders : AllTidy(o)' => cd'[o].null \/ cd'[o] = Fresh
    BY <1>5, <1>7, <2>1
  <2> QED
    BY <1>1, <1>2, <1>3, <2>1, <2>2, <2>3 DEF TextInv
<1>8. CASE ~cd[e].null
  <2> DEFINE run == Riconv(cd[e], text)
             rest == SubSeq(buffer[e], Len(run.out) + 1, Len(buffer[e]))
             new == [cd[e] EXCEPT !.shift = run.shift, !.held = run.held]
             c == convert_text(e, text)
  <2>1. run \in Run
    <3>1. Began(cd[e]) \in Run
      <4>1. cd[e].shift \in BOOLEAN /\ cd[e].held \in Out /\ <<>> \in Out
        BY <1>2 DEF Descriptor, Out
      <4> QED
        BY <4>1 DEF Began, Run
    <3>2. PICK f \in [0..Len(text) -> Run] : Riconv(cd[e], text) = f[Len(text)]
      BY <1>1, <3>1, RiconvRuns
    <3>3. Len(text) \in 0..Len(text)
      BY <1>1 DEF Text
    <3> QED
      BY <3>2, <3>3
  <2>2. c.ok = run.ok /\ c.n = Len(run.out) /\ c.buffer = run.out \o rest /\ c.cd = new
    BY DEF convert_text
  <2>3. /\ last'.of = e /\ last'.text = text /\ last'.ok = run.ok
        /\ run.ok => last'.value = Made(e, Taken(run.out \o rest, Len(run.out)))
        /\ cd' = [cd EXCEPT ![e] = new]
        /\ buffer' = [buffer EXCEPT ![e] = run.out \o rest]
    <3>1. /\ last' = [of |-> e, text |-> text, ok |-> c.ok,
                     value |-> IF c.ok THEN Made(e, Taken(c.buffer, c.n)) ELSE <<>>]
          /\ cd' = [cd EXCEPT ![e] = c.cd]
          /\ buffer' = [buffer EXCEPT ![e] = c.buffer]
      BY <1>8 DEF Make_text
    <3> HIDE DEF c, run, rest, new
    <3> QED
      BY <2>2, <3>1
  <2>4. run.out \in Out /\ run.out \o rest \in Out /\ Taken(run.out \o rest, Len(run.out)) = run.out
    <3>1. run.out \in Out /\ buffer[e] \in Out
      BY <1>2, <2>1 DEF Run
    <3>2. rest \in Out
      <4> HIDE DEF run
      <4> QED
        BY <3>1 DEF Out
    <3> HIDE DEF run, rest
    <3> QED
      BY <3>1, <3>2 DEF Out, Taken
  <2>5. new \in Descriptor /\ new.null = cd[e].null /\ new.shift = run.shift /\ new.held = run.held
    <3>1. cd[e] \in Descriptor
      BY <1>2
    <3> HIDE DEF run
    <3> QED
      BY <2>1, <3>1 DEF Run, Descriptor
  <2>6. cd' \in [Encoders -> Descriptor] /\ buffer' \in [Encoders -> Out] /\ cd'[e] = new
        /\ \A o \in Encoders \ {e} : cd'[o] = cd[o]
    <3> HIDE DEF new, run, rest
    <3> QED
      BY <1>2, <2>3, <2>4, <2>5
  <2>7. ASSUME AllTidy(e)'
        PROVE  run.ok /\ run.out = Shown(text) /\ new = Fresh
    <3>1. cd[e] = Fresh /\ Tidy(text)
      BY <1>4, <1>6, <1>8, <2>7
    <3>2. run.ok /\ run.out = Shown(text) /\ run.shift = FALSE /\ run.held = <<>>
      BY <1>1, <3>1, TidyReads
    <3>3. Fresh.null = FALSE /\ Fresh.shift = FALSE /\ Fresh.held = <<>> /\ Fresh \in Descriptor
      BY NewDescriptors DEF Fresh
    <3>4. \A a, b \in Descriptor : a.null = b.null /\ a.shift = b.shift /\ a.held = b.held => a = b
      BY DEF Descriptor
    <3>5. new.null = FALSE /\ new.shift = FALSE /\ new.held = <<>>
      BY <2>5, <3>1, <3>2, <3>3
    <3> HIDE DEF new, run
    <3> QED
      BY <2>5, <3>2, <3>3, <3>4, <3>5
  <2>8. EachTextItsOwn'
    <3> SUFFICES ASSUME AllTidy(e)'
                 PROVE  last'.ok /\ last'.value = Made(e, Shown(last'.text))
      BY <1>8, <2>3, <2>5, <2>6 DEF EachTextItsOwn, AllTidy
    <3> HIDE DEF run, rest, new
    <3> QED
      BY <2>3, <2>4, <2>7
  <2>9. \A o \in Encoders : AllTidy(o)' => cd'[o].null \/ cd'[o] = Fresh
    <3> HIDE DEF run, rest, new
    <3> QED
      BY <1>5, <2>6, <2>7
  <2> QED
    BY <1>1, <1>3, <2>6, <2>8, <2>9 DEF TextInv
<1> QED
  BY <1>7, <1>8

\* Connecting, closing and all that happens between texts.
LEMMA SetupTexts == TextInv /\ Setup => TextInv'
<1> SUFFICES ASSUME TextInv, Setup PROVE TextInv'
  OBVIOUS
<1>0. Next
  BY DEF Setup
<1>1. cd \in [Encoders -> Descriptor] /\ buffer \in [Encoders -> Out] /\ decoded \in [Encoders -> Seq(Text)]
  BY DEF TextInv
<1>2. \A e \in Encoders : cd'[e] \in {Null, Fresh} \/ cd' = cd
  BY NewDescriptors DEF Setup, Encoders
<1>3. cd' \in [Encoders -> Descriptor]
  BY <1>1, NewDescriptors DEF Setup, Encoders
<1>4. at' \in {"none", "dealloc"} => cd' = [e \in Encoders |-> Null]
  BY DEF Setup
<1>5. CASE at' = at
  <2>1. buffer' = buffer /\ decoded' = decoded /\ last' = last
    BY <1>5 DEF Setup
  <2>2. \A e \in Encoders : AllTidy(e)' => cd'[e].null \/ cd'[e] = Fresh
    <3>1. \A e \in Encoders : AllTidy(e)' => AllTidy(e)
      BY <2>1 DEF AllTidy
    <3> QED
      BY <1>2, <3>1, NewDescriptors DEF TextInv
  <2>3. EachTextItsOwn'
    <3>1. CASE at = "open"
      <4>1. cd' = cd
        BY <1>5, <3>1 DEF Setup
      <4> QED
        BY <2>1, <4>1 DEF TextInv, EachTextItsOwn
    <3>2. CASE at # "open"
      <4>1. last'.of = "none"
        BY <2>1, <3>2 DEF TextInv, NoText
      <4> QED
        BY <4>1 DEF EachTextItsOwn, Encoders
    <3> QED
      BY <3>1, <3>2
  <2> QED
    BY <1>1, <1>3, <1>5, <2>1, <2>2, <2>3 DEF TextInv
<1>6. CASE at' # at
  <2>1. buffer' = [e \in Encoders |-> <<>>] /\ decoded' = [e \in Encoders |-> <<>>] /\ last' = NoText
    BY <1>6 DEF Setup
  <2>2. \A e \in Encoders : cd'[e].null \/ cd'[e] = Fresh
    <3>1. CASE at = "open"
      <4>1. at' = "dealloc"
        BY <1>0, <1>6, <3>1
           DEF Next, Open, AllocEnv, SetEnv, AllocDbc, FreeDbc, ReallocDbc, SetAttribute, DriverConnect,
               Unwind, Close, ReadTimestamp, FilesChange, conn
      <4> QED
        BY <1>4, <4>1, NewDescriptors
    <3>2. CASE at # "open"
      <4>1. decoded = [e \in Encoders |-> <<>>]
        BY <3>2 DEF TextInv
      <4>2. \A e \in Encoders : AllTidy(e)
        BY <4>1 DEF AllTidy
      <4> QED
        BY <1>2, <4>2, NewDescriptors DEF TextInv
    <3> QED
      BY <3>1, <3>2
  <2>3. EachTextItsOwn'
    BY <2>1 DEF EachTextItsOwn, NoText, Encoders
  <2>4. buffer' \in [Encoders -> Out] /\ decoded' \in [Encoders -> Seq(Text)]
    BY <2>1 DEF Out
  <2> QED
    BY <1>3, <2>1, <2>2, <2>3, <2>4 DEF TextInv
<1> QED
  BY <1>5, <1>6

\* What a text is decoded to depends on its own bytes alone, for texts of any length and any number
\* of them, if the texts before it on its encoder ended where a new descriptor begins
\* (Iconv::convert, which never resets its descriptor or its buffer).
THEOREM TextsTheirOwn == OpenSpec => []EachTextItsOwn
<1>1. OpenInit => TextInv
  <2> SUFFICES ASSUME OpenInit PROVE TextInv
    OBVIOUS
  <2>1. cd = [e \in Encoders |-> Null] /\ buffer = [e \in Encoders |-> <<>>]
        /\ decoded = [e \in Encoders |-> <<>>] /\ last = NoText
    BY DEF OpenInit
  <2>2. buffer \in [Encoders -> Out] /\ decoded \in [Encoders -> Seq(Text)]
    BY <2>1 DEF Out
  <2>3. EachTextItsOwn
    BY <2>1 DEF EachTextItsOwn, NoText, Encoders
  <2> QED
    BY <2>1, <2>2, <2>3, NewDescriptors DEF TextInv
<1>2. TextInv /\ [OpenNext]_<<vars, texts>> => TextInv'
  <2> SUFFICES ASSUME TextInv, [OpenNext]_<<vars, texts>> PROVE TextInv'
    OBVIOUS
  <2>1. CASE Setup
    BY <2>1, SetupTexts
  <2>2. ASSUME UNCHANGED vars, NEW text \in Texts, ReadText(text) PROVE TextInv'
    BY <2>2, TextStep DEF ReadText, Encoders
  <2>3. ASSUME UNCHANGED vars, NEW text \in Texts, ReadName(text) PROVE TextInv'
    BY <2>3, TextStep DEF ReadName, Encoders
  <2>4. CASE UNCHANGED <<vars, texts>>
    <3>1. at' = at /\ cd' = cd /\ buffer' = buffer /\ decoded' = decoded /\ last' = last
      BY <2>4 DEF vars, texts, conn
    <3>2. EachTextItsOwn' <=> EachTextItsOwn
      BY <3>1 DEF EachTextItsOwn
    <3>3. \A e : AllTidy(e)' <=> AllTidy(e)
      BY <3>1 DEF AllTidy
    <3> QED
      BY <3>1, <3>2, <3>3 DEF TextInv
  <2> QED
    BY <2>1, <2>2, <2>3, <2>4 DEF OpenNext
<1>3. TextInv => EachTextItsOwn
  BY DEF TextInv
<1> QED
  BY <1>1, <1>2, <1>3, PTL DEF OpenSpec
=============================================================================
