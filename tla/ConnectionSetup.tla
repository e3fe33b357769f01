---------------------------- MODULE ConnectionSetup ----------------------------
(***************************************************************************)
(* How dbConnect builds a connection and dbDisconnect takes it down, and   *)
(* the time zones a connection and its timestamps are read in.             *)
(*                                                                         *)
(* The constructor of odbc_connection makes the encoders, loads two time   *)
(* zones by name, collects the attributes and creates the                  *)
(* nanodbc::connection, whose constructor allocates an environment and a   *)
(* connection handle, drops and reallocates the latter, sets the           *)
(* attributes and calls SQLDriverConnect.  Each of those calls may fail.   *)
(*                                                                         *)
(* cctz keeps every zone it has been asked for in a map by name, and a     *)
(* name it could not load as UTC.  A DATETIMEOFFSET value is read in the   *)
(* zone whose name FixedOffsetToName makes from its offset.  Here a zone   *)
(* is its offset in seconds; TimeZoneInfo has the ones that change theirs. *)
(***************************************************************************)
EXTENDS Integers, Sequences, FiniteSets

CONSTANTS
  MaxOpens,   \* bound: calls of odbc_connect
  Requests,   \* the arguments of odbc_connect, see Open
  Installed,  \* the sets of zoneinfo files a system may have, of names
  NamedOff,   \* offsets of the named zones, a function
  Offsets,    \* bound: offsets of the timestamps, <<hours, minutes>>
  Stamps,     \* bound: their civil times
  Faults      \* the driver calls that may fail, see Calls

Calls == {"allocenv", "setenv", "allocdbc", "setattr", "connect", "disconnect",
          "freedbc", "freeenv"}
Attributes == {"timeout", "azure_token", "sf_private_key", "sf_private_key_password"}

\* Encodings, "other" than UTF-8 and "unknown" to Riconv_open().
Encodings == {"", "UTF-8", "other", "unknown"}

\* The names of time zones: "UTC" and those of a place, or "Etc/GMT", a sign, the hours without a
\* leading zero, and the parts after a colon.
PlaceNames == [name : {"UTC"} \cup DOMAIN NamedOff]
EtcNames == [sign : {"+", "-"}, hours : Nat, parts : Seq(Nat)]
ZoneNames == PlaceNames \cup EtcNames

ASSUME BoundsAssumption == MaxOpens \in Nat
ASSUME FaultsAssumption == Faults \subseteq Calls
ASSUME RequestsAssumption ==
  Requests \subseteq [encoding : Encodings, name_encoding : Encodings,
                     timezone : ZoneNames, timezone_out : ZoneNames, given : SUBSET Attributes]
\* The files of Etc are those of whole hours, as in the time zone database.
ASSUME InstalledAssumption ==
  \A names \in Installed : \A n \in names :
    \/ n \in PlaceNames /\ NamedOff[n.name] \in Int
    \/ n \in EtcNames /\ n.parts = <<>>
\* The offset of a DATETIMEOFFSET is at most 14 hours, and its minutes have the sign of the hours.
ASSUME OffsetsAssumption == Offsets \subseteq (-14 .. 14) \X (-59 .. 59)
ASSUME StampsAssumption == Stamps \subseteq Int

VARIABLES
  files,      \* the zoneinfo files there are now
  map,        \* time_zone_map: the names asked for, with the zone or UTC
  at,         \* the next call that odbc_connect makes, or "none", "open", "dealloc"
  request,    \* its arguments
  zone,       \* timezone_
  env, dbc,   \* env_: is it null; dbc_: null, idle, or with a session
  connected,  \* connected_
  attributes, \* the attributes still to be set, in order
  set,        \* those set on the present handle; the driver keeps pointers to their values
  buffers,    \* the values whose memory is allocated: buffer_context
  lost,       \* handles and sessions that no object knows of any more
  refused,    \* the calls that have ever been refused
  opens,      \* calls of odbc_connect
  answer,     \* the last timestamp read
  noted       \* history: an earlier one, any of those read in the life of the process
zones == <<files, map>>
conn == <<at, request, zone, env, dbc, connected, attributes, set, buffers, lost, refused, opens>>
reads == <<answer, noted>>
vars == <<zones, conn, reads>>

--------------------------------------------------------------------------------
(* Names of zones *)

Quot(a, b) == IF a >= 0 THEN a \div b ELSE -((-a) \div b)
Rem(a, b) == a - b * Quot(a, b)
Abs(a) == IF a < 0 THEN -a ELSE a

UTC == [name |-> "UTC"]
Named(n) == [name |-> n]
Etc(sign, hours, parts) == [sign |-> sign, hours |-> hours, parts |-> parts]

\* The name of a fixed offset: minutes and seconds are left out when they are zero.
FixedOffsetToName(offset) ==
  LET secs == Rem(Abs(offset), 60)
      mins == Rem(Quot(Abs(offset), 60), 60)
      hours == Quot(Abs(offset), 3600)
      part(v) == IF v # 0 THEN <<v>> ELSE <<>>
  IN  IF offset = 0 \/ Abs(offset) > 24 * 3600 THEN UTC
      ELSE Etc(IF offset < 0 THEN "-" ELSE "+", hours, part(mins) \o part(secs))

\* Only "+99:99:99", with all its digits, is recognised: two-digit hours and both parts.
IsFixedName(name) == name = UTC \/ ("sign" \in DOMAIN name /\ name.hours >= 10 /\ Len(name.parts) = 2)
FixedOffsetFromName(name) ==
  IF name = UTC THEN 0
  ELSE (IF name.sign = "-" THEN -1 ELSE 1)
         * (name.parts[2] + (name.hours * 60 + name.parts[1]) * 60)

\* What the file of a zone says: Etc/GMT+5 is five hours west of Greenwich.
FileOffset(name) ==
  IF "name" \in DOMAIN name THEN NamedOff[name.name]
  ELSE (IF name.sign = "+" THEN -1 ELSE 1) * name.hours * 3600

\* The offset of the zone of a name, if there is one.
ZoneOffset(name) == IF IsFixedName(name) THEN FixedOffsetFromName(name) ELSE FileOffset(name)

\* What a new Impl for the name has as zone_; nothing when there is no such file.
NoZone == [loaded |-> FALSE, off |-> 0]
Make(name) ==
  IF IsFixedName(name) \/ name \in files THEN [loaded |-> TRUE, off |-> ZoneOffset(name)]
  ELSE NoZone

\* Mutant: the map is written and never read.
MutEntry(m, name) == IF name = UTC THEN [loaded |-> TRUE, off |-> 0] ELSE Make(name)
\* Impl::LoadTimeZone: the entry a name has, or gets, in the map.  UTC is never a key.
Entry(m, name) ==
  CASE name = UTC -> [loaded |-> TRUE, off |-> 0]
    [] name # UTC /\ name \in DOMAIN m -> m[name]
    [] OTHER -> Make(name)
Remember(m, name) ==
  IF name = UTC \/ name \in DOMAIN m THEN m
  ELSE [n \in DOMAIN m \cup {name} |-> IF n = name THEN Make(name) ELSE m[n]]

\* The time zone that fixed_time_zone gives: UTC when the name cannot be loaded.
fixed_time_zone(offset) == Entry(map, FixedOffsetToName(offset))

--------------------------------------------------------------------------------
(* Reading a DATETIMEOFFSET *)

convert(stamp, off) == stamp - off
NoAnswer == [read |-> FALSE]

\* Mutant: the offset is not negated.
MutAsDouble(stamp, offset) ==
  LET tz == fixed_time_zone(offset) IN
  [read |-> TRUE, stamp |-> stamp, offset |-> offset, loaded |-> tz.loaded, conn |-> zone,
   value |-> IF offset = 0 THEN convert(stamp, zone) ELSE convert(stamp, tz.off)]
\* as_double(timestampoffset).  The name is made from the negated offset: Etc/GMT counts the
\* other way.  No offset at all is taken for none given, and the time for one of the
\* connection's zone.  The warning of a zone that is not there, and the connection's zone in
\* its place, are for what the library writes to std::clog; it writes nothing.
as_double(stamp, offset) ==
  LET tz == fixed_time_zone(-offset) IN
  [read |-> TRUE, stamp |-> stamp, offset |-> offset, loaded |-> tz.loaded, conn |-> zone,
   value |-> IF offset = 0 THEN convert(stamp, zone) ELSE convert(stamp, tz.off)]

ReadTimestamp(stamp, o) ==
  LET offset == o[1] * 3600 + o[2] * 60 IN
  /\ at = "open"
  /\ answer' = as_double(stamp, offset)
  /\ noted' \in IF noted.read THEN {noted} ELSE {noted, answer}
  /\ map' = IF offset = 0 THEN map ELSE Remember(map, FixedOffsetToName(-offset))
  /\ UNCHANGED <<files, conn>>

--------------------------------------------------------------------------------
(* The constructor *)

Pushed(a, given) == IF a \in given THEN <<a>> ELSE <<>>
\* Mutant: the password is forgotten when there is a timeout.
MutPrepared(given) ==
  Pushed("timeout", given) \o Pushed("azure_token", given) \o Pushed("sf_private_key", given)
    \o Pushed("sf_private_key_password", IF "timeout" \in given THEN {} ELSE given)
\* prepare_connection_attributes: the attributes in the order of the code, each with a buffer
\* that lives until the connection is made, but for the timeout, which is a number.
Prepared(given) ==
  Pushed("timeout", given) \o Pushed("azure_token", given) \o Pushed("sf_private_key", given)
    \o Pushed("sf_private_key_password", given)
Buffered(given) == given \ {"timeout"}

Fails(call) == call \in Faults /\ refused' = refused \cup {call}
Works == UNCHANGED refused
KeepRequest == UNCHANGED <<request, zone, opens, reads, zones>>

\* odbc_connect up to the handles: encoders, time zones, attributes.  An R error leaves nothing.
Open(r) ==
  LET tz == Entry(map, r.timezone)
      map1 == Remember(map, r.timezone)
      tz_out == Entry(map1, r.timezone_out)
      known == "unknown" \notin {r.encoding, r.name_encoding}
  IN  /\ at = "none" /\ opens < MaxOpens
      /\ opens' = opens + 1
      /\ map' = CASE ~known -> map
                  [] known /\ ~tz.loaded -> map1
                  [] OTHER -> Remember(map1, r.timezone_out)
      /\ IF known /\ tz.loaded /\ tz_out.loaded
         THEN /\ at' = "allocenv"
              /\ request' = r /\ zone' = tz.off
              /\ attributes' = Prepared(r.given) /\ buffers' = Buffered(r.given)
         ELSE UNCHANGED <<at, request, zone, attributes, buffers>>
      /\ env' = FALSE /\ dbc' = "null" /\ set' = {}
      /\ UNCHANGED <<files, connected, lost, refused, reads>>

\* The constructor has failed: its fields are gone, with the handles they still held, and so
\* are the buffers, at the end of the block.
Gone ==
  /\ at' = "none"
  /\ lost' = [env |-> lost.env + (IF env' THEN 1 ELSE 0),
              dbc |-> lost.dbc + (IF dbc' = "null" THEN 0 ELSE 1),
              session |-> lost.session + (IF dbc' = "session" THEN 1 ELSE 0)]
  /\ buffers' = {}

\* SQLFreeHandle of the environment, which may fail as well.
FreesEnv == env' \in {FALSE} \cup {b \in {TRUE} : "freeenv" \in Faults}

\* allocate_env_handle: SQLAllocHandle, then SQLSetEnvAttr, whose failure frees the handle again.
AllocEnv ==
  /\ at = "allocenv"
  /\ \/ Works /\ at' = "setenv" /\ env' = TRUE /\ UNCHANGED <<lost, buffers, dbc>>
     \/ Fails("allocenv") /\ env' = FALSE /\ UNCHANGED dbc /\ Gone
  /\ KeepRequest /\ UNCHANGED <<connected, attributes, set>>

SetEnv ==
  /\ at = "setenv"
  /\ \/ Works /\ at' = "allocdbc" /\ UNCHANGED <<env, dbc, lost, buffers>>
     \/ /\ "setenv" \in Faults
        /\ FreesEnv
        /\ refused' = refused \cup {"setenv"} \cup (IF env' THEN {"freeenv"} ELSE {})
        /\ UNCHANGED dbc /\ Gone
  /\ KeepRequest /\ UNCHANGED <<connected, attributes, set>>

\* allocate_dbc_handle, called by allocate(), before the try block of the constructor.
AllocDbc ==
  /\ at = "allocdbc"
  /\ \/ Works /\ at' = "freedbc" /\ dbc' = "idle" /\ UNCHANGED <<env, lost, buffers>>
     \/ Fails("allocdbc") /\ dbc' = "null" /\ UNCHANGED env /\ Gone
  /\ KeepRequest /\ UNCHANGED <<connected, attributes, set>>

\* A throw of connect(), whose handler in the constructor deallocates.
Throws == at' = "dealloc" /\ UNCHANGED <<lost, buffers>>

\* connect() starts with a fresh handle.
FreeDbc ==
  /\ at = "freedbc"
  /\ \/ Works /\ at' = "reallocdbc" /\ dbc' = "null" /\ UNCHANGED <<lost, buffers>>
     \/ Fails("freedbc") /\ Throws /\ UNCHANGED dbc
  /\ set' = IF dbc' = "null" THEN {} ELSE set
  /\ KeepRequest /\ UNCHANGED <<env, connected, attributes>>

ReallocDbc ==
  /\ at = "reallocdbc"
  /\ \/ Works /\ at' = "setattr" /\ dbc' = "idle" /\ UNCHANGED <<lost, buffers>>
     \/ Fails("allocdbc") /\ Throws /\ UNCHANGED dbc
  /\ KeepRequest /\ UNCHANGED <<env, connected, attributes, set>>

SetAttribute ==
  /\ at = "setattr" /\ attributes # <<>>
  /\ \/ Works /\ set' = set \cup {Head(attributes)} /\ attributes' = Tail(attributes)
          /\ UNCHANGED <<at, lost, buffers>>
     \/ Fails("setattr") /\ Throws /\ UNCHANGED <<set, attributes>>
  /\ KeepRequest /\ UNCHANGED <<env, dbc, connected>>

\* SQLDriverConnect, which reads the values that the attributes point to.  When it is done the
\* block that holds them ends.
DriverConnect ==
  /\ at = "setattr" /\ attributes = <<>>
  /\ \/ Works /\ at' = "open" /\ dbc' = "session" /\ connected' = TRUE
          /\ buffers' = {} /\ UNCHANGED lost
     \/ Fails("connect") /\ Throws /\ UNCHANGED <<dbc, connected>>
  /\ KeepRequest /\ UNCHANGED <<env, attributes, set>>

\* Mutant: only the connection handle is freed.
MutDeallocate == dbc' = "null" /\ UNCHANGED <<env, refused>>
\* deallocate(): the connection handle, and the environment only when that went well.  The
\* driver manager frees no handle with a session.
Deallocate ==
  \/ /\ dbc # "session"
     /\ dbc' = "null" /\ FreesEnv
     /\ refused' = IF env' THEN refused \cup {"freeenv"} ELSE refused
  \/ /\ dbc # "null"
     /\ dbc = "session" \/ "freedbc" \in Faults
     /\ UNCHANGED <<dbc, env>>
     /\ refused' = refused \cup {"freedbc"}

\* The handler of the constructor.
Unwind ==
  /\ at = "dealloc"
  /\ Deallocate
  /\ Gone
  /\ connected' = FALSE /\ set' = {} /\ attributes' = <<>>
  /\ KeepRequest

\* dbDisconnect or the finalizer: the destructor disconnects, ignoring a failure, and
\* deallocates, ignoring another.
Close ==
  /\ at = "open"
  /\ \/ dbc' = "idle" /\ connected' = FALSE /\ Works
     \/ Fails("disconnect") /\ UNCHANGED <<dbc, connected>>
  /\ at' = "dealloc"
  /\ KeepRequest /\ UNCHANGED <<env, attributes, set, buffers, lost>>

\* Somebody installs or removes zoneinfo files.
FilesChange ==
  /\ files' \in Installed /\ files' # files
  /\ UNCHANGED <<map, conn, reads>>

Init ==
  /\ files \in Installed
  /\ map = [n \in {} |-> NoZone]
  /\ at = "none" /\ zone = 0
  /\ request = [encoding |-> "", name_encoding |-> "", timezone |-> UTC, timezone_out |-> UTC, given |-> {}]
  /\ env = FALSE /\ dbc = "null" /\ connected = FALSE
  /\ attributes = <<>> /\ set = {} /\ buffers = {}
  /\ lost = [env |-> 0, dbc |-> 0, session |-> 0]
  /\ refused = {} /\ opens = 0
  /\ answer = NoAnswer /\ noted = NoAnswer

Next ==
  \/ \E r \in Requests : Open(r)
  \/ AllocEnv \/ SetEnv \/ AllocDbc \/ FreeDbc \/ ReallocDbc
  \/ SetAttribute \/ DriverConnect \/ Unwind \/ Close
  \/ \E stamp \in Stamps, o \in Offsets : ReadTimestamp(stamp, o)
  \/ FilesChange

Spec == Init /\ [][Next]_vars

--------------------------------------------------------------------------------
(* Properties *)

Zone == [loaded : BOOLEAN, off : Int]

\* Where the constructor may be, what is known of the handles there, and the shape of the rest.
TypeOK ==
  /\ at \in {"none", "allocenv", "setenv", "allocdbc", "freedbc", "reallocdbc", "setattr",
             "open", "dealloc"}
  /\ at \notin {"none", "allocenv"} => env
  /\ at \in {"freedbc", "setattr"} => dbc = "idle"
  /\ dbc \in {"null", "idle", "session"} /\ connected \in BOOLEAN
  /\ set \subseteq Attributes /\ buffers \subseteq Attributes /\ refused \subseteq Calls
  /\ \A n \in DOMAIN map : map[n] \in Zone

\* A failed login, or a refused attribute, leaves no handle and no session behind: what is lost
\* is lost because the driver manager gave out no second handle or would not free the first,
\* and a session only when SQLDisconnect itself failed.
FailedLoginsLoseNothing ==
  /\ refused \cap {"allocdbc", "freedbc", "freeenv"} = {} => lost.env = 0 /\ lost.dbc = 0
  /\ "disconnect" \notin refused => lost.session = 0
  /\ lost.session <= lost.dbc

\* An open connection was made with all that dbConnect was given, on the handle that has the
\* session, and in the time zone of its argument.
OpenAsRequested ==
  at = "open" => /\ connected /\ dbc = "session"
                 /\ set = request.given
                 /\ zone = ZoneOffset(request.timezone)

\* The driver reads no freed memory: a value that an attribute points to is there for as long
\* as SQLDriverConnect may come to look at it.
ReadsLiveBuffers ==
  at = "setattr" => set \ {"timeout"} \subseteq buffers

\* "positive offset denotes time zone east of Greenwich" (NEWS.md): a DATETIMEOFFSET is the
\* instant it says, but only if its offset is one of whole hours, not zero, whose zone could be
\* loaded.  Any other, of a half hour, of less than an hour, or of no zone file, is read as UTC,
\* and "+00:00" in the zone of the connection.
WholeHours(offset) == offset % 3600 = 0
OffsetsHonoured ==
  answer.read =>
    /\ answer.offset = 0 => answer.value = answer.stamp - answer.conn
    /\ answer.offset # 0 /\ answer.loaded => answer.value = answer.stamp - answer.offset
    /\ answer.offset # 0 /\ ~answer.loaded => answer.value = answer.stamp
    /\ answer.loaded => WholeHours(answer.offset)

\* Any two cells with the same DATETIMEOFFSET are the same instant, whatever is read, closed and
\* opened and whatever happens to the zone files between them: a name is looked up once in the
\* life of the process.  Two cells of "+00:00" must be of connections in the same zone.
SameCellSameInstant ==
  /\ noted.read /\ answer.read
  /\ answer.stamp = noted.stamp /\ answer.offset = noted.offset
  /\ answer.offset = 0 => answer.conn = noted.conn
  => answer.value = noted.value

\* A connection is made of what dbConnect was given, step by step: the handles are there when
\* they are used, the values are there when the driver reads them, and all of them are set.
SetupExact == TypeOK /\ OpenAsRequested /\ ReadsLiveBuffers
===============================================================================
