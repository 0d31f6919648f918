---------------------------- MODULE SchemaCommands ----------------------------
(***************************************************************************)
(* The commands on a schema file and its binary image: init, reset, add,   *)
(* set, remove, pack, unpack, check, list, info and the first half of sim. *)
(* (cmd/s7db/main.go and internal/schema/schema.go; Layout, Packing and    *)
(* ScriptTypes have what they call)                                        *)
(*                                                                         *)
(* A command is a process that loads the file, changes the schema in       *)
(* memory, and writes the file whole; it is one step here, for they run    *)
(* one after the other.  It may be killed when it has emptied the file and *)
(* not written it yet.  A user may write the first file by hand.           *)
(***************************************************************************)
EXTENDS Packing, ScriptTypes

CONSTANTS
  HandWritten,   \* schema files a user has written
  Externals,     \* schema files for --from
  Additions,     \* sequences of tags for one add
  Changes,       \* changes of one set: [name, init, type]
  Keys,          \* references to tags, [name, addr]: a name or an address
  DBFlags,       \* --db, Absent without
  Sizes, Fills, Pads,
  Scripts,
  MaxTags,       \* bound of the model: files have no more tags
  MaxCommands    \* bound of the model: commands that change a file

VARIABLES
  file,       \* [there, schema]: the schema file
  image,      \* [there, data, schema, fill]: the binary file, and history: of what
  byCommand,  \* history: a command has written the file
  commands    \* history: the commands that changed a file

vars == <<file, image, byCommand, commands>>

(* The strings, those written below by name: no prover knows that they are.   *)
Strings == STRING \cup {"", "BYTE", "big", "fine", "heartbeat", "none"}
TypeName == [name : Strings, max : Nat]
TagType == [addr : Written, type : TypeName, name : Strings, init : ValueType,
            role : Strings, heartbeat : Strings, ui : Strings]
SchemaType == [db : Nat, endian : Strings, size : Nat \cup {AutoSize}, tags : Seq(TagType)]

ASSUME FilesAssumption == HandWritten \cup Externals \subseteq SchemaType
ASSUME OptionsAssumption ==
  /\ \A tags \in Additions : tags \in Seq(TagType)
  /\ \A c \in Changes : c.name \in Strings /\ c.init \in ValueType /\ c.type \in TypeName
  /\ DBFlags \subseteq Nat \cup {Absent} /\ Sizes \subseteq Nat \cup {AutoSize}
  /\ Fills \subseteq 0 .. 255 /\ Pads \subseteq Nat
  /\ MaxTags \in Nat /\ MaxCommands \in Nat
ASSUME ScriptsAssumption == \A sc \in Scripts : IsScript(sc)

EmptySchema == [db |-> 0, endian |-> "big", size |-> 0, tags |-> <<>>]
EmptyFile == [there |-> TRUE, schema |-> EmptySchema]
NoFile == [there |-> FALSE, schema |-> EmptySchema]
NoImage == [there |-> FALSE, data |-> <<>>, schema |-> EmptySchema, fill |-> 0]

NoType == [name |-> "", max |-> 0]
PlainTag(a, type, name, init) ==
  [addr |-> a, type |-> type, name |-> name, init |-> init,
   role |-> "", heartbeat |-> "none", ui |-> "none"]

(* Mutated forms of definitions below, named for the slip each makes.        *)
AddedAsWritten(tags, db) == tags

----------------------------------------------------------------------------
(* schema.go *)

WithDB(s, db) == [s EXCEPT !.db = IF @ = 0 /\ db # Absent THEN db ELSE @]

(* Normalize: a heartbeat makes the role, the role a heartbeat with defaults. *)
NormalTag(t, db) ==
  LET role == IF t.heartbeat # "none" /\ t.role = "" THEN "heartbeat" ELSE t.role
  IN  [t EXCEPT !.addr = Canonical(Parsed(@, db)),
                !.role = role,
                !.heartbeat = IF role = "heartbeat" /\ @ = "none" THEN "fine" ELSE @]

Normalizes(s) == \A t \in TagsOf(s) : Parses(t.addr, s.db)
Normal(s) == [s EXCEPT !.tags = [i \in 1 .. Len(s.tags) |-> NormalTag(s.tags[i], s.db)]]

(* LoadRaw and Load; a size of 0 is not told from none.                      *)
LoadRaw(f, db) == [WithDB(f.schema, db) EXCEPT !.size = IF @ = 0 THEN AutoSize ELSE @]
Loads(f, db) == f.there /\ Normalizes(LoadRaw(f, db))
Load(f, db) == Normal(LoadRaw(f, db))

(* A schema as it is read back: a negative zero is written -0, and loaded as *)
(* the integer 0.                                                            *)
InFile(v) == IF v.kind = "float" /\ v.text = NegativeZero THEN Number(0) ELSE v
Stored(s) ==
  [s EXCEPT !.tags = [i \in 1 .. Len(s.tags) |-> [s.tags[i] EXCEPT !.init = InFile(@)]]]

Saves(s) == Normalizes(s)

(* Tags laid over others by address, as add and Merge do: the index is made  *)
(* once, so a new address is appended as often as it comes.                  *)
Taken(tags, t) == \E i \in 1 .. Len(tags) : tags[i].addr = t.addr
Kept(tags, keep) ==   \* the tags at these places, in order
  LET kept[i \in 0 .. Len(tags)] ==
        IF i = 0 THEN <<>>
        ELSE IF i \in keep THEN Append(kept[i - 1], tags[i]) ELSE kept[i - 1]
  IN  kept[Len(tags)]
Overlaid(tags, new) ==
  [i \in 1 .. Len(tags) |->
     LET same == {j \in 1 .. Len(new) : new[j].addr = tags[i].addr}
     IN  IF same = {} \/ \E k \in i + 1 .. Len(tags) : tags[k].addr = tags[i].addr
           THEN tags[i] ELSE new[Max(same)]]
  \o Kept(new, {j \in 1 .. Len(new) : ~Taken(tags, new[j])})

Conflicts(tags, new) == \E j \in 1 .. Len(new) : Taken(tags, new[j])

Merged(base, in) ==
  [db |-> IF in.db # 0 THEN in.db ELSE base.db, endian |-> in.endian, size |-> in.size,
   tags |-> Overlaid(base.tags, in.tags)]

Matches(t, key, db) ==
  \/ t.name = key.name
  \/ Parses(key.addr, db) /\ t.addr = Canonical(Parsed(key.addr, db))

(* FindTag: names before addresses.                                          *)
FindTag(s, key, db) ==
  LET named == {i \in 1 .. Len(s.tags) : s.tags[i].name = key.name}
      matching == {i \in 1 .. Len(s.tags) : Matches(s.tags[i], key, db)}
  IN  IF named # {} THEN Min(named) ELSE IF matching # {} THEN Min(matching) ELSE 0

(* Validate: errors in any case, and errors with --strict.                   *)
Invalid(t) == t.ui = "contradictory" \/ (t.role = "heartbeat" /\ t.heartbeat = "no duration")
Doubtful(t) ==
  \/ t.role \notin {"", "heartbeat"}
  \/ t.role = "heartbeat" /\ (t.type.name # "BOOL" \/ t.heartbeat \in {"slow", "odd polarity"})
Validates(s, strict) == \A t \in TagsOf(s) : ~Invalid(t) /\ (strict => ~Doubtful(t))

(* CheckCmd.Run returns no error.                                            *)
CheckPasses(f, db, strict) ==
  /\ AddressOutOfRange(LoadRaw(f, db)) = {}
  /\ Loads(f, db)
  /\ Builds(Load(f, db), strict)
  /\ Validates(Load(f, db), strict)

----------------------------------------------------------------------------
Init ==
  /\ file \in {NoFile} \cup {[there |-> TRUE, schema |-> s] : s \in HandWritten}
  /\ image = NoImage
  /\ byCommand = FALSE
  /\ commands = 0

(* Save, and the write it ends with: os.WriteFile empties the file first.    *)
Save(s) ==
  /\ Saves(s)
  /\ Len(s.tags) <= MaxTags
  /\ file' \in {EmptyFile, [there |-> TRUE, schema |-> Stored(Normal(s))]}
  /\ byCommand' = TRUE
  /\ UNCHANGED image

(* runInitLike, with `from` the external file or none.                       *)
InitLike(isReset, force, from, merge, size, strict, db) ==
  LET out == IF from = <<>> THEN [EmptySchema EXCEPT !.db = db, !.size = AutoSize]
             ELSE Load([there |-> TRUE, schema |-> from[1]], db)
      inFile == merge /\ file.there /\ ~isReset
      base == IF inFile THEN Load(file, db) ELSE out
      merged == IF merge THEN Merged(base, out) ELSE out
  IN  /\ file.there => force
      /\ IF from = <<>> THEN db \notin {Absent, 0}
         ELSE Loads([there |-> TRUE, schema |-> from[1]], db)
      /\ inFile => Loads(file, db)
      /\ ~(merge /\ strict /\ Conflicts(base.tags, out.tags))
      /\ Normalizes(merged)
      /\ Save([Normal(merged) EXCEPT !.size = size])

(* buildTags and loadTagsFromFile: short addresses are in --db, or else in   *)
(* the schema's DB.                                                          *)
DBForArgs(s, db) == IF db # Absent THEN db ELSE IF s.db > 0 THEN s.db ELSE Absent
TagsAdded(tags, db) ==
  [i \in 1 .. Len(tags) |->
     PlainTag(Canonical(Parsed(tags[i].addr, db)), tags[i].type, tags[i].name, tags[i].init)]

Add(tags, force, db) ==
  LET s == Load(file, db)
      new == TagsAdded(tags, DBForArgs(s, db))
  IN  /\ Loads(file, db)
      /\ \A i \in 1 .. Len(tags) : Parses(tags[i].addr, DBForArgs(s, db))
      /\ force \/ ~Conflicts(s.tags, new)
      /\ Save([s EXCEPT !.tags = Overlaid(s.tags, new)])

Edited(t, change) ==
  [t EXCEPT !.name = IF change.name = "" THEN @ ELSE change.name,
            !.init = IF change.init = Nil THEN @ ELSE change.init,
            !.type = IF change.type = NoType THEN @ ELSE change.type]

Set(key, change, force, db) ==
  LET s == Load(file, db)
      i == FindTag(s, key, db)
      tag == s.tags[i]
  IN  /\ Loads(file, db)
      /\ i # 0
      /\ force \/ change.type \in {NoType, tag.type}
      /\ Save([s EXCEPT !.tags[i] = Edited(@, change)])

Remove(keys, strict, db) ==
  LET s == Load(file, db)
      keep == Kept(s.tags, {i \in 1 .. Len(s.tags) :
                              \A key \in keys : ~Matches(s.tags[i], key, db)})
  IN  /\ Loads(file, db)
      /\ ~(strict /\ Len(keep) = Len(s.tags))
      /\ Save([s EXCEPT !.tags = keep])

Pack(fill, pad, strict, db) ==
  LET s == Load(file, db) IN
  /\ Loads(file, db)
  /\ Packs(s, strict)
  /\ image' = [there |-> TRUE, data |-> Packed(s, fill, pad), schema |-> s, fill |-> fill]
  /\ UNCHANGED <<file, byCommand>>

(* unpack without --from: a BYTE for every byte.                             *)
AsBytes(data, db) ==
  [db |-> db, endian |-> "big", size |-> Len(data),
   tags |-> [i \in 1 .. Len(data) |->
               PlainTag([db |-> db, area |-> "DBB", byte |-> i - 1, bit |-> Absent],
                        [name |-> "BYTE", max |-> 0], "", Number(data[i]))]]

Unpack(withTemplate, db) ==
  LET s == Load(file, db) IN
  /\ image.there
  /\ withTemplate => Loads(file, db) /\ Unpacks(s)
  /\ Save(IF withTemplate THEN Unpacked(s, image.data)
          ELSE AsBytes(image.data, IF db = Absent THEN 1 ELSE db))

(* A command that is refused, that only reads the file (check, list, info,   *)
(* compile, sim) or that runs with --dry-run changes nothing.                *)
Next ==
  /\ commands < MaxCommands
  /\ commands' = commands + 1
  /\ \E db \in DBFlags :
      \/ \E isReset, force, merge, strict \in BOOLEAN, size \in Sizes,
            from \in {<<>>} \cup {<<s>> : s \in Externals} :
           InitLike(isReset, force, from, merge, size, strict, db)
      \/ \E tags \in Additions, force \in BOOLEAN : Add(tags, force, db)
      \/ \E key \in Keys, change \in Changes, force \in BOOLEAN : Set(key, change, force, db)
      \/ \E key \in Keys, strict \in BOOLEAN : Remove({key}, strict, db)
      \/ \E fill \in Fills, pad \in Pads, strict \in BOOLEAN : Pack(fill, pad, strict, db)
      \/ \E withTemplate \in BOOLEAN : Unpack(withTemplate, db)

Spec == Init /\ [][Next]_vars

----------------------------------------------------------------------------
(* Properties *)

TypeOK ==
  /\ file \in [there : BOOLEAN, schema : SchemaType]
  /\ image \in [there : BOOLEAN, data : Seq(0 .. 255), schema : SchemaType, fill : 0 .. 255]
  /\ byCommand \in BOOLEAN
  /\ commands \in 0 .. MaxCommands

(* A file a command has written, every command loads: short addresses,       *)
(* tags of other data blocks and sizes go through two normalisations, one    *)
(* before and one in Save, and a kill leaves the empty file.                 *)
SavedLoads == byCommand => \A db \in DBFlags : Loads(file, db)

Inv == TypeOK /\ SavedLoads

PackedStrictly == image.there /\ CheckPasses([there |-> TRUE, schema |-> image.schema], Absent, TRUE)

(* In the image of a schema that passes `check --strict`, every tag has the  *)
(* bytes of its own initial value: no other tag was written over it, and     *)
(* nothing fell off its end (Build against Pack, which place differently).   *)
PackedTagsStand ==
  PackedStrictly =>
    \A t \in TagsOf(image.schema) :
      IF t.type.name = "BOOL"
        THEN BitIs(image.data[ByteOffset(image.schema, t) + 1], BitOf(image.schema, t)) = IsTrue(t.init)
        ELSE Slice(image.schema, t, image.data) = Encoded(t, t.init, image.schema.endian)

(* Unpacking that image with its schema, saving, loading and packing again   *)
(* gives the image back: what unpack decodes encodes to the same bytes, and  *)
(* the fill and padding survive.  Images that hold a REAL which the decimals *)
(* of the file do not keep, a negative zero or one of Reparsed, are excepted.*)
FileKeeps(x) == x # NegativeZero /\ x \notin DOMAIN Reparsed
RealsKept(s, data) ==
  \A t \in TagsOf(s) :
    t.type.name = "REAL" => FileKeeps(Ordered(Slice(s, t, data), s.endian))
RepackIsStable ==
  PackedStrictly /\ RealsKept(image.schema, image.data) =>
    LET unpacked == Stored(Unpacked(image.schema, image.data))
        again == Load([there |-> TRUE, schema |-> unpacked], Absent)
    IN  Packs(again, FALSE) /\ Packed(again, image.fill, 0) = image.data

(* The codec of serve and sim agrees with that of pack and unpack on the     *)
(* image: it reads what unpack reads (but for a negative TIME), and sim      *)
(* writes back the bytes it pulled.                                          *)
CodecsAgree ==
  PackedStrictly =>
    \A t \in {u \in TagsOf(image.schema) : u.type.name # "BOOL"} :
      LET endian == image.schema.endian
          raw == Slice(image.schema, t, image.data)
          read == DecodedRaw(t, raw, endian)
      IN  /\ read = Decoded(t, raw, endian) \/ (t.type.name = "TIME" /\ read.kind = "wide")
          /\ Pulled(t) => PushedRaw(t, read, endian) = raw

(* A script that compiles against the schema never fails with a type error   *)
(* at run time, whatever it executes; dividing by zero is all it can do, if  *)
(* its integer literals have 64 bits (the checker does not look at them).    *)
CompiledNeverFails ==
  \A sc \in Scripts, db \in DBFlags :
    Loads(file, db) /\ LiteralsFit(sc) /\ Compiles(sc, Load(file, db).tags) =>
      "failure" \notin Outcomes(sc, Load(file, db).tags)
==============================================================================
