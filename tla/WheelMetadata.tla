----------------------------- MODULE WheelMetadata -----------------------------
(***************************************************************************)
(* From a wheel archive to the METADATA fields that are converted:         *)
(* extract_metadata_file and parse_metadata.                               *)
(*                                                                         *)
(* An archive is whether it is a zip file, how many *.dist-info/METADATA   *)
(* entries it lists, and the state of that entry's data.  A header that    *)
(* should appear once is the sequence of its occurrences and whether       *)
(* parse_email could decode them.  Headers that end up in the license or   *)
(* nowhere are left out.                                                   *)
(*                                                                         *)
(* Which error wins when several fields are bad is a matter of their       *)
(* order; here any of them may be raised.                                  *)
(***************************************************************************)
EXTENDS MinorRange, Sequences, FiniteSets

Malformed == "malformed"   \* no PEP 508 name, no PEP 440 version

DataStates == {"utf-8", "not utf-8", "bad crc", "damaged"}
Archives == [zip : BOOLEAN, entries : Nat, data : DataStates]
SoundArchive == [zip |-> TRUE, entries |-> 1, data |-> "utf-8"]

(* extract_metadata_file.  Damaged deflate data surfaces from zipfile as   *)
(* the error of the decompressor, which nothing here catches.              *)
ArchiveErrors(archive) ==
    CASE ~archive.zip \/ archive.entries # 1 -> {"InvalidWheelArchiveError"}
      [] archive.data \in {"bad crc", "not utf-8"} -> {"InvalidWheelArchiveError"}
      [] archive.data = "damaged" -> {"zlib.error"}
      [] OTHER -> {}

-----------------------------------------------------------------------------

HeaderOf(values) == [values : Seq(values), decodable : BOOLEAN]

(* A parsed specifier set, or what does not parse as one. *)
RequiresPythons ==
    [form : {"simplified", "generic", "unparseable"}, lower : Nat, upper : Nat,
     excluded : SUBSET Nat]

Occurrences(header) == {header.values[i] : i \in DOMAIN header.values}

(* Bug: the first occurrence of a header wins. *)
FieldValueFirst(header) == IF header.values = <<>> THEN {} ELSE {header.values[1]}

(* _single_value_field, as the set of its at most one value: parse_email   *)
(* parses a lone decodable occurrence; repeated ones have to be identical. *)
FieldValue(header) ==
    IF \/ Len(header.values) = 1 /\ header.decodable
       \/ Len(header.values) > 1 /\ Cardinality(Occurrences(header)) = 1
    THEN Occurrences(header) ELSE {}

IsAmbiguous(header) == header.values # <<>> /\ FieldValue(header) = {}

(* The minors minor_range finds satisfied. *)
MinorsOf(requires) ==
    {m \in 0 .. MinorScanCeiling - 1 :
        requires.lower <= m /\ m < requires.upper /\ m \notin requires.excluded}

RequiresPythonErrors(requires) ==
    CASE requires.form = "unparseable" -> {"InvalidVersionSpecifierError"}
      [] requires.form # "absent" /\ ~Contiguous(MinorsOf(requires)) ->
            {"InvalidPythonRequirementRangeError"}
      [] OTHER -> {}

NoRequiresPython == [form |-> "absent", lower |-> 0, upper |-> 0, excluded |-> {}]

RequiresPythonOf(headers) ==
    IF FieldValue(headers.requires_python) = {} THEN NoRequiresPython
    ELSE CHOOSE r \in FieldValue(headers.requires_python) : TRUE

(* Everything parse_metadata may raise. *)
MetadataErrors(headers) ==
    IF \E f \in {"name", "version", "requires_python"} : IsAmbiguous(headers[f])
    THEN {"InvalidMetadataError"}
    ELSE (IF \E f \in {"name", "version"} : FieldValue(headers[f]) \in {{}, {Malformed}}
          THEN {"InvalidMetadataError"} ELSE {})
         \cup RequiresPythonErrors(RequiresPythonOf(headers))
         \cup (IF \E e \in headers.requires_dist : ~e.parses
               THEN {"InvalidRequirementError"} ELSE {})

(* The WheelMetadata of headers that raise nothing. *)
MetadataOf(headers) ==
    [name |-> CHOOSE n \in FieldValue(headers.name) : TRUE,
     version |-> CHOOSE v \in FieldValue(headers.version) : TRUE,
     requires_python |-> RequiresPythonOf(headers),
     requires_dist |-> headers.requires_dist]
=============================================================================
