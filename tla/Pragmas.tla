-------------------------------- MODULE Pragmas --------------------------------
(***************************************************************************)
(* The feature sets of perl-parser/src/pragma.rs, the spellings of a       *)
(* version `use' accepts (parser.rs), and what `use feature' makes of its  *)
(* arguments.  A feature is named as it is written.                        *)
(***************************************************************************)
EXTENDS Integers, Sequences, SequencesExt

Default == {"indirect", "multidimensional", "bareword_filehandles",
            "apostrophe_as_package_separator", "smartmatch"}

Bundle510(minor) ==
  {"apostrophe_as_package_separator", "bareword_filehandles", "indirect", "multidimensional",
   "say", "smartmatch", "state", "switch"}
    \cup IF minor >= 12 THEN {"unicode_strings"} ELSE {}
Bundle516 == Bundle510(14) \cup {"current_sub", "evalbytes", "fc", "unicode_eval"}
Bundle524 == Bundle516 \cup {"postderef_qq"}
Bundle528 == Bundle524 \cup {"bitwise"}
Bundle536 == (Bundle528 \ {"indirect", "multidimensional", "switch"}) \cup {"isa", "signatures"}
Bundle538 == (Bundle536 \ {"bareword_filehandles"}) \cup {"module_true"}
Bundle540 == Bundle538 \cup {"try"}
Bundle542 == Bundle540 \ {"apostrophe_as_package_separator", "smartmatch"}

All == Bundle510(14) \cup Bundle540
         \cup {"postderef", "refaliasing", "declared_refs", "defer", "class", "lexical_subs",
               "extra_paired_delimiters", "keyword_any", "keyword_all"}

(* An odd minor is a development version: the bundle before it.            *)
VersionBundleRounded(major, minor, even) ==
  IF major < 5 \/ (major = 5 /\ minor < 10) THEN Default
  ELSE IF major # 5 THEN Bundle542
  ELSE CASE even \in 10..14 -> Bundle510(even)
         [] even \in 16..22 -> Bundle516
         [] even \in 24..26 -> Bundle524
         [] even \in 28..34 -> Bundle528
         [] even = 36 -> Bundle536
         [] even = 38 -> Bundle538
         [] even = 40 -> Bundle540
         [] OTHER -> Bundle542
VersionBundle(major, minor) == VersionBundleRounded(major, minor, minor - (minor % 2))

(* parse_int_version: 5036.  parse_float_version: 5.036001, in millionths. *)
(* parse_v_string_version: v5.36.1, its parts.  A bundle alias :5.36 has   *)
(* parts too.                                                              *)
IntVersion(n) == IF n >= 1000 THEN <<n \div 1000, n % 1000>> ELSE <<n, 0>>
FloatVersion(micro) == <<micro \div 1000000, ((micro % 1000000) + 500) \div 1000>>
PartsVersion(parts) == <<parts[1], IF Len(parts) > 1 THEN parts[2] ELSE 0>>

(* The pair the parser makes of version 5.minor.patch in a spelling.       *)
Spellings == {"int", "float", "v", "alias"}
VersionOf(spelling, minor, patch) ==
  CASE spelling = "int" -> IntVersion(5000 + minor)
    [] spelling = "float" -> FloatVersion(5000000 + 1000 * minor + patch)
    [] OTHER -> PartsVersion(<<5, minor, patch>>)

(* resolve_feature_name: what a name written after `use feature' stands    *)
(* for; an unknown name is ignored.                                        *)
Bundles == {":default", ":all"}
Resolved(name) ==
  CASE name = ":default" -> Default
    [] name = ":all" -> All
    [] name \in {"any", "all"} -> {"keyword_" \o name}
    [] name \in All -> {name}
    [] OTHER -> {}

(* apply_pragma for `feature': a bundle replaces the set, a feature joins  *)
(* or leaves it, in the order of the arguments.                            *)
ApplyFeature(features, no, names) ==
  IF names = <<>> THEN (IF no THEN Default ELSE features)
  ELSE FoldLeft(LAMBDA fs, name : IF no THEN fs \ Resolved(name)
                                  ELSE IF name \in Bundles THEN Resolved(name)
                                  ELSE fs \cup Resolved(name),
                features, names)
==============================================================================
