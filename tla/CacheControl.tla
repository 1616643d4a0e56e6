---------------------------- MODULE CacheControl ----------------------------
(***************************************************************************)
(* How long a downloaded file may be kept (response_downloaded_file_ttl of *)
(* src/session.rs), from the Cache-Control header as hyperx parses it.     *)
(* A response carries a sequence of Cache-Control lines, a line a sequence *)
(* of comma separated items, an item a name and an argument.               *)
(***************************************************************************)
EXTENDS Integers, Sequences

CONSTANTS
    NoTtl,          \* None: no limit on how long the file is kept
    BadHeader,      \* CacheControlParseError
    MaxU32          \* the largest number a directive can carry

ASSUME U32Assumption == MaxU32 \in Nat

NoArg == -1         \* an item without "="
EmptyArg == -2      \* "name="
JunkArg == -3       \* an argument that is not a number

Items == [name : STRING, arg : Int]

NumericDirectives == {"max-age", "max-stale", "min-fresh", "s-maxage"}

(* CacheDirective::from_str accepts the item.  A name it does not know is   *)
(* an extension, with or without an argument; comparison is case sensitive. *)
Parses(item) ==
    /\ item.arg # EmptyArg
    /\ item.name \in NumericDirectives /\ item.arg # NoArg
        => item.arg \in 0..MaxU32

(* from_comma_delimited drops the items that do not parse. *)
Directives(line) == SelectSeq(line, Parses)

Is(name, item) == item = [name |-> name, arg |-> NoArg]

Contains(directives, name) ==
    \E i \in DOMAIN directives : Is(name, directives[i])

(* The code's test of whether the response may be kept. *)
ForbidsStorage(directives) ==
    Contains(directives, "no-store") \/ Contains(directives, "no-cache")

PositiveMaxAge(item) == item.name = "max-age" /\ item.arg > 0

(* Only the first Cache-Control line is looked at, and it must hold a       *)
(* directive.  A forbidden response has no TTL, like one with no max-age.   *)
ResponseTtl(lines) ==
    IF lines = <<>> THEN NoTtl
    ELSE LET directives == Directives(Head(lines))
             ages == SelectSeq(directives, PositiveMaxAge)
         IN  CASE directives = <<>> -> BadHeader
               [] directives # <<>> /\ (ForbidsStorage(directives) \/ ages = <<>>) -> NoTtl
               [] OTHER -> Head(ages).arg
=============================================================================
