--------------------------------- MODULE Naming ---------------------------------
(* How the engine names what it downloads: io/sanitize.rs, the candidate names
   of job/naming.rs, and the two places of job/controller.rs that settle the
   destination, before the probe for an explicit file and after it for a
   directory.  A name is a sequence of characters, one for each class the rules
   tell apart; which candidate is free is module Destinations. *)
EXTENDS Integers, Sequences, FiniteSets, TLC
LOCAL INSTANCE SequencesExt

CONSTANTS
    Alphabet, MaxLength,    \* of the names a server supplies
    Caps,                   \* byte caps tried
    SiblingNumbers,               \* the numbers of the generated siblings
    HardCap                 \* MAX_FINAL_BASENAME_BYTES

(* "/" either separator, "^" a control character, "?" one Windows forbids, "C"
   a reserved device name, "w" a character of two bytes. *)
Width(c) == IF c = "w" THEN 2 ELSE 1
ByteLength(name) == FoldLeft(LAMBDA sum, c : sum + Width(c), 0, name)
Unnamed == <<"none">>
Raw == SeqOf(Alphabet, MaxLength)

VARIABLES
    asked,      \* the request and what the probe returned
    step,       \* "asked", "probed", "named", "rejected"
    siblings,   \* the generated names, by number; Unnamed cannot be represented
    destination

namingVars == <<asked, step, siblings, destination>>

----------------------------------------------------------------------------
(* try_sanitize_filename. *)

(* A prefix of at most limit bytes that ends between characters. *)
Cut(name, limit) ==
    LET fits == {k \in 0..Len(name) : ByteLength(SubSeq(name, 1, k)) <= limit}
    IN  SubSeq(name, 1, CHOOSE k \in fits : \A other \in fits : other <= k)

(* Path::extension: from the last dot, unless it opens the name. *)
Dots(name) == {i \in 2..Len(name) : name[i] = "."}
LastDot(name) == CHOOSE i \in Dots(name) : \A other \in Dots(name) : other <= i
Extension(name) == IF Dots(name) = {} THEN <<>> ELSE SubSeq(name, LastDot(name), Len(name))
Stem(name) == SubSeq(name, 1, Len(name) - Len(Extension(name)))

LastComponent(input) ==
    LET used == {i \in DOMAIN input : input[i] # "/"}
        end == CHOOSE i \in used : \A other \in used : other <= i
        breaks == {0} \cup {i \in 1..end : input[i] = "/"}
        start == CHOOSE i \in breaks : \A other \in breaks : other <= i
    IN  IF used = {} THEN <<>> ELSE SubSeq(input, start + 1, end)

Trimmed(name) ==
    LET kept == {0} \cup {i \in DOMAIN name : name[i] \notin {" ", "."}}
    IN  SubSeq(name, 1, CHOOSE i \in kept : \A other \in kept : other <= i)

AllDots(name) == \A i \in DOMAIN name : name[i] = "."

is_reserved_device_basename(name) == name = <<"C">> \/ (Len(name) > 1 /\ name[1] = "C" /\ name[2] = ".")

truncate_preserving_extension(name, limit) ==
    LET ext == Extension(name)
        keeps == ext # <<>> /\ ByteLength(ext) < limit
        stem == Cut(IF keeps THEN Stem(name) ELSE name, limit - IF keeps THEN ByteLength(ext) ELSE 0)
    IN  IF ByteLength(name) <= limit THEN name
        ELSE IF keeps THEN stem \o ext
        ELSE IF stem = <<>> THEN Unnamed ELSE stem

ExposedReserved(name, limit) ==
    IF name = Unnamed \/ AllDots(name) THEN Unnamed ELSE name

(* Step 8: what truncation may have exposed. *)
Rechecked(name, limit) ==
    IF name = Unnamed \/ AllDots(name) THEN Unnamed
    ELSE IF ~is_reserved_device_basename(name) THEN name
    ELSE IF ByteLength(name) + 1 > limit THEN Unnamed ELSE <<"_">> \o name

try_sanitize_filename(input, limit) ==
    LET printable == SelectSeq(LastComponent(input), LAMBDA c : c # "^")
        legal == [i \in DOMAIN printable |-> IF printable[i] = "?" THEN "_" ELSE printable[i]]
        trimmed == Trimmed(legal)
        prefixed == IF is_reserved_device_basename(trimmed) THEN <<"_">> \o trimmed ELSE trimmed
    IN  IF limit = 0 \/ trimmed = <<>> THEN Unnamed
        ELSE Rechecked(truncate_preserving_extension(prefixed, limit), limit)

----------------------------------------------------------------------------
(* Sources of a name, and siblings of it. *)

(* A URL's last path segment, decoded once; one that decodes to a separator, or
   that is malformed, gives no name. *)
url_path_basename(segment) ==
    IF segment = Unnamed \/ segment = <<>> \/ \E i \in DOMAIN segment : segment[i] = "/" THEN Unnamed ELSE segment

resolve_directory_basename(meta, fallback, cap) ==
    LET sources == <<meta.hint, meta.plain, url_path_basename(meta.final), url_path_basename(meta.original)>>
        usable == {i \in DOMAIN sources : sources[i] # Unnamed /\ try_sanitize_filename(sources[i], cap) # Unnamed}
        first == CHOOSE i \in usable : \A other \in usable : i <= other
    IN  IF usable = {} THEN fallback ELSE try_sanitize_filename(sources[first], cap)

Digits(n) == IF n < 10 THEN <<ToString(n)>> ELSE <<ToString(n \div 10), ToString(n % 10)>>
Numbered(n) == <<" ", "(">> \o Digits(n) \o <<")">>

(* The number's bytes are reserved before the stem is cut. *)
StemBudget(base, n, cap) == cap - Len(Numbered(n)) - ByteLength(Extension(base))

rename_candidate_names(base, cap) ==
    LET stem(n) == IF StemBudget(base, n, cap) <= 0 THEN <<>> ELSE Cut(Stem(base), StemBudget(base, n, cap))
    IN  [n \in SiblingNumbers |->
            IF stem(n) = <<>> THEN Unnamed
            ELSE try_sanitize_filename(stem(n) \o Numbered(n) \o Extension(base), cap)]

----------------------------------------------------------------------------
(* The run: an explicit file is settled before the network, a directory's
   options are validated before it and its name resolved after. *)

RENAME_MIN_CAP_BYTES == 7
Others == {Unnamed, <<"/">>, <<"a">>}
NoName == [hint |-> Unnamed, plain |-> Unnamed, final |-> Unnamed, original |-> Unnamed]
(* One source of any shape, those after it alike. *)
Metas ==
    LET order == <<"hint", "plain", "final", "original">>
    IN  {[source \in DOMAIN NoName |->
             LET i == CHOOSE k \in 1..4 : order[k] = source
             IN  IF i < from THEN Unnamed ELSE IF i = from THEN name ELSE other] :
                 from \in 1..4, name \in Raw, other \in Others}

NamingInit ==
    /\ \/ \E meta \in Metas, cap \in Caps, rename \in BOOLEAN, fallback \in {<<"a">>, <<"C">>} :
             asked = [kind |-> "directory", meta |-> meta, base |-> Unnamed, fallback |-> fallback,
                      cap |-> cap, rename |-> rename]
       \/ \E base \in Raw, rename \in BOOLEAN :
             asked = [kind |-> "file", meta |-> NoName, base |-> base, fallback |-> Unnamed,
                      cap |-> HardCap, rename |-> rename]
    /\ step = "asked" /\ siblings = <<>> /\ destination = Unnamed

validate_directory_target ==
    /\ try_sanitize_filename(asked.fallback, asked.cap) = asked.fallback
    /\ asked.cap \in ByteLength(asked.fallback)..HardCap
    /\ asked.rename => asked.cap >= RENAME_MIN_CAP_BYTES

(* The destination of an explicit file: none without a file name. *)
HasFileName == asked.base \notin {<<>>, <<".">>, <<".", ".">>} /\ \A i \in DOMAIN asked.base : asked.base[i] # "/"

(* Which candidate wins depends on the directory; without Rename there is one. *)
Settle(base) ==
    /\ step' = "named"
    /\ siblings' = IF asked.rename THEN rename_candidate_names(base, asked.cap) ELSE <<>>
    /\ \/ destination' = base
       \/ \E n \in DOMAIN siblings' : siblings'[n] # Unnamed /\ destination' = siblings'[n]
    /\ UNCHANGED asked

Refuse == step' = "rejected" /\ UNCHANGED <<asked, siblings, destination>>

PrepareFile ==
    /\ step = "asked" /\ asked.kind = "file"
    /\ IF HasFileName THEN Settle(asked.base) \/ Refuse ELSE Refuse

PrepareDirectory ==
    /\ step = "asked" /\ asked.kind = "directory"
    /\ IF validate_directory_target THEN step' = "probed" /\ UNCHANGED <<asked, siblings, destination>> ELSE Refuse

ResolveDirectory ==
    /\ step = "probed"
    /\ Settle(resolve_directory_basename(asked.meta, asked.fallback, asked.cap)) \/ Refuse

NamingNext == PrepareFile \/ PrepareDirectory \/ ResolveDirectory

NamingSpec == NamingInit /\ [][NamingNext]_namingVars

----------------------------------------------------------------------------
(* Whatever a server calls the resource, a directory download is saved as one
   component of the directory, within the cap, without control or forbidden
   characters and under no device's name, although cutting a long name may
   expose one. *)
SavedSafely ==
    step = "named" /\ asked.kind = "directory" =>
        /\ destination \notin {Unnamed, <<>>} /\ ~AllDots(destination)
        /\ \A i \in DOMAIN destination : destination[i] \notin {"/", "^", "?"}
        /\ ByteLength(destination) <= asked.cap
        /\ destination # <<"C">> /\ ~(Len(destination) > 1 /\ destination[1] = "C" /\ destination[2] = ".")

=============================================================================
