----------------------------- MODULE PathString ----------------------------
(***************************************************************************)
(* Paths of the mount tool (mount_path_string.c).  The host sees a name    *)
(* with its separator, control and unprintable characters escaped; a path  *)
(* that the host asks for is turned back into a path of the library.       *)
(*                                                                         *)
(* A path is a sequence of characters.  The digits after an escape are one *)
(* element, which stands for the two or eight characters of the code.      *)
(***************************************************************************)
EXTENDS SequencesExt

CONSTANT Host      (* "fuse", or "dokan" for the tool on Windows           *)

(* LIBFSFAT_SEPARATOR, on every host. *)
Separator == "\\"

PathSeparator == IF Host = "dokan" THEN "\\" ELSE "/"

EscapeCharacter == IF Host = "dokan" THEN "^" ELSE "\\"

(* The codes of two and of eight digits of the characters the model tells  *)
(* apart; "\n" stands for every control character, "U+2028" for every      *)
(* surrogate, undefined and unprintable one.                               *)
TwoDigits ==
  [c \in {"\n", "/", "\\", ":"} |->
     CASE c = "\n" -> "0a" [] c = "/" -> "2f" [] c = "\\" -> "5c" [] c = ":" -> "3a"]

EightDigits == [c \in {"U+2028"} |-> "00002028"]

Replaced == {"\n", PathSeparator} \cup (IF Host = "dokan" THEN {"/", ":"} ELSE {})

(* Mutation: the escape character itself is not escaped. *)
EscapedButEscape(c) ==
  IF c \in Replaced THEN <<EscapeCharacter, "x", TwoDigits[c]>>
  ELSE IF c \in DOMAIN EightDigits THEN <<EscapeCharacter, "U", EightDigits[c]>>
  ELSE <<c>>

EscapedCharacter(c) ==
  IF c \in Replaced THEN <<EscapeCharacter, "x", TwoDigits[c]>>
  ELSE IF c \in DOMAIN EightDigits THEN <<EscapeCharacter, "U", EightDigits[c]>>
  ELSE IF c = EscapeCharacter THEN <<EscapeCharacter, EscapeCharacter>>
  ELSE <<c>>

(* mount_path_string_copy_from_file_entry_path: 0, the end of the string,  *)
(* is not among the characters of a name.                                  *)
FromFileEntryPath(name) == FlattenSeq([i \in DOMAIN name |-> EscapedCharacter(name[i])])

(* The size of the string that is allocated, and not that of the result,   *)
(* is what the function returns: ten times the length and a 0.             *)
FromFileEntryPathSize(name) == 10 * Len(name) + 1

(* mount_path_string_copy_hexadecimal_to_integer_32_bit: the character of  *)
(* a code, "?" if there are other characters than digits, or too few.      *)
Coded(codes, digits) ==
  IF \E c \in DOMAIN codes : codes[c] = digits
    THEN CHOOSE c \in DOMAIN codes : codes[c] = digits
    ELSE "?"

(* What may follow the escape character: the codes that it announces and   *)
(* the characters they may stand for.                                      *)
Announced(c) ==
  IF c = "x" \/ (Host = "dokan" /\ c = "X") THEN [codes |-> TwoDigits, allowed |-> Replaced]
  ELSE IF c = "U" \/ (Host = "dokan" /\ c = "u")
    THEN [codes |-> EightDigits, allowed |-> DOMAIN EightDigits]
  ELSE [codes |-> TwoDigits, allowed |-> {}]

(* One character of the path.  state: "plain", "escape" after the escape   *)
(* character, "x" and the like after the character that announces digits,  *)
(* "failed" once the path is not valid.                                    *)
CopyCharacter(copy, c) ==
  LET put(d) == [state |-> "plain", text |-> Append(copy.text, d)]
      to(state) == [copy EXCEPT !.state = state]
      announced == Announced(copy.state)
      value == Coded(announced.codes, c)
  IN CASE copy.state = "failed" -> copy
       [] copy.state = "plain" ->
            IF c = PathSeparator THEN put(Separator)
            ELSE IF c = EscapeCharacter THEN to("escape")
            ELSE put(c)
       [] copy.state = "escape" ->
            IF c = EscapeCharacter THEN put(c)
            ELSE IF Announced(c).allowed # {} THEN to(c)
            ELSE to("failed")
       [] OTHER -> IF value \in announced.allowed THEN put(value) ELSE to("failed")

(* The characters are copied from the first to the last. *)
Copied(path) ==
  LET copied[i \in 0 .. Len(path)] ==
        IF i = 0 THEN [state |-> "plain", text |-> <<>>]
        ELSE CopyCharacter(copied[i - 1], path[i])
  IN copied

(* mount_path_string_copy_to_file_entry_path: the text, or an error.  A    *)
(* path that ends inside an escape is an error as well.                    *)
ToFileEntryPath(path) ==
  LET copy == Copied(path)[Len(path)]
  IN IF path = <<>> \/ path[1] # PathSeparator \/ copy.state # "plain"
       THEN [valid |-> FALSE, text |-> <<>>]
       ELSE [valid |-> TRUE, text |-> copy.text]
=============================================================================
