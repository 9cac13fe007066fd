------------------------------ MODULE HostPaths ------------------------------
(***************************************************************************)
(* Paths (config/schema.rs).  A path is the sequence of its components; a  *)
(* path as written in a kitchen file also says what it is relative to:     *)
(* [from |-> "abs" | "home" | "rel", parts |-> ...], where parts may hold  *)
(* "." and "..".                                                           *)
(***************************************************************************)
EXTENDS Naturals, Sequences, SequencesExt

CONSTANTS
  Home,    \* $HOME
  NoHome   \* what Home is when HOME is not set

ASSUME HomeAssumption == Home = NoHome \/ Home \in Seq(STRING)

\* normalize_lexically(): `..` at the root stays at the root.
Entered(path, c) ==
  CASE c = "."  -> path
    [] c = ".." -> IF path = <<>> THEN path ELSE Front(path)
    [] OTHER    -> Append(path, c)
Normalized(parts) ==
  LET upto[n \in 0..Len(parts)] == IF n = 0 THEN <<>> ELSE Entered(upto[n - 1], parts[n])
  IN upto[Len(parts)]

\* expand_home(): only `~` needs HOME.
Resolvable(text) == text.from = "home" => Home # NoHome

\* resolve_host_path(), of a text that is Resolvable.
Resolved(text, base) ==
  Normalized((CASE text.from = "abs"  -> <<>>
                [] text.from = "home" -> Home
                [] OTHER              -> base) \o text.parts)

\* Guest paths microkitchen mounts or writes itself.
Reserved == {<<"var", "cache", "mise">>, <<"opt", "kitchen">>, <<"opt", "mise">>, <<".msb">>}

\* reserved_overlap(): one of the two lies in the other.
Overlaps(guest, reserved) == IsPrefix(guest, reserved) \/ IsPrefix(reserved, guest)
=============================================================================
