--------------------------------- MODULE Levels ---------------------------------
(***************************************************************************)
(* The compression level of a request: effective_level (src/config.rs) and *)
(* auto_scale_level (src/server.rs), over a conversation that grows.       *)
(* Levels are thousandths.                                                 *)
(***************************************************************************)
EXTENDS Integers

CONSTANTS
  BaseLevels,   \* levels a configuration or a header may name, outside 0..1000 too
  Sizes,        \* the token counts tried
  Absent,       \* no header
  Unreadable    \* a header that is not a number

ASSUME LevelsAssumption == BaseLevels \subseteq Int /\ Sizes \subseteq Nat

VARIABLES
  base,      \* the level of the request before it is scaled
  family,    \* the model
  tokens,    \* the size of the request
  level      \* the level the pipeline compresses it at

levelVars == <<base, family, tokens, level>>

Families == {"haiku", "sonnet", "opus", "grok", "gemini", "other"}
max_context(f) ==
  CASE f \in {"haiku", "sonnet", "opus"} -> 200000
    [] f = "grok"   -> 131072
    [] f = "gemini" -> 1000000
    [] OTHER        -> 128000

Larger(a, b) == IF a < b THEN b ELSE a
Smaller(a, b) == IF a > b THEN b ELSE a
clamp(x) == Smaller(Larger(x, 0), 1000)

effective_level(configured, allowed, header) ==
  IF allowed /\ header \notin {Absent, Unreadable} THEN clamp(header) ELSE configured

\* The share of the context, compared and interpolated without fractions.
Above(n, percent, context) == 100 * n > percent * context
ramp_from_nothing(b, n, context) == ((900 - b) * (10 * n - 5 * context)) \div (3 * context)
ramp(b, n, context) == b + ((900 - b) * (10 * n - 5 * context)) \div (3 * context)

auto_scale_level(b, n, f) ==
  LET context == max_context(f)
      scaled == CASE Above(n, 80, context) -> Larger(1000, b)
                  [] Above(n, 50, context) /\ ~Above(n, 80, context) -> ramp(b, n, context)
                  [] n < 100 -> Larger(b \div 2, 200)
                  [] n >= 100 /\ n < 200 -> (85 * b) \div 100
                  [] OTHER -> b
  IN  IF b = 0 THEN 0 ELSE clamp(scaled)
-------------------------------------------------------------------------------
LevelInit == base = 0 /\ tokens = 0 /\ level = 0 /\ family \in Families

\* A request of a conversation that has grown.
RequestAt(configured, allowed, header, n) ==
  /\ base' = effective_level(configured, allowed, header)
  /\ tokens' = n
  /\ level' = auto_scale_level(base', n, family)
  /\ UNCHANGED family

LevelNext ==
  \E configured \in BaseLevels, allowed \in BOOLEAN, n \in Sizes :
    \E header \in BaseLevels \cup {Absent, Unreadable} :
      n >= tokens /\ RequestAt(configured, allowed, header, n)
LevelSpec == LevelInit /\ [][LevelNext]_levelVars
-------------------------------------------------------------------------------
\* A conversation that grows is compressed at the same level or a higher one
\* as long as its base level stays ("Small prompts get lighter compression
\* ... Large prompts get heavier compression", src/server.rs:200-201).  It
\* holds between the levels at which the floor of 0.2 for tiny prompts and the
\* 0.9 at the end of the ramp are on the wrong side of the base.
LevelNeverFalls ==
  [][base' = base /\ base \in 236..900 => level' >= level]_levelVars
================================================================================
