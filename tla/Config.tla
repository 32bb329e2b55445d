------------------------------- MODULE Config -------------------------------
(***************************************************************************)
(* How one invocation of the binary finds its settings (config.rs): from   *)
(* the command line, the environment, a configuration file and defaults.   *)
(* A source maps each setting to a value or to Unset; an environment       *)
(* variable may be Garbled, that is, not unicode or not a number, and so   *)
(* may the file as a whole, when it cannot be read or parsed.              *)
(***************************************************************************)
EXTENDS Naturals

CONSTANTS
    Texts,      \* the settings that are texts
    U64s, U8s, F64s,   \* those that are numbers, by their type
    Defaults,   \* the default of each setting
    Unset, Garbled

Numbers == U64s \cup U8s \cup F64s
Settings == Texts \cup Numbers

ASSUME ConfigAssumption ==
    /\ Unset # Garbled
    /\ U64s \cap U8s = {} /\ U64s \cap F64s = {} /\ U8s \cap F64s = {}
    /\ Texts \cap Numbers = {}
    /\ \A n \in Settings : Defaults[n] \notin {Unset, Garbled}

NothingSet == [n \in Settings |-> Unset]

OrElse(value, other) == IF value = Unset THEN other ELSE value

FirstSet(cli, env, file, default) ==
    OrElse(cli, OrElse(env, OrElse(file, default)))

(* An environment variable that is not unicode is not seen; that of a path *)
(* need not be, and is never Garbled.                                      *)
ResolveText(n, cli, env, file) ==
    FirstSet(cli[n], IF env[n] = Garbled THEN Unset ELSE env[n], file[n],
             Defaults[n])

ResolveU64(n, cli, env, file) == FirstSet(cli[n], env[n], file[n], Defaults[n])

\* Seeded bug: in one of the chains the file comes before the environment.
ResolveU8FileFirst(n, cli, env, file) ==
    FirstSet(cli[n], file[n], env[n], Defaults[n])

ResolveU8(n, cli, env, file) == FirstSet(cli[n], env[n], file[n], Defaults[n])

ResolveF64(n, cli, env, file) == FirstSet(cli[n], env[n], file[n], Defaults[n])

(* A file that is named must be readable, and every number found in the    *)
(* environment must be one, whether or not the command line overrides it.  *)
Resolvable(env, file) ==
    file # Garbled /\ \A n \in Numbers : env[n] # Garbled

Resolve(cli, env, file) ==
    [n \in Settings |-> CASE n \in Texts -> ResolveText(n, cli, env, file)
                          [] n \in U64s  -> ResolveU64(n, cli, env, file)
                          [] n \in U8s   -> ResolveU8(n, cli, env, file)
                          [] n \in F64s  -> ResolveF64(n, cli, env, file)]

-----------------------------------------------------------------------------
(* DF-009 without the way resolve goes about it: a setting has the value   *)
(* of a source that has one, and no source of a higher rank has one.       *)
Precedence(cli, env, file, resolved) ==
    \A n \in Settings :
       LET ranked == <<cli[n], env[n], file[n], Defaults[n]>>
       IN  \E i \in 1 .. 4 :
              /\ resolved[n] = ranked[i]
              /\ ranked[i] \notin {Unset, Garbled}
              /\ \A j \in 1 .. i - 1 : ranked[j] \in {Unset, Garbled}
=============================================================================
