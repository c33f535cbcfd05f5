---------------------------- MODULE MC_Partitioner ----------------------------
(***************************************************************************)
(* Command lines for Partitioner.  Sources a.c and b.c, and a second a.c  *)
(* in another directory; one MPI and one GPU kernel, or two MPI kernels.  *)
(***************************************************************************)
EXTENDS Partitioner

Src(d, s) == [dir |-> d, name |-> [stem |-> s, tags |-> <<>>]]
Opt(f) == [flag |-> f, arg |-> NoArg]
OptArg(f, v) == [flag |-> f, arg |-> v]
File(d, s) == [flag |-> "file", arg |-> Src(d, s)]

\* Every pass, pass subsets in option orders that differ from the
\* pipeline's, and each early exit.
MCArgvs ==
    { << Opt("--all"), File("src", "a"), File("src", "b") >>,
      << Opt("-p"), File("src", "a"), Opt("-d") >>,
      << Opt("--codegen"), OptArg("--featuresDir", "feat"), File("src", "a"),
         OptArg("other", "-Iinc") >>,
      << Opt("--analyze"), File("src", "a"), File("lib", "a") >>,
      << Opt("-c"), OptArg("--mpi", "mpi.h"), Opt("-h") >>,
      << Opt("-m"), Opt("--gpu") >>,
      << File("src", "a") >> }

\* A failed first run leaves a rose_ file behind; the second partitions.
StaleArgvs == { << Opt("-f"), Opt("-d"), File("src", "a") >>,
                << Opt("-p"), File("src", "a") >> }

HeaderArgvs == { << Opt("-p"), OptArg("--gpu", "cuda.h"),
                    OptArg("--gpuErr", "driver_types.h"), File("src", "a") >> }

FeatureArgvs == { << Opt("-s"), OptArg("--features", "feat"), File("src", "a") >> }

NoPassArgvs == { << File("src", "a") >> }

=============================================================================
