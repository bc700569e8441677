------------------------------ MODULE MCMachine ------------------------------
(***************************************************************************)
(* The payload and what its threads own, for TLC: the image as the loader  *)
(* leaves it, the pages behind a thread and the environment in its control *)
(* block.  None looks at another, so each behaviour uses one of the three. *)
(***************************************************************************)
EXTENDS MCThreadResources, ThreadEnvironment, Loader

\* A payload of 24 words, linked at 32: headers, constants with an import
\* lookup table and the TLS directory, data with the import addresses and the
\* template, code.  Module 21 has the symbols 31 and 32, module 22 has 31.
Raw(va, virtualSize, raw, rawSize, executable) ==
  [va |-> va, virtualSize |-> virtualSize, raw |-> raw, rawSize |-> rawSize,
   executable |-> executable]
Entry(type, offset) == [type |-> type, offset |-> offset]
Import(lookup, name, thunk) == [lookup |-> lookup, name |-> name, thunk |-> thunk]
GoodPayload ==
  [signature |-> TRUE, headers |-> 2, size |-> 24, preferred |-> 32, cookie |-> 51,
   exported |-> TRUE, tls |-> 4,
   sections |-> <<Raw(4, 10, 2, 10, FALSE), Raw(14, 8, 12, 7, FALSE), Raw(22, 0, 19, 1, TRUE)>>,
   relocations |->
     <<[page |-> 0, inDirectory |-> TRUE,
        entries |-> <<Entry(DIR64, 4), Entry(DIR64, 5), Entry(DIR64, 6), Entry(ABSOLUTE, 0)>>],
       [page |-> 16, inDirectory |-> TRUE, entries |-> <<Entry(DIR64, 3)>>]>>,
   imports |-> <<Import(10, 8, 14), Import(0, 9, 17)>>,
   file |-> <<5, 5,
              51, 53, 52, 0, 21, 22, 13, 22, 0, 31,
              13, 22, 0, 13, 0, 40, 1,
              32>>]

\* With a fourth symbol, whose stub lies behind the page of stubs, and with a fifth,
\* for which there is no record.
WidePayload ==
  [GoodPayload EXCEPT !.size = 26, !.sections[3] = Raw(22, 0, 19, 3, TRUE),
     !.imports = Append(@, Import(0, 9, 23)), !.file = @ \o <<13, 0>>]
TooWidePayload ==
  [GoodPayload EXCEPT !.size = 26, !.sections[3] = Raw(22, 0, 19, 4, TRUE),
     !.imports = Append(@, Import(0, 9, 23)), !.file = @ \o <<13, 22, 0>>]

\* Files that differ from it in a place or two; all but the first eight are refused.
\* The template of the third and of the fourth is longer than its page.
MachinePayloads ==
  {GoodPayload,
   WidePayload,
   [GoodPayload EXCEPT !.file[4] = 54],
   [WidePayload EXCEPT !.file[4] = 54],
   [GoodPayload EXCEPT !.sections = Append(@, Raw(23, 0, 0, 0, TRUE))],
   [GoodPayload EXCEPT !.imports = <<>>, !.cookie = 0],
   [GoodPayload EXCEPT !.file[6] = 40, !.relocations[1].entries[4] = Entry(DIR64, 7)],
   [GoodPayload EXCEPT !.file[5] = 60],
   TooWidePayload,
   [GoodPayload EXCEPT !.signature = FALSE],
   [GoodPayload EXCEPT !.cookie = 7],
   [GoodPayload EXCEPT !.sections[3].va = 24],
   [GoodPayload EXCEPT !.sections[3].raw = 20],
   [GoodPayload EXCEPT !.relocations = <<>>],
   [GoodPayload EXCEPT !.relocations[2].entries[1].type = 3],
   [GoodPayload EXCEPT !.relocations[2].page = 24],
   [GoodPayload EXCEPT !.relocations[1].inDirectory = FALSE],
   [GoodPayload EXCEPT !.exported = FALSE],
   [GoodPayload EXCEPT !.tls = 0],
   [GoodPayload EXCEPT !.file[4] = 50],
   [GoodPayload EXCEPT !.file[4] = 56],
   [GoodPayload EXCEPT !.sections = Append(@, Raw(2, 1, 0, 1, TRUE))],
   [GoodPayload EXCEPT !.imports[2].thunk = 0],
   [GoodPayload EXCEPT !.imports[2].name = 3],
   [GoodPayload EXCEPT !.imports[1].lookup = 23],
   [GoodPayload EXCEPT !.file[9] = 200, !.file[13] = 200],
   [GoodPayload EXCEPT !.file[17] = 13]}
MachineTargets == <<21, 32>> :> 91

VARIABLE focus
machineVars == <<focus, vars, envVars, loaderVars>>

MachineInit ==
  /\ focus \in {"resources", "environment", "loader"}
  /\ Init /\ EnvInit /\ LoaderInit
  /\ focus # "loader" => payload = GoodPayload

MachineNext ==
  \/ focus = "resources" /\ Next /\ UNCHANGED <<focus, envVars, loaderVars>>
  \/ focus = "environment" /\ EnvNext /\ UNCHANGED <<focus, vars, loaderVars>>
  \/ focus = "loader" /\ LoaderNext /\ UNCHANGED <<focus, vars, envVars>>

MachineSpec == MachineInit /\ [][MachineNext]_machineVars
=============================================================================
