----------------------------- MODULE MCOssiaNode -----------------------------
(* One plain and one smoothed control of three values, one and three        *)
(* channels, and a processor of each kind.                                  *)
EXTENDS OssiaNode

MCParam == {"channels", "gain"}
MCValue == 0..2
MCSmoothed == {"gain"}
MCCounts == {1, 3}
MCLengths == {1, 2}

Shape(node, ins, outs, asks) == [node |-> node, in |-> ins, out |-> outs, asks |-> asks]
Dynamic == Bus("dynamic", 0)
Variably == Bus("variable", 0)

Mono == Shape("mono", <<Dynamic>>, <<Dynamic>>, "never")
TwoInputs == Shape("bus", <<Dynamic, Dynamic>>, <<Dynamic, Bus("mimic", 2)>>, "never")
FixedBusses == Shape("bus", <<Bus("fixed", 1)>>, <<Bus("fixed", 1), Bus("mimic", 1)>>, "never")
FirstMimics == Shape("bus", <<Bus("fixed", 2), Variably>>, <<Bus("mimic", 2)>>, "never")
VariableInput == Shape("bus", <<Dynamic, Variably>>, <<Dynamic, Bus("mimic", 2)>>, "never")
Sidechain == Shape("bus", <<Dynamic, Dynamic>>, <<Bus("mimic", 1), Bus("fixed", 1)>>, "never")
FixedAndDynamic == Shape("bus", <<Dynamic, Bus("fixed", 1)>>, <<Dynamic>>, "never")
AsksWhenRun == Shape("bus", <<Bus("fixed", 2)>>, <<Variably>>, "run")
AsksInPrepare == Shape("native", <<Bus("fixed", 2)>>, <<Variably>>, "prepare")
NativeDynamic == Shape("native", <<Dynamic, Dynamic>>, <<Dynamic, Bus("mimic", 2)>>, "never")

MCShapes == {Mono, TwoInputs, Sidechain, FixedBusses, FixedAndDynamic,
             FirstMimics, VariableInput,
             AsksWhenRun, AsksInPrepare, NativeDynamic}
=============================================================================
