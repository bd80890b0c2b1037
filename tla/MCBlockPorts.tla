---------------------------- MODULE MCBlockPorts -----------------------------
(* Every kind of MIDI port in the three plug-in APIs, and in WASM every    *)
(* kind of control beside each kind of port; blocks of one or two frames,  *)
(* and four events: enough for two lists of two.                           *)
EXTENDS BlockPorts

PlugIns == [host : {"clap", "vst3", "vst2"}, midi : {"raw", "dynamic", "none"},
            control : {"none"}]
Modules == [host : {"wasm"}, midi : {"raw", "dynamic"},
            control : {"linear", "span", "dynamic", "none"}]
MCShapes == PlugIns \cup Modules
MCSizes == {1, 2}
=============================================================================
