--------------------------- MODULE MCEventMapper ---------------------------
(* MapperArithmetic on four-bit words: every shift of two fields, masks    *)
(* with and without gaps, limits that are met and not, and a filter.       *)
EXTENDS MapperArithmetic

MCConfigs ==
    [flVal : [1 .. NumFilters -> {{}, {0}, {0, 1}}],
     flMsk : [1 .. NumFilters -> {{0}, {0, 1}}],
     mpKey : {{}, {2}},
     mpMsk : [1 .. NumFields -> {Bit, {0, 2}}],
     mpSft : [1 .. NumFields -> ShiftReg],
     mpLmt : [1 .. NumFields -> {{1}, Bit}]]

============================================================================
