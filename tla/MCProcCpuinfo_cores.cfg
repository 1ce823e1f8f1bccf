SPECIFICATION CpuinfoSpec
INVARIANTS
    CoresAreFound
