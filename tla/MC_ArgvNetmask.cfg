CONSTANT Argvs <- MCAdvertised
SPECIFICATION Spec
INVARIANT AdvertisedOptionsAccepted
