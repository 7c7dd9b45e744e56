SPECIFICATION MCSpec
INVARIANT TypeOK CacheCoherent HashesAgree NoDangling
